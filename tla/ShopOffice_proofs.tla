-------------------------- MODULE ShopOffice_proofs --------------------------
(***************************************************************************)
(* The office of a shop: its printers (PrinterSetup), its place on the map *)
(* (LocationEditor) and its account with the platform (FeeLedger).  For    *)
(* every number of printers, computers, engines and test pages a released  *)
(* order keeps its printer, and a test page reported as accepted was taken *)
(* by a spooler.  For every number of places, editors and requests under   *)
(* way, the label and the address the editor shows are those of the pin,   *)
(* and what the owner typed stays.  For every number of prints, weeks and  *)
(* payment orders and all commissions, the three tables of the account     *)
(* implement its balance (FeeBalance), and the allocations add up.         *)
(***************************************************************************)
EXTENDS PrinterSetup, LocationEditor, FeeLedger, FiniteSetTheorems, WellFoundedInduction, TLAPS

USE SetupAssumption

-----------------------------------------------------------------------------
(* The inductive invariant of the printers. *)

(* A printer whose removal has counted its orders got none since, but for one *)
(* that crossed the count.                                                    *)
RemovalCounted ==
  \A p \in Printers :
    removal[p] = "counted" /\ order.printer = p /\ order.status \in ActiveOrder => crossed

(* A result on its way that says "accepted" is of a page a spooler took.      *)
ResultsWereSpooled == \A r \in result : r.status = "spool_accepted" => r.test \in spooled

SetupInvariant ==
  /\ SetupTypeOK
  /\ RemovalCounted /\ ReleasedOrderHasPrinter
  /\ ResultsWereSpooled /\ AcceptedTestWasPrinted

-----------------------------------------------------------------------------
(* Types. *)

(* What is written for a printer or a computer is a row.                      *)
LEMMA RowsTyped ==
  /\ Absent \in PrinterRows /\ \A b \in BOOLEAN : Added(b) \in PrinterRows
  /\ \A r \in PrinterRows : /\ [r EXCEPT !.linked = TRUE] \in PrinterRows
                            /\ [r EXCEPT !.online = ~@] \in PrinterRows
  /\ \A r \in PrinterRows, t \in TestRows : [r EXCEPT !.test = t] \in PrinterRows
  /\ \A r \in PrinterRows, s \in {"spool_accepted", "failed"} :
       [r EXCEPT !.test.status = s] \in PrinterRows
  /\ Unregistered \in ComputerRows /\ Registered \in ComputerRows
  /\ \A r \in ComputerRows, b \in BOOLEAN : [r EXCEPT !.online = b] \in ComputerRows
  /\ \A r \in ComputerRows, l \in SUBSET Printers :
       /\ [r EXCEPT !.connected = l] \in ComputerRows
       /\ [r EXCEPT !.detected = TRUE, !.connected = l] \in ComputerRows
  /\ Stopped \in EngineRows
  /\ NoCall \in LinkCalls /\ Asked \in LinkCalls
<1>1. NoTest \in TestRows
  BY DEF NoTest, TestRows
<1>2. Absent \in PrinterRows /\ \A b \in BOOLEAN : Added(b) \in PrinterRows
  BY <1>1 DEF Absent, Added, PrinterRows
<1>3. /\ \A r \in PrinterRows : /\ [r EXCEPT !.linked = TRUE] \in PrinterRows
                                /\ [r EXCEPT !.online = ~@] \in PrinterRows
      /\ \A r \in PrinterRows, t \in TestRows : [r EXCEPT !.test = t] \in PrinterRows
  BY DEF PrinterRows
<1>4. \A r \in PrinterRows, s \in {"spool_accepted", "failed"} :
        [r EXCEPT !.test.status = s] \in PrinterRows
  BY DEF PrinterRows, TestRows
<1>5. Unregistered \in ComputerRows /\ Registered \in ComputerRows
  BY DEF Unregistered, Registered, ComputerRows
<1>6. /\ \A r \in ComputerRows, b \in BOOLEAN : [r EXCEPT !.online = b] \in ComputerRows
      /\ \A r \in ComputerRows, l \in SUBSET Printers :
           /\ [r EXCEPT !.connected = l] \in ComputerRows
           /\ [r EXCEPT !.detected = TRUE, !.connected = l] \in ComputerRows
  BY DEF ComputerRows
<1>7. Stopped \in EngineRows
  BY DEF Stopped, Tokens, EngineRows
<1>8. NoCall \in LinkCalls /\ Asked \in LinkCalls
  BY DEF NoCall, Asked, LinkCalls
<1> QED
  BY <1>2, <1>3, <1>4, <1>5, <1>6, <1>7, <1>8

(* A counter of a bound.                                                      *)
LEMMA Bounds ==
  ASSUME SetupTypeOK
  PROVE  /\ Act => acts' \in 0 .. MaxSetup
         /\ Trouble => trouble' \in 0 .. MaxTrouble
  BY DEF SetupTypeOK, Act, Trouble

(* An engine that stops, and the app that stops it to start another.          *)
LEMMA GoneTypes ==
  ASSUME SetupTypeOK, NEW e \in Engines, Gone(e)
  PROVE  /\ engine' \in [Engines -> EngineRows] /\ late' \subseteq Computers
         /\ page' \subseteq [engine: Engines, test: Tests, printer: Printers, by: Computers]
<1>1. engine[e] \in EngineRows
  BY DEF SetupTypeOK
<1>2. engine[e].connected => engine[e].token \in Computers
  BY <1>1 DEF EngineRows, Tokens
<1> QED
  BY <1>2, RowsTyped DEF SetupTypeOK, Gone

(* The start of an agent process keeps the types. *)
LEMMA StartingTypes ==
  ASSUME SetupTypeOK, NEW token \in Computers, Starting(token)
  PROVE  /\ app' \in AppRows
         /\ engine' \in [Engines -> EngineRows] /\ late' \subseteq Computers
         /\ page' \subseteq [engine: Engines, test: Tests, printer: Printers, by: Computers]
<1>1. token \in Tokens /\ app.starts \in Seq(Tokens) /\ app.engine \in Engines \cup {Nothing}
  BY DEF SetupTypeOK, AppRows, Tokens
<1>2. Append(app.starts, token) \in Seq(Tokens)
  BY <1>1
<1>3. app' \in AppRows
  BY <1>1, <1>2 DEF Starting, AppRows, Tokens
<1>4. CASE app.engine = Nothing
  BY <1>3, <1>4 DEF SetupTypeOK, Starting, StopEngine
<1>5. CASE app.engine # Nothing
  BY <1>1, <1>3, <1>5, GoneTypes DEF Starting, StopEngine
<1> QED
  BY <1>4, <1>5

(* The desktop app and its engines.                                           *)
LEMMA DesktopTypes ==
  ASSUME SetupTypeOK,
         \/ RestartEngine \/ RestartTimerFires \/ SetupRequired \/ Spawn \/ Configure
         \/ \E e \in Engines : EngineCrashes(e) \/ SocketDrops(e) \/ Connect(e)
  PROVE  SetupTypeOK'
<1> USE DEF server, desktop, testing
<1>1. CASE RestartEngine
  <2>1. app.token \in Computers
    BY <1>1 DEF RestartEngine, SetupTypeOK, AppRows, Tokens
  <2> QED
    BY <1>1, <2>1, StartingTypes, Bounds DEF RestartEngine, SetupTypeOK
<1>2. CASE RestartTimerFires
  <2>1. app.token \in Computers
    BY <1>2 DEF RestartTimerFires, SetupTypeOK, AppRows, Tokens
  <2> QED
    BY <1>2, <2>1, StartingTypes DEF RestartTimerFires, SetupTypeOK
<1>3. CASE SetupRequired
  <2>1. Tail(app.starts) \in Seq(Tokens)
    BY <1>3 DEF SetupRequired, SetupTypeOK, AppRows
  <2>2. app' \in AppRows
    BY <1>3, <2>1 DEF SetupRequired, SetupTypeOK, AppRows
  <2> QED
    BY <1>3, <2>2 DEF SetupRequired, SetupTypeOK
<1>4. CASE Spawn
  <2>1. Head(app.starts) \in Tokens /\ app.token \in Tokens /\ Tail(app.starts) \in Seq(Tokens)
    <3>1. app.starts \in Seq(Tokens) /\ app.starts # <<>> /\ app.token \in Tokens
      BY <1>4 DEF Spawn, SetupTypeOK, AppRows
    <3> QED
      BY <3>1
  <2>2. PICK e \in Engines, token \in {Head(app.starts), app.token} \ {Nothing} :
          /\ engine' = [engine EXCEPT ![e].token = token]
          /\ app' = [app EXCEPT !.starts = Tail(@), !.engine = e]
    BY <1>4 DEF Spawn
  <2>3. token \in Tokens /\ token # Nothing
    BY <2>1
  <2>4. [engine[e] EXCEPT !.token = token] \in EngineRows
    <3>1. engine[e] \in EngineRows
      BY DEF SetupTypeOK
    <3> QED
      BY <2>3, <3>1 DEF EngineRows
  <2>5. engine' \in [Engines -> EngineRows]
    BY <2>2, <2>4 DEF SetupTypeOK
  <2>6. app' \in AppRows
    BY <1>4, <2>1, <2>2 DEF Spawn, SetupTypeOK, AppRows
  <2> QED
    BY <1>4, <2>5, <2>6 DEF Spawn, SetupTypeOK
<1>5. CASE Configure
  <2>1. fresh \in Computers
    BY <1>5 DEF Configure, SetupTypeOK, Tokens
  <2> QED
    BY <1>5, <2>1, StartingTypes DEF Configure, SetupTypeOK, Tokens
<1>6. ASSUME NEW e \in Engines, EngineCrashes(e) PROVE SetupTypeOK'
  <2>1. app' \in AppRows
    BY <1>6 DEF EngineCrashes, SetupTypeOK, AppRows
  <2> QED
    BY <1>6, <2>1, GoneTypes, Bounds DEF EngineCrashes, SetupTypeOK
<1>7. ASSUME NEW e \in Engines, SocketDrops(e) PROVE SetupTypeOK'
  <2>1. engine[e] \in EngineRows
    BY DEF SetupTypeOK
  <2>2. engine[e].token \in Computers /\ [engine[e] EXCEPT !.connected = FALSE] \in EngineRows
    BY <1>7, <2>1 DEF SocketDrops, EngineRows, Tokens
  <2>3. engine' \in [Engines -> EngineRows] /\ late' \subseteq Computers
    BY <1>7, <2>2 DEF SocketDrops, SetupTypeOK
  <2> QED
    BY <1>7, <2>3, Bounds DEF SocketDrops, SetupTypeOK
<1>8. ASSUME NEW e \in Engines, Connect(e) PROVE SetupTypeOK'
  <2>1. engine[e] \in EngineRows
    BY DEF SetupTypeOK
  <2>2. engine[e].token \in Computers /\ [engine[e] EXCEPT !.connected = TRUE] \in EngineRows
    BY <1>8, <2>1 DEF Connect, EngineRows, Tokens
  <2>3. engine' \in [Engines -> EngineRows]
    BY <1>8, <2>2 DEF Connect, SetupTypeOK
  <2>4. computer[engine[e].token] \in ComputerRows
    BY <2>2 DEF SetupTypeOK
  <2>5. [computer[engine[e].token] EXCEPT !.online = TRUE] \in ComputerRows
    BY <2>4, RowsTyped
  <2>6. computer' \in [Computers -> ComputerRows]
    BY <1>8, <2>5 DEF Connect, SetupTypeOK
  <2> QED
    BY <1>8, <2>3, <2>6 DEF Connect, SetupTypeOK
<1> QED
  BY <1>1, <1>2, <1>3, <1>4, <1>5, <1>6, <1>7, <1>8

(* The computers' rows, and the reports and link calls that write them.       *)
LEMMA ComputerTypes ==
  ASSUME SetupTypeOK, NEW a \in Computers,
         \/ Heartbeat(a) \/ FindSilent(a) \/ MarkOffline(a) \/ Reporting(a) \/ RegisterComputer(a)
         \/ RemoveComputer(a) \/ ConfigureFails
         \/ \E p \in Printers : LinkReads(p) \/ LinkWrites(p, a)
         \/ \E list \in SUBSET Printers : SetConnected(a, list)
  PROVE  SetupTypeOK'
<1> USE DEF server, desktop, testing
<1>1. /\ computer \in [Computers -> ComputerRows] /\ computer[a] \in ComputerRows
      /\ report \in [Computers -> [step: {"idle", "read"}, list: SUBSET Printers]]
      /\ linkCall \in [Printers -> LinkCalls]
  BY DEF SetupTypeOK
<1>2. \A row \in ComputerRows : [computer EXCEPT ![a] = row] \in [Computers -> ComputerRows]
  BY <1>1
<1>3. \A b \in BOOLEAN : [computer EXCEPT ![a].online = b] \in [Computers -> ComputerRows]
  BY <1>1, RowsTyped
<1>4. \A list \in SUBSET Printers :
        /\ [computer EXCEPT ![a].connected = list] \in [Computers -> ComputerRows]
        /\ [computer EXCEPT ![a].detected = TRUE, ![a].connected = list]
             \in [Computers -> ComputerRows]
  BY <1>1 DEF ComputerRows
<1>5. CASE Heartbeat(a)
  BY <1>3, <1>5 DEF Heartbeat, SetupTypeOK
<1>6. CASE FindSilent(a)
  <2>1. trouble' \in 0 .. MaxTrouble
    BY <1>6, SetupAssumption DEF FindSilent, Trouble, SetupTypeOK
  <2> QED
    BY <1>6, <2>1 DEF FindSilent, SetupTypeOK
<1>7. CASE MarkOffline(a)
  BY <1>3, <1>7 DEF MarkOffline, SetupTypeOK
<1>8. CASE ReportArrives(a)
  <2>1. Reached(a) \in SUBSET Printers
    BY <1>1 DEF Reached, ComputerRows
  <2>2. [step |-> "read", list |-> Reached(a)] \in [step: {"idle", "read"}, list: SUBSET Printers]
    BY <2>1
  <2>3. report' \in [Computers -> [step: {"idle", "read"}, list: SUBSET Printers]]
    BY <1>1, <1>8, <2>2 DEF ReportArrives
  <2> QED
    BY <1>8, <2>3 DEF ReportArrives, SetupTypeOK
<1>9. CASE ReportWrites(a)
  <2>1. report[a].list \in SUBSET Printers
    BY <1>1
  <2>2. computer' \in [Computers -> ComputerRows]
    BY <1>1, <1>4, <1>9, <2>1 DEF ReportWrites
  <2>3. report' \in [Computers -> [step: {"idle", "read"}, list: SUBSET Printers]]
    BY <1>1, <1>9 DEF ReportWrites, NoReport
  <2> QED
    BY <1>9, <2>2, <2>3 DEF ReportWrites, SetupTypeOK
<1>10. CASE RegisterComputer(a)
  BY <1>2, <1>10, RowsTyped, Bounds DEF RegisterComputer, SetupTypeOK, Tokens
<1>11. CASE RemoveComputer(a)
  BY <1>2, <1>11, RowsTyped, Bounds DEF RemoveComputer, Unregister, SetupTypeOK
<1>12. CASE ConfigureFails
  <2>1. fresh \in Computers
    BY <1>12 DEF ConfigureFails, SetupTypeOK, Tokens
  <2>2. computer' \in [Computers -> ComputerRows] /\ late' \subseteq Computers
    <3>1. CASE Unregister(fresh)
      BY <1>1, <2>1, <3>1, RowsTyped DEF Unregister, SetupTypeOK
    <3>2. CASE UNCHANGED <<computer, late>>
      BY <3>2 DEF SetupTypeOK
    <3> QED
      BY <1>12, <3>1, <3>2 DEF ConfigureFails
  <2> QED
    BY <1>12, <2>2, Bounds DEF ConfigureFails, SetupTypeOK, Tokens
<1>13. ASSUME NEW p \in Printers, LinkReads(p) PROVE SetupTypeOK'
  <2> DEFINE todo == {b \in Computers : computer[b].there /\ computer[b].detected
                                        /\ p \notin computer[b].connected}
             lists == [b \in todo |-> computer[b].connected]
  <2>1. lists \in [todo -> SUBSET Printers] /\ todo \in SUBSET Computers
    BY <1>1 DEF ComputerRows
  <2>2. linkCall' = [linkCall EXCEPT ![p] =
          [step |-> IF todo = {} THEN "idle" ELSE "writing", todo |-> lists]]
    BY <1>13 DEF LinkReads
  <2> HIDE DEF todo, lists
  <2>3. [step |-> IF todo = {} THEN "idle" ELSE "writing", todo |-> lists] \in LinkCalls
    BY <2>1 DEF LinkCalls
  <2>4. linkCall' \in [Printers -> LinkCalls]
    BY <1>1, <2>2, <2>3
  <2> QED
    BY <1>13, <2>4 DEF LinkReads, SetupTypeOK
<1>14. ASSUME NEW p \in Printers, LinkWrites(p, a) PROVE SetupTypeOK'
  <2>1. PICK S \in SUBSET Computers : linkCall[p].todo \in [S -> SUBSET Printers]
    <3>1. a \in DOMAIN linkCall[p].todo
      BY <1>14 DEF LinkWrites
    <3>2. linkCall[p].todo # <<>>
      BY <3>1
    <3> QED
      <4>1. linkCall[p] \in LinkCalls
        BY <1>1
      <4>2. linkCall[p].todo \in UNION {[S -> SUBSET Printers] : S \in SUBSET Computers}
        BY <3>2, <4>1 DEF LinkCalls
      <4> QED
        BY <4>2
  <2> DEFINE rest == DOMAIN linkCall[p].todo \ {a}
             lists == [b \in rest |-> linkCall[p].todo[b]]
  <2>2. a \in S /\ linkCall[p].todo[a] \in SUBSET Printers
    BY <1>14, <2>1 DEF LinkWrites
  <2>3. lists \in [rest -> SUBSET Printers] /\ rest \in SUBSET Computers
    BY <2>1
  <2>4. linkCall' = [linkCall EXCEPT ![p] =
          IF rest = {} \/ ~computer[a].there THEN NoCall ELSE [@ EXCEPT !.todo = lists]]
    BY <1>14 DEF LinkWrites
  <2> HIDE DEF rest, lists
  <2>5. [linkCall[p] EXCEPT !.todo = lists] \in LinkCalls
    BY <1>1, <2>3 DEF LinkCalls
  <2>6. linkCall' \in [Printers -> LinkCalls]
    BY <1>1, <2>4, <2>5, RowsTyped
  <2>7. linkCall[p].todo[a] \cup {p} \in SUBSET Printers
    BY <2>2
  <2>8. computer' \in [Computers -> ComputerRows]
    BY <1>1, <1>4, <1>14, <2>7 DEF LinkWrites
  <2> QED
    BY <1>14, <2>6, <2>8 DEF LinkWrites, SetupTypeOK
<1>15. ASSUME NEW list \in SUBSET Printers, SetConnected(a, list) PROVE SetupTypeOK'
  BY <1>4, <1>15, Bounds DEF SetConnected, SetupTypeOK
<1> QED
  BY <1>5, <1>6, <1>7, <1>8, <1>9, <1>10, <1>11, <1>12, <1>13, <1>14, <1>15 DEF Reporting

(* The printers' rows, the order and the removal of a printer.                *)
LEMMA PrinterTypes ==
  ASSUME SetupTypeOK, NEW p \in Printers,
         \/ \E linked \in BOOLEAN : AddPrinter(p, linked)
         \/ LinkPrinter(p) \/ SetStatus(p) \/ CountActive(p) \/ Assign(p)
         \/ DeletePrinter(p)
  PROVE  SetupTypeOK'
<1> USE DEF server, desktop, testing
<1>1. /\ printer \in [Printers -> PrinterRows] /\ printer[p] \in PrinterRows
      /\ linkCall \in [Printers -> LinkCalls]
  BY DEF SetupTypeOK
<1>2. \A row \in PrinterRows : [printer EXCEPT ![p] = row] \in [Printers -> PrinterRows]
  BY <1>1
<1>3. [linkCall EXCEPT ![p] = Asked] \in [Printers -> LinkCalls]
  BY <1>1, RowsTyped
<1>4. ASSUME NEW linked \in BOOLEAN, AddPrinter(p, linked) PROVE SetupTypeOK'
  BY <1>1, <1>2, <1>3, <1>4, RowsTyped, Bounds DEF AddPrinter, Created, SetupTypeOK
<1>5. CASE LinkPrinter(p) \/ SetStatus(p)
  <2>1. PICK row \in PrinterRows : Patched(p, row) /\ Act
    <3>1. CASE LinkPrinter(p)
      <4>1. [printer[p] EXCEPT !.linked = TRUE] \in PrinterRows
        BY <1>1, RowsTyped
      <4> QED
        BY <3>1, <4>1 DEF LinkPrinter
    <3>2. CASE SetStatus(p)
      <4>1. [printer[p] EXCEPT !.online = ~@] \in PrinterRows
        BY <1>1, RowsTyped
      <4> QED
        BY <3>2, <4>1 DEF SetStatus
    <3> QED
      BY <1>5, <3>1, <3>2
  <2>2. printer' \in [Printers -> PrinterRows] /\ linkCall' \in [Printers -> LinkCalls]
    BY <1>1, <1>2, <1>3, <2>1 DEF Patched
  <2> QED
    BY <1>5, <2>1, <2>2, Bounds DEF LinkPrinter, SetStatus, SetupTypeOK
<1>6. CASE CountActive(p)
  BY <1>6, Bounds DEF CountActive, SetupTypeOK
<1>7. CASE Assign(p)
  <2>1. [status |-> "released", printer |-> p] \in
          [status: {"queued", "released", "printing", "done"}, printer: Printers \cup {Nothing}]
    OBVIOUS
  <2>2. crossed' \in BOOLEAN
    BY <1>7 DEF Assign, SetupTypeOK
  <2> QED
    BY <1>7, <2>1, <2>2, Bounds DEF Assign, SetupTypeOK
<1>8. CASE DeletePrinter(p)
  <2>1. printer' \in [Printers -> PrinterRows]
    BY <1>2, <1>8, RowsTyped DEF DeletePrinter
  <2>2. order' \in [status: {"queued", "released", "printing", "done"}, printer: Printers \cup {Nothing}]
    BY <1>8 DEF DeletePrinter, SetupTypeOK
  <2> QED
    BY <1>8, <2>1, <2>2 DEF DeletePrinter, SetupTypeOK
<1> QED
  BY <1>4, <1>5, <1>6, <1>7, <1>8

(* Test pages and their results, and the order as it prints.                  *)
LEMMA TestTypes ==
  ASSUME SetupTypeOK,
         \/ \E p \in Printers, a \in Computers, t \in Tests : TestPrinter(p, a, t)
         \/ PrintOrder
         \/ \E g \in page : PrintPage(g)
         \/ \E r \in result : ResultLost(r) \/ RecordResult(r)
  PROVE  SetupTypeOK'
<1> USE DEF server, desktop, testing
<1>1. /\ printer \in [Printers -> PrinterRows]
      /\ page \subseteq [engine: Engines, test: Tests, printer: Printers, by: Computers]
      /\ result \subseteq [test: Tests, printer: Printers, by: Computers,
                           status: {"spool_accepted", "failed"}]
  BY DEF SetupTypeOK
<1>2. ASSUME NEW p \in Printers, NEW a \in Computers, NEW t \in Tests, TestPrinter(p, a, t)
      PROVE  SetupTypeOK'
  <2>1. [id |-> t, by |-> a, status |-> "requested"] \in TestRows
    BY DEF TestRows
  <2>2. [printer[p] EXCEPT !.test = [id |-> t, by |-> a, status |-> "requested"]] \in PrinterRows
    BY <1>1, <2>1, RowsTyped
  <2>3. printer' \in [Printers -> PrinterRows]
    BY <1>1, <1>2, <2>2 DEF TestPrinter
  <2>4. page' \subseteq [engine: Engines, test: Tests, printer: Printers, by: Computers]
    BY <1>1, <1>2 DEF TestPrinter
  <2> QED
    BY <1>2, <2>3, <2>4, Bounds DEF TestPrinter, SetupTypeOK
<1>3. ASSUME NEW g \in page, PrintPage(g) PROVE SetupTypeOK'
  <2>1. \A s \in {"spool_accepted", "failed"} :
          Result(g, s) \in [test: Tests, printer: Printers, by: Computers,
                            status: {"spool_accepted", "failed"}]
    BY <1>1 DEF Result
  <2>2. g.test \in Tests
    BY <1>1
  <2>3. /\ result' \subseteq [test: Tests, printer: Printers, by: Computers,
                              status: {"spool_accepted", "failed"}]
        /\ spooled' \subseteq Tests /\ page' \subseteq page
    BY <1>1, <1>3, <2>1, <2>2 DEF PrintPage, SetupTypeOK
  <2> QED
    BY <1>1, <1>3, <2>3 DEF PrintPage, SetupTypeOK
<1>4. ASSUME NEW r \in result, ResultLost(r) PROVE SetupTypeOK'
  <2>1. [r EXCEPT !.status = "failed"] \in [test: Tests, printer: Printers, by: Computers,
                                            status: {"spool_accepted", "failed"}]
    BY <1>1
  <2> QED
    BY <1>1, <1>4, <2>1, Bounds DEF ResultLost, SetupTypeOK
<1>5. ASSUME NEW r \in result, RecordResult(r) PROVE SetupTypeOK'
  <2>1. r.printer \in Printers /\ r.status \in {"spool_accepted", "failed"}
    BY <1>1
  <2>2. [printer[r.printer] EXCEPT !.test.status = r.status] \in PrinterRows
    BY <1>1, <2>1, RowsTyped
  <2>3. printer' \in [Printers -> PrinterRows]
    BY <1>1, <1>5, <2>1, <2>2 DEF RecordResult
  <2> QED
    BY <1>1, <1>5, <2>3 DEF RecordResult, SetupTypeOK
<1>6. CASE PrintOrder
  <2>1. order' \in [status: {"queued", "released", "printing", "done"}, printer: Printers \cup {Nothing}]
    BY <1>6 DEF PrintOrder, SetupTypeOK
  <2> QED
    BY <1>6, <2>1 DEF PrintOrder, SetupTypeOK
<1> QED
  BY <1>2, <1>3, <1>4, <1>5, <1>6

(* Every step keeps the types. *)
LEMMA TypesInductive == ASSUME SetupTypeOK, [SetupNext]_setupVars PROVE SetupTypeOK'
<1>1. CASE UNCHANGED setupVars
  BY <1>1 DEF setupVars, server, desktop, testing, SetupTypeOK
<1>2. CASE Requests
  BY <1>2, DesktopTypes, ComputerTypes, PrinterTypes, TestTypes DEF Requests
<1>3. CASE Troubles
  <2>1. PICK a \in Computers : TRUE
    OBVIOUS
  <2> QED
    BY <1>3, <2>1, DesktopTypes, ComputerTypes, TestTypes DEF Troubles
<1> QED
  BY <1>1, <1>2, <1>3, DesktopTypes, ComputerTypes, PrinterTypes, TestTypes DEF SetupNext

-----------------------------------------------------------------------------
(* A released order keeps its printer. *)

Removals == RemovalCounted /\ ReleasedOrderHasPrinter

(* Every step keeps what a removal of a printer counted. *)
LEMMA RemovalsInductive ==
  ASSUME SetupTypeOK, Removals, [SetupNext]_setupVars
  PROVE  Removals'
<1> USE DEF server, desktop, testing
<1>1. ASSUME order' = order, removal' = removal, crossed' = crossed PROVE Removals'
  BY <1>1 DEF Removals, RemovalCounted, ReleasedOrderHasPrinter
<1>2. ASSUME NEW p \in Printers, CountActive(p) PROVE Removals'
  <2>1. /\ removal'[p] = "counted" /\ \A q \in Printers : q # p => removal'[q] = removal[q]
        /\ order' = order /\ crossed' = crossed /\ ~ActiveOn(p)
    BY <1>2 DEF CountActive, SetupTypeOK
  <2> QED
    BY <2>1 DEF Removals, RemovalCounted, ReleasedOrderHasPrinter, ActiveOn
<1>3. ASSUME NEW p \in Printers, DeletePrinter(p) PROVE Removals'
  <2>1. /\ removal[p] = "counted" /\ removal'[p] = "idle" /\ crossed' = crossed
        /\ \A q \in Printers : q # p => removal'[q] = removal[q]
    BY <1>3 DEF DeletePrinter, SetupTypeOK
  <2>2. CASE order.printer # p
    BY <1>3, <2>1, <2>2 DEF DeletePrinter, Removals, RemovalCounted, ReleasedOrderHasPrinter
  <2>3. CASE order.printer = p
    <3>1. order'.printer = Nothing /\ order'.status = order.status
      BY <1>3, <2>3 DEF DeletePrinter, SetupTypeOK
    <3>2. order.status \in ActiveOrder => crossed
      BY <2>1, <2>3 DEF Removals, RemovalCounted
    <3> QED
      BY <2>1, <3>1, <3>2 DEF Removals, RemovalCounted, ReleasedOrderHasPrinter
  <2> QED
    BY <2>2, <2>3
<1>4. ASSUME NEW p \in Printers, Assign(p) PROVE Removals'
  <2>1. /\ order'.printer = p /\ p # Nothing /\ removal' = removal
        /\ crossed' = (crossed \/ removal[p] = "counted")
    BY <1>4 DEF Assign
  <2> QED
    BY <2>1 DEF Removals, RemovalCounted, ReleasedOrderHasPrinter
<1>5. CASE PrintOrder
  <2>1. /\ order'.printer = order.printer /\ order.status \in ActiveOrder
        /\ removal' = removal /\ crossed' = crossed
    BY <1>5 DEF PrintOrder, SetupTypeOK
  <2> QED
    BY <2>1 DEF Removals, RemovalCounted, ReleasedOrderHasPrinter
<1>6. CASE UNCHANGED setupVars
  BY <1>1, <1>6 DEF setupVars
<1>7. ASSUME NEW p \in Printers, NEW a \in Computers,
             \/ \E linked \in BOOLEAN : AddPrinter(p, linked)
             \/ LinkPrinter(p) \/ SetStatus(p) \/ LinkReads(p) \/ LinkWrites(p, a)
             \/ \E t \in Tests : TestPrinter(p, a, t)
      PROVE  Removals'
  BY <1>1, <1>7 DEF AddPrinter, LinkPrinter, SetStatus, LinkReads, LinkWrites, TestPrinter
<1>8. ASSUME NEW a \in Computers,
             \/ RegisterComputer(a) \/ RemoveComputer(a)
             \/ Heartbeat(a) \/ FindSilent(a) \/ MarkOffline(a) \/ Reporting(a)
             \/ \E list \in SUBSET Printers : SetConnected(a, list)
      PROVE  Removals'
  BY <1>1, <1>8 DEF RegisterComputer, RemoveComputer, Heartbeat, FindSilent, MarkOffline, Reporting,
                    ReportArrives, ReportWrites, SetConnected
<1>9. CASE \/ RestartEngine \/ RestartTimerFires \/ SetupRequired \/ Spawn \/ Configure
           \/ ConfigureFails
           \/ \E e \in Engines : EngineCrashes(e) \/ SocketDrops(e) \/ Connect(e)
  BY <1>1, <1>9 DEF RestartEngine, RestartTimerFires, SetupRequired, Spawn, Configure,
                    ConfigureFails, EngineCrashes, SocketDrops, Connect
<1>10. CASE \/ \E g \in page : PrintPage(g)
            \/ \E r \in result : ResultLost(r) \/ RecordResult(r)
  BY <1>1, <1>10 DEF PrintPage, ResultLost, RecordResult
<1>11. PICK a \in Computers : TRUE
  OBVIOUS
<1> QED
  BY <1>2, <1>3, <1>4, <1>5, <1>6, <1>7, <1>8, <1>9, <1>10, <1>11 DEF SetupNext, Requests, Troubles

-----------------------------------------------------------------------------
(* A test page reported as accepted was taken by a spooler. *)

Acceptance == ResultsWereSpooled /\ AcceptedTestWasPrinted

(* Every step keeps results within what a spooler took. *)
LEMMA AcceptanceInductive ==
  ASSUME SetupTypeOK, Acceptance, [SetupNext]_setupVars
  PROVE  Acceptance'
<1> USE DEF server, desktop, testing
<1>1. printer \in [Printers -> PrinterRows]
  BY DEF SetupTypeOK
<1>2. ASSUME printer' = printer, result' = result, spooled' = spooled PROVE Acceptance'
  BY <1>2 DEF Acceptance, ResultsWereSpooled, AcceptedTestWasPrinted
<1>3. ASSUME result' = result, spooled' = spooled, NEW p \in Printers,
             \A q \in Printers : q # p => printer'[q] = printer[q],
             \/ printer'[p].test.status # "spool_accepted"
             \/ printer'[p].test = printer[p].test
      PROVE  Acceptance'
  BY <1>3 DEF Acceptance, ResultsWereSpooled, AcceptedTestWasPrinted
<1>4. \A p \in Printers, row \in PrinterRows :
        LET new == [printer EXCEPT ![p] = row] IN
          new[p] = row /\ \A q \in Printers : q # p => new[q] = printer[q]
  BY <1>1
<1>5. Absent.test.status # "spool_accepted" /\ \A b \in BOOLEAN : Added(b).test.status # "spool_accepted"
  BY DEF Absent, Added, NoTest
<1>6. ASSUME NEW p \in Printers, NEW linked \in BOOLEAN, AddPrinter(p, linked) PROVE Acceptance'
  <2>1. printer' = [printer EXCEPT ![p] = Added(linked)] /\ result' = result /\ spooled' = spooled
    BY <1>6 DEF AddPrinter, Created
  <2>2. printer'[p] = Added(linked) /\ \A q \in Printers : q # p => printer'[q] = printer[q]
    BY <1>1, <2>1
  <2>3. printer'[p].test.status # "spool_accepted"
    BY <1>5, <2>2
  <2> QED
    BY <1>3, <2>1, <2>2, <2>3
<1>7. ASSUME NEW p \in Printers, DeletePrinter(p) PROVE Acceptance'
  <2>1. printer' = [printer EXCEPT ![p] = Absent] /\ result' = result /\ spooled' = spooled
    BY <1>7 DEF DeletePrinter
  <2>2. printer'[p] = Absent /\ \A q \in Printers : q # p => printer'[q] = printer[q]
    BY <1>1, <2>1
  <2>3. printer'[p].test.status # "spool_accepted"
    BY <1>5, <2>2
  <2> QED
    BY <1>3, <2>1, <2>2, <2>3
<1>8. ASSUME NEW p \in Printers, LinkPrinter(p) \/ SetStatus(p) PROVE Acceptance'
  <2>1. PICK row \in PrinterRows : /\ printer' = [printer EXCEPT ![p] = row]
                                   /\ row.test = printer[p].test
    <3>1. [printer[p] EXCEPT !.linked = TRUE] \in PrinterRows
          /\ [printer[p] EXCEPT !.online = ~@] \in PrinterRows
      BY <1>1, RowsTyped
    <3>2. [printer[p] EXCEPT !.linked = TRUE].test = printer[p].test
          /\ [printer[p] EXCEPT !.online = ~@].test = printer[p].test
      BY <1>1 DEF PrinterRows
    <3> QED
      BY <1>8, <3>1, <3>2 DEF LinkPrinter, SetStatus, Patched
  <2>2. result' = result /\ spooled' = spooled
    BY <1>8 DEF LinkPrinter, SetStatus
  <2> QED
    BY <1>3, <1>4, <2>1, <2>2
<1>9. ASSUME NEW p \in Printers, NEW a \in Computers, NEW t \in Tests, TestPrinter(p, a, t)
      PROVE  Acceptance'
  <2> DEFINE test == [id |-> t, by |-> a, status |-> "requested"]
             row == [printer[p] EXCEPT !.test = test]
  <2>1. row \in PrinterRows /\ row.test.status = "requested"
    <3>1. test \in TestRows
      BY DEF TestRows
    <3>2. printer[p] \in PrinterRows
      BY <1>1
    <3>3. row \in PrinterRows
      BY <3>1, <3>2, RowsTyped
    <3> QED
      BY <3>2, <3>3 DEF PrinterRows
  <2>2. printer' = [printer EXCEPT ![p] = row] /\ result' = result /\ spooled' = spooled
    BY <1>9 DEF TestPrinter
  <2> HIDE DEF row
  <2> QED
    BY <1>3, <1>4, <2>1, <2>2
<1>10. ASSUME NEW g \in page, PrintPage(g) PROVE Acceptance'
  <2>1. /\ printer' = printer /\ spooled \subseteq spooled'
        /\ \A r \in result' : r \in result \/ r.status = "failed" \/ r.test \in spooled'
    BY <1>10 DEF PrintPage, Result
  <2> QED
    BY <2>1 DEF Acceptance, ResultsWereSpooled, AcceptedTestWasPrinted
<1>11. ASSUME NEW r \in result, ResultLost(r) PROVE Acceptance'
  <2>1. r \in [test: Tests, printer: Printers, by: Computers, status: {"spool_accepted", "failed"}]
    BY DEF SetupTypeOK
  <2>2. [r EXCEPT !.status = "failed"].status = "failed"
    BY <2>1
  <2>3. printer' = printer /\ spooled' = spooled /\ \A x \in result' : x \in result \/ x.status = "failed"
    BY <1>11, <2>2 DEF ResultLost
  <2> QED
    BY <2>3 DEF Acceptance, ResultsWereSpooled, AcceptedTestWasPrinted
<1>12. ASSUME NEW r \in result, RecordResult(r) PROVE Acceptance'
  <2>1. r.printer \in Printers /\ printer[r.printer] \in PrinterRows
    BY <1>1 DEF SetupTypeOK
  <2>2. result' \subseteq result /\ spooled' = spooled
    BY <1>12 DEF RecordResult
  <2>3. CASE printer' = printer
    BY <2>2, <2>3 DEF Acceptance, ResultsWereSpooled, AcceptedTestWasPrinted
  <2>4. CASE IsCurrent(r) /\ printer' = [printer EXCEPT ![r.printer].test.status = r.status]
    <3>1. /\ printer'[r.printer].test.status = r.status
          /\ printer'[r.printer].test.id = r.test
          /\ \A q \in Printers : q # r.printer => printer'[q] = printer[q]
      BY <1>1, <2>1, <2>4 DEF IsCurrent, PrinterRows, TestRows
    <3>2. r.status = "spool_accepted" => r.test \in spooled
      BY DEF Acceptance, ResultsWereSpooled
    <3> QED
      BY <2>1, <2>2, <3>1, <3>2 DEF Acceptance, ResultsWereSpooled, AcceptedTestWasPrinted
  <2> QED
    BY <1>12, <2>3, <2>4 DEF RecordResult
<1>13. ASSUME NEW p \in Printers, NEW a \in Computers,
              CountActive(p) \/ Assign(p) \/ LinkReads(p) \/ LinkWrites(p, a)
       PROVE  Acceptance'
  BY <1>2, <1>13 DEF CountActive, Assign, LinkReads, LinkWrites
<1>14. ASSUME NEW a \in Computers,
              \/ RegisterComputer(a) \/ RemoveComputer(a)
              \/ Heartbeat(a) \/ FindSilent(a) \/ MarkOffline(a) \/ Reporting(a)
              \/ \E list \in SUBSET Printers : SetConnected(a, list)
       PROVE  Acceptance'
  BY <1>2, <1>14 DEF RegisterComputer, RemoveComputer, Heartbeat, FindSilent, MarkOffline, Reporting,
                     ReportArrives, ReportWrites, SetConnected
<1>15. CASE \/ RestartEngine \/ RestartTimerFires \/ SetupRequired \/ Spawn \/ Configure
            \/ ConfigureFails \/ PrintOrder
            \/ \E e \in Engines : EngineCrashes(e) \/ SocketDrops(e) \/ Connect(e)
  BY <1>2, <1>15 DEF RestartEngine, RestartTimerFires, SetupRequired, Spawn, Configure,
                     ConfigureFails, PrintOrder, EngineCrashes, SocketDrops, Connect
<1>16. CASE UNCHANGED setupVars
  BY <1>2, <1>16 DEF setupVars
<1>17. PICK a \in Computers : TRUE
  OBVIOUS
<1> QED
  BY <1>6, <1>7, <1>8, <1>9, <1>10, <1>11, <1>12, <1>13, <1>14, <1>15, <1>16, <1>17
     DEF SetupNext, Requests, Troubles

-----------------------------------------------------------------------------
(* The theorems. *)

(* A shop starts with no computer, or with one at rest. *)
LEMMA SetupStarts == SetupInit => SetupInvariant
<1> SUFFICES ASSUME SetupInit PROVE SetupInvariant
  OBVIOUS
<1>1. PICK token \in Tokens, added \in SUBSET Printers : Found(token, <<token>>, added)
  <2>1. CASE Launched(Nothing, {})
    BY <2>1 DEF Launched, Tokens
  <2>2. CASE Launched(CHOOSE a \in Computers : TRUE, {CHOOSE p \in Printers : TRUE})
    <3>1. (CHOOSE a \in Computers : TRUE) \in Tokens
      BY DEF Tokens
    <3>2. {CHOOSE p \in Printers : TRUE} \in SUBSET Printers
      BY DEF Tokens
    <3> QED
      BY <2>2, <3>1, <3>2 DEF Launched
  <2> QED
    BY <2>1, <2>2 DEF SetupInit
<1>2. /\ printer = [p \in Printers |-> IF p \in added THEN Added(TRUE) ELSE Absent]
      /\ computer = [a \in Computers |-> IF a = token THEN Registered ELSE Unregistered]
      /\ order = [status |-> "queued", printer |-> Nothing] /\ result = {}
      /\ removal = [p \in Printers |-> "idle"]
  BY <1>1 DEF Found
<1>3. SetupTypeOK
  <2>1. printer \in [Printers -> PrinterRows] /\ computer \in [Computers -> ComputerRows]
    BY <1>2, RowsTyped
  <2>2. <<token>> \in Seq(Tokens)
    BY <1>1
  <2>3. app \in AppRows
    BY <1>1, <2>2 DEF Found, AppRows, Tokens
  <2>4. engine \in [Engines -> EngineRows] /\ linkCall \in [Printers -> LinkCalls]
    BY <1>1, RowsTyped DEF Found
  <2>5. report \in [Computers -> [step: {"idle", "read"}, list: SUBSET Printers]]
    BY <1>1 DEF Found, NoReport
  <2>6. /\ order \in [status: {"queued", "released", "printing", "done"}, printer: Printers \cup {Nothing}]
        /\ fresh \in Tokens /\ acts \in 0 .. MaxSetup /\ trouble \in 0 .. MaxTrouble
        /\ removal \in [Printers -> {"idle", "counted"}]
    BY <1>1, <1>2 DEF Found, Tokens
  <2> QED
    BY <1>1, <1>2, <2>1, <2>3, <2>4, <2>5, <2>6 DEF Found, SetupTypeOK
<1>4. \A p \in Printers : printer[p].test.status = "none"
  BY <1>2 DEF Added, Absent, NoTest
<1>5. ResultsWereSpooled /\ AcceptedTestWasPrinted
  BY <1>2, <1>4 DEF ResultsWereSpooled, AcceptedTestWasPrinted
<1>6. RemovalCounted /\ ReleasedOrderHasPrinter
  BY <1>2 DEF RemovalCounted, ReleasedOrderHasPrinter, ActiveOrder
<1> QED
  BY <1>3, <1>5, <1>6 DEF SetupInvariant

(* The computers, printers, engines and test pages of a shop keep their       *)
(* types, and the invariant behind the two properties holds.                  *)
THEOREM SetupInvariantHolds == SetupSpec => []SetupInvariant
<1>1. ASSUME SetupInvariant, [SetupNext]_setupVars PROVE SetupInvariant'
  <2>1. Removals /\ Acceptance /\ SetupTypeOK
    BY <1>1 DEF SetupInvariant, Removals, Acceptance
  <2>2. Removals' /\ Acceptance' /\ SetupTypeOK'
    BY <1>1, <2>1, TypesInductive, RemovalsInductive, AcceptanceInductive
  <2> QED
    BY <2>2 DEF SetupInvariant, Removals, Acceptance
<1> QED
  BY <1>1, SetupStarts, PTL DEF SetupSpec

(* No removal takes the printer from an order that was released to it, but    *)
(* for an order assigned between the count and the delete.                    *)
THEOREM ReleasedOrderHasPrinterHolds == SetupSpec => []ReleasedOrderHasPrinter
<1>1. SetupInvariant => ReleasedOrderHasPrinter
  BY DEF SetupInvariant
<1> QED
  BY <1>1, SetupInvariantHolds, PTL

(* A printer says "spool accepted" only of its latest test page, and only     *)
(* when a spooler took that page.                                             *)
THEOREM AcceptedTestWasPrintedHolds == SetupSpec => []AcceptedTestWasPrinted
<1>1. SetupInvariant => AcceptedTestWasPrinted
  BY DEF SetupInvariant
<1> QED
  BY <1>1, SetupInvariantHolds, PTL

-----------------------------------------------------------------------------
(* The location of the shop. *)

HIDE SetupAssumption
USE LocationAssumption

(* Registration asks for nothing any more once the page of the checklist is    *)
(* loading, and no editor is shown before it has loaded.                       *)
FormStages ==
  /\ form.stage # "register" => ~form.asked /\ form.look = NoPlace
  /\ \A e \in Mounts : editor[e].phase # "unborn" => form.stage = "setup"

OneEditorShown == \A e, o \in Mounts : Shown(e) /\ Shown(o) => e = o

(* Lookups are numbered as they are debounced: none is ahead of its editor, and *)
(* an editor not shown yet has none.                                           *)
LooksNumbered ==
  \A l \in looks : l.seq <= editor[l.ed].seq /\ editor[l.ed].phase # "unborn"

AsksOfBorn ==
  /\ \A a \in asks : editor[a.ed].phase # "unborn"
  /\ \A f \in finds : editor[f.ed].phase # "unborn"
  /\ \A e \in Mounts : editor[e].phase = "unborn" => editor[e].timer = NoPlace

(* While no hidden editor has moved the pin, the lookup that counts is of the   *)
(* pin on show.                                                                *)
LookupIsOfPin ==
  \A e \in Mounts : Shown(e) /\ ~strayed =>
    /\ editor[e].timer # NoPlace => editor[e].timer = pin
    /\ \A l \in looks : l.ed = e /\ l.seq = editor[e].seq => l.place = pin

LocationInvariant ==
  /\ LocationTypeOK
  /\ FormStages /\ OneEditorShown /\ LooksNumbered /\ AsksOfBorn
  /\ LookupIsOfPin /\ LabelIsOfPin /\ AddressFollowsPin

-----------------------------------------------------------------------------
(* Types. *)

(* What an action writes into an editor. *)
Wrote(e, ed) == ed \in EditorStates /\ editor' = [editor EXCEPT ![e] = ed]

(* The lookups, the label and the filled-in address of an editor stay.         *)
SameLookups(e, ed) ==
  /\ ed.phase = editor[e].phase /\ ed.seq = editor[e].seq /\ ed.timer = editor[e].timer
  /\ ed.label = editor[e].label /\ ed.auto = editor[e].auto

LEMMA EditorWrote ==
  ASSUME LocationTypeOK, NEW e \in Mounts, NEW ed, Wrote(e, ed)
  PROVE  /\ editor' \in [Mounts -> EditorStates] /\ editor'[e] = ed
         /\ \A o \in Mounts : o # e => editor'[o] = editor[o]
BY DEF LocationTypeOK, Wrote

(* Writing one column keeps the type of an editor; the other writes are chains *)
(* of these.                                                                   *)
LEMMA ColumnWrite ==
  ASSUME NEW ed \in EditorStates
  PROVE  /\ [ed EXCEPT !.phase = "hidden"] \in EditorStates
         /\ \A x \in MapPins : [ed EXCEPT !.timer = x] \in EditorStates
         /\ \A x \in MapLabels : [ed EXCEPT !.label = x] \in EditorStates
         /\ \A x \in {"pinned"} \cup MapLabels : [ed EXCEPT !.auto = x] \in EditorStates
         /\ [ed EXCEPT !.seq = ed.seq + 1] \in EditorStates
         /\ [ed EXCEPT !.detect = ed.detect + 1] \in EditorStates
         /\ [ed EXCEPT !.searched = TRUE] \in EditorStates
         /\ \A x \in BOOLEAN : [ed EXCEPT !.busy = x] \in EditorStates
         /\ \A x \in BOOLEAN : [ed EXCEPT !.searching = x] \in EditorStates
         /\ \A x \in SUBSET Places : [ed EXCEPT !.results = x] \in EditorStates
         /\ \A x \in [pin : MapPins, address : Texts, done : BOOLEAN] :
              [ed EXCEPT !.props = x] \in EditorStates
<1>1. \A x \in MapPins : [ed EXCEPT !.timer = x] \in EditorStates
  BY DEF EditorStates
<1>2. \A x \in MapLabels : [ed EXCEPT !.label = x] \in EditorStates
  BY DEF EditorStates
<1>3. \A x \in {"pinned"} \cup MapLabels : [ed EXCEPT !.auto = x] \in EditorStates
  BY DEF EditorStates
<1>4. /\ [ed EXCEPT !.seq = ed.seq + 1] \in EditorStates
      /\ [ed EXCEPT !.detect = ed.detect + 1] \in EditorStates
  BY DEF EditorStates
<1>5. /\ [ed EXCEPT !.phase = "hidden"] \in EditorStates
      /\ [ed EXCEPT !.searched = TRUE] \in EditorStates
  BY DEF EditorStates
<1>6. \A x \in BOOLEAN : [ed EXCEPT !.busy = x] \in EditorStates
                         /\ [ed EXCEPT !.searching = x] \in EditorStates
  BY DEF EditorStates
<1>7. \A x \in SUBSET Places : [ed EXCEPT !.results = x] \in EditorStates
  BY DEF EditorStates
<1>8. \A x \in [pin : MapPins, address : Texts, done : BOOLEAN] :
        [ed EXCEPT !.props = x] \in EditorStates
  BY DEF EditorStates
<1> QED
  BY <1>1, <1>2, <1>3, <1>4, <1>5, <1>6, <1>7, <1>8

LEMMA PinTypes == Places \subseteq MapPins /\ NoPlace \in MapPins /\ NoPlace \in MapLabels
BY DEF MapPins, MapLabels

LEMMA FilledTyped ==
  ASSUME NEW ed \in EditorStates, NEW p \in Places
  PROVE  /\ Filled(ed, p) \in EditorStates
         /\ Filled(ed, p).phase = ed.phase /\ Filled(ed, p).seq = ed.seq + 1
         /\ Filled(ed, p).label = NoPlace /\ Filled(ed, p).timer = p
         /\ Filled(ed, p).auto = ed.auto
<1>1. Filled(ed, p) = [[[ed EXCEPT !.seq = ed.seq + 1] EXCEPT !.label = NoPlace] EXCEPT !.timer = p]
  BY DEF Filled
<1>2. Filled(ed, p) \in EditorStates
  <2> DEFINE superseding == [ed EXCEPT !.seq = ed.seq + 1]
             unnamed == [superseding EXCEPT !.label = NoPlace]
  <2>1. superseding \in EditorStates
    BY ColumnWrite
  <2> HIDE DEF superseding
  <2>2. unnamed \in EditorStates
    BY <2>1, ColumnWrite, PinTypes
  <2> HIDE DEF unnamed
  <2>3. p \in MapPins
    BY PinTypes
  <2>4. [unnamed EXCEPT !.timer = p] \in EditorStates
    BY <2>2, <2>3, ColumnWrite
  <2> QED
    BY <1>1, <2>4 DEF unnamed, superseding
<1>3. Filled(ed, p) = [ed EXCEPT !.seq = ed.seq + 1, !.label = NoPlace, !.timer = p]
  BY DEF Filled
<1> QED
  BY <1>2, <1>3 DEF EditorStates

(* A row for what is added to the requests under way. *)
LEMMA RequestTypes ==
  /\ \A e \in Mounts, n \in Nat, b \in BOOLEAN : [ed |-> e, seq |-> n, exact |-> b] \in Asks
  /\ \A e \in Mounts, p \in Places, n \in Nat : [ed |-> e, place |-> p, seq |-> n] \in Looks
  /\ \A e \in Mounts, n \in 0 .. MaxMoves : [ed |-> e, nr |-> n] \in Finds
  /\ \A b, d \in BOOLEAN : [refresh |-> b, done |-> d] \in Reads
BY DEF Asks, Looks, Finds, Reads

LEMMA MovesTyped ==
  ASSUME moves \in 0 .. MaxMoves, Moves PROVE moves' \in 0 .. MaxMoves
BY DEF Moves

LEMMA RegisterTypes == ASSUME LocationTypeOK, AtRegister PROVE LocationTypeOK'
<1> USE DEF LocationTypeOK
<1>1. CASE TypeAtRegister
  BY <1>1 DEF TypeAtRegister, Moves, Texts, lookups
<1>2. CASE LocateAtRegister
  <2>1. form' \in Forms
    BY <1>2 DEF LocateAtRegister, Forms
  <2> QED
    BY <1>2, <2>1, MovesTyped DEF LocateAtRegister, owned, lookups
<1>3. CASE RegisterNoPosition
  BY <1>3 DEF RegisterNoPosition, Forms, owned, lookups
<1>4. CASE Register
  <2>1. saved' \in Rows
    BY <1>4 DEF Register, Rows, MapPins
  <2> QED
    BY <1>4, <2>1 DEF Register, Forms, MapPins, owned, lookups
<1>5. ASSUME NEW p \in Places, RegisterPosition(p) PROVE LocationTypeOK'
  BY <1>5 DEF RegisterPosition, Forms, MapPins, owned, lookups
<1>6. ASSUME NEW b \in BOOLEAN, RegisterLabel(b) PROVE LocationTypeOK'
  <2>1. form.look \in Places
    BY <1>6 DEF RegisterLabel, Forms, MapPins
  <2>2. Label[form.look] \in Texts
    BY <2>1 DEF Texts
  <2>3. address' \in Texts
    BY <1>6, <2>2 DEF RegisterLabel
  <2>4. form' \in Forms
    BY <1>6 DEF RegisterLabel, Forms, MapPins
  <2> QED
    BY <1>6, <2>3, <2>4 DEF RegisterLabel, lookups
<1>7. ASSUME NEW b \in BOOLEAN, LoadShop(b) PROVE LocationTypeOK'
  <2>1. form' \in Forms /\ pin' \in MapPins
    BY <1>7 DEF LoadShop, Forms, MapPins, RegisterPin, Rows
  <2>2. address' \in Texts
    BY <1>7 DEF LoadShop, Texts, Rows
  <2>3. card' \in Cards
    BY <1>7 DEF LoadShop, Cards
  <2> QED
    BY <1>7, <2>1, <2>2, <2>3 DEF LoadShop, lookups
<1> QED
  BY <1>1, <1>2, <1>3, <1>4, <1>5, <1>6, <1>7 DEF AtRegister

LEMMA CardTypes == ASSUME LocationTypeOK, OnCard PROVE LocationTypeOK'
<1> USE DEF LocationTypeOK
<1>1. CASE SaveLocation
  <2>1. Body \in Rows
    BY DEF Body, Rows, Texts
  <2> QED
    <3>1. card' \in Cards
      BY <1>1, <2>1 DEF SaveLocation, Cards, SaveSteps
    <3> QED
      BY <1>1, <3>1, MovesTyped DEF SaveLocation, owned, lookups
<1>2. ASSUME NEW body \in card.posts, StoreLocation(body) PROVE LocationTypeOK'
  <2>1. body \in Rows
    BY DEF Cards
  <2>2. card' \in Cards
    BY <1>2 DEF StoreLocation, Cards, SaveSteps
  <2> QED
    BY <1>2, <2>1, <2>2 DEF StoreLocation, owned, lookups
<1>3. CASE SaveAnswered
  BY <1>3 DEF SaveAnswered, Cards, SaveSteps, owned, lookups
<1>4. ASSUME NEW arrives \in BOOLEAN, SaveFails(arrives) PROVE LocationTypeOK'
  <2>1. card' \in Cards
    BY <1>4 DEF SaveFails, Cards, SaveSteps
  <2> QED
    BY <1>4, <2>1 DEF SaveFails, owned, lookups
<1>5. CASE Refresh
  <2>1. Status(TRUE) \in Reads
    BY RequestTypes DEF Status
  <2> QED
    BY <1>5, <2>1 DEF Refresh, Cards, SaveSteps, owned, lookups
<1>6. CASE PollStatus
  <2>1. Status(FALSE) \in Reads
    BY RequestTypes DEF Status
  <2> QED
    BY <1>6, <2>1 DEF PollStatus, owned, lookups
<1>7. CASE ReviewLocation
  <2>1. card' \in Cards
    BY <1>7 DEF ReviewLocation, Cards
  <2> QED
    BY <1>7, <2>1, MovesTyped DEF ReviewLocation, owned, lookups
<1>8. ASSUME NEW r \in reads, ReadArrives(r) PROVE LocationTypeOK'
  <2>1. r \in Reads /\ reads' \subseteq Reads
    BY <1>8 DEF ReadArrives
  <2>2. card' \in Cards
    BY <1>8, <2>1 DEF ReadArrives, Cards, SaveSteps, Reads
  <2> QED
    BY <1>8, <2>1, <2>2 DEF ReadArrives, owned, lookups
<1>9. ASSUME NEW r \in reads, ReadFails(r) PROVE LocationTypeOK'
  <2>1. reads' \subseteq Reads
    BY <1>9 DEF ReadFails
  <2>2. card' \in Cards
    BY <1>9 DEF ReadFails, Cards, SaveSteps
  <2> QED
    BY <1>9, <2>1, <2>2 DEF ReadFails, owned, lookups
<1> QED
  BY <1>1, <1>2, <1>3, <1>4, <1>5, <1>6, <1>7, <1>8, <1>9 DEF OnCard

-----------------------------------------------------------------------------
(* Positions asked for and searches leave pin, address and lookups alone.      *)

Aside ==
  /\ editor' \in [Mounts -> EditorStates]
  /\ \A e \in Mounts : SameLookups(e, editor'[e])
  /\ form' = form /\ pin' = pin /\ address' = address /\ looks' = looks /\ strayed' = strayed

LEMMA WroteAside ==
  ASSUME LocationTypeOK, NEW e \in Mounts, NEW ed, Wrote(e, ed), SameLookups(e, ed),
         form' = form, pin' = pin, address' = address, looks' = looks, strayed' = strayed
  PROVE  Aside
<1>1. \A o \in Mounts : editor'[o] = IF o = e THEN ed ELSE editor[o]
  BY EditorWrote
<1>2. \A o \in Mounts : SameLookups(o, editor'[o])
  BY <1>1 DEF SameLookups
<1> QED
  BY <1>2, EditorWrote DEF Aside

(* The other columns of an editor. *)
LEMMA AsideWrites ==
  ASSUME LocationTypeOK, NEW e \in Mounts, NEW b \in BOOLEAN, NEW s \in SUBSET Places
  PROVE  LET ed == editor[e]
             given == [ed EXCEPT !.busy = b, !.detect = @ + 1]
             said == [ed EXCEPT !.busy = b]
             searching == [ed EXCEPT !.searching = b]
             found == [ed EXCEPT !.searching = b, !.results = s]
             starting == [ed EXCEPT !.busy = FALSE, !.searched = TRUE, !.searching = TRUE,
                                    !.results = {}]
         IN /\ given \in EditorStates /\ SameLookups(e, given)
            /\ said \in EditorStates /\ SameLookups(e, said)
            /\ searching \in EditorStates /\ SameLookups(e, searching)
            /\ found \in EditorStates /\ SameLookups(e, found)
            /\ starting \in EditorStates /\ SameLookups(e, starting)
<1> DEFINE ed == editor[e]
<1>0. ed \in EditorStates
  BY DEF LocationTypeOK
<1>1. LET given == [ed EXCEPT !.busy = b, !.detect = @ + 1]
      IN given \in EditorStates /\ SameLookups(e, given)
  <2>1. [ed EXCEPT !.busy = b, !.detect = @ + 1] = [[ed EXCEPT !.busy = b] EXCEPT !.detect = @ + 1]
    OBVIOUS
  <2> DEFINE told == [ed EXCEPT !.busy = b]
  <2>2. told \in EditorStates
    BY <1>0, ColumnWrite
  <2> HIDE DEF told
  <2>3. [told EXCEPT !.detect = told.detect + 1] \in EditorStates
    BY <2>2, ColumnWrite
  <2>4. [ed EXCEPT !.busy = b, !.detect = @ + 1] \in EditorStates
    BY <2>1, <2>3 DEF told
  <2> QED
    BY <1>0, <2>4 DEF SameLookups, EditorStates
<1>2. LET said == [ed EXCEPT !.busy = b] IN said \in EditorStates /\ SameLookups(e, said)
  <2>1. [ed EXCEPT !.busy = b] \in EditorStates
    BY <1>0, ColumnWrite
  <2> QED
    BY <1>0, <2>1 DEF SameLookups, EditorStates
<1>3. LET searching == [ed EXCEPT !.searching = b]
      IN searching \in EditorStates /\ SameLookups(e, searching)
  <2>1. [ed EXCEPT !.searching = b] \in EditorStates
    BY <1>0, ColumnWrite
  <2> QED
    BY <1>0, <2>1 DEF SameLookups, EditorStates
<1>4. LET found == [ed EXCEPT !.searching = b, !.results = s]
      IN found \in EditorStates /\ SameLookups(e, found)
  <2>1. [ed EXCEPT !.searching = b, !.results = s] = [[ed EXCEPT !.searching = b] EXCEPT !.results = s]
    OBVIOUS
  <2> DEFINE looking == [ed EXCEPT !.searching = b]
  <2>2. looking \in EditorStates
    BY <1>0, ColumnWrite
  <2> HIDE DEF looking
  <2>3. [looking EXCEPT !.results = s] \in EditorStates
    BY <2>2, ColumnWrite
  <2>4. [ed EXCEPT !.searching = b, !.results = s] \in EditorStates
    BY <2>1, <2>3 DEF looking
  <2> QED
    BY <1>0, <2>4 DEF SameLookups, EditorStates
<1>5. LET starting == [ed EXCEPT !.busy = FALSE, !.searched = TRUE, !.searching = TRUE,
                                 !.results = {}]
      IN starting \in EditorStates /\ SameLookups(e, starting)
  <2> DEFINE failed == [ed EXCEPT !.busy = FALSE]
             once == [failed EXCEPT !.searched = TRUE]
             looking == [once EXCEPT !.searching = TRUE]
             starting == [looking EXCEPT !.results = {}]
  <2>1. [ed EXCEPT !.busy = FALSE, !.searched = TRUE, !.searching = TRUE, !.results = {}] = starting
    OBVIOUS
  <2>2. failed \in EditorStates
    BY <1>0, ColumnWrite
  <2> HIDE DEF failed
  <2>3. once \in EditorStates
    BY <2>2, ColumnWrite
  <2> HIDE DEF once
  <2>4. looking \in EditorStates
    BY <2>3, ColumnWrite
  <2> HIDE DEF looking
  <2>5. starting \in EditorStates
    BY <2>4, ColumnWrite
  <2>6. [ed EXCEPT !.busy = FALSE, !.searched = TRUE, !.searching = TRUE, !.results = {}]
          \in EditorStates
    BY <2>1, <2>5
  <2> QED
    BY <1>0, <2>6 DEF SameLookups, EditorStates
<1> QED
  BY <1>1, <1>2, <1>3, <1>4, <1>5

(* Searches and positions that move no pin.                                    *)
AsideAnswers ==
  \/ \E a \in asks : PositionDropped(a) \/ PositionCoarser(a) \/ PositionFails(a)
  \/ \E f \in finds : SearchFails(f) \/ \E found \in SUBSET Places : SearchAnswers(f, found)

LEMMA AsideInEditor ==
  ASSUME LocationTypeOK, NEW e \in Mounts, Detect(e) \/ CancelDetect(e) \/ Search(e)
  PROVE  /\ Aside /\ LocationTypeOK'
         /\ \A a \in asks' : a \in asks \/ a.ed = e
         /\ \A f \in finds' : f \in finds \/ f.ed = e
<1> DEFINE ed == editor[e]
<1>0. ed \in EditorStates /\ editor \in [Mounts -> EditorStates] /\ ed.detect \in Nat
  BY DEF LocationTypeOK, EditorStates
<1>1. CASE Detect(e)
  <2> DEFINE new == [ed EXCEPT !.busy = TRUE, !.detect = @ + 1]
             ask == [ed |-> e, seq |-> ed.detect + 1, exact |-> TRUE]
  <2>1. new \in EditorStates /\ SameLookups(e, new)
    BY AsideWrites, Zenon
  <2>2. editor' = [editor EXCEPT ![e] = new]
    BY <1>0, <1>1 DEF Detect
  <2>3. ask \in Asks /\ asks' = asks \cup {ask} /\ ask.ed = e
    <3>1. ed.detect + 1 \in Nat
      BY <1>0
    <3>2. ask \in Asks
      BY <3>1, RequestTypes
    <3> QED
      BY <1>1, <3>2 DEF Detect
  <2> HIDE DEF new, ask
  <2>4. Wrote(e, new)
    BY <2>1, <2>2 DEF Wrote
  <2>5. Aside
    BY <1>1, <2>1, <2>4, WroteAside DEF Detect, lookups, owned
  <2> QED
    BY <1>1, <2>3, <2>5, MovesTyped DEF Detect, Aside, LocationTypeOK, lookups, owned
<1>2. CASE CancelDetect(e)
  <2> DEFINE new == [ed EXCEPT !.busy = FALSE, !.detect = @ + 1]
  <2>1. new \in EditorStates /\ SameLookups(e, new)
    BY AsideWrites
  <2>2. editor' = [editor EXCEPT ![e] = new]
    BY <1>0, <1>2 DEF CancelDetect
  <2> HIDE DEF new
  <2>3. Wrote(e, new)
    BY <2>1, <2>2 DEF Wrote
  <2>4. Aside
    BY <1>2, <2>1, <2>3, WroteAside DEF CancelDetect, lookups, owned
  <2> QED
    BY <1>2, <2>4 DEF CancelDetect, Aside, LocationTypeOK, lookups, owned
<1>3. CASE Search(e)
  <2> DEFINE new == [ed EXCEPT !.searching = TRUE, !.results = {}]
             find == [ed |-> e, nr |-> moves']
  <2>1. new \in EditorStates /\ SameLookups(e, new)
    BY AsideWrites
  <2>2. editor' = [editor EXCEPT ![e] = new]
    BY <1>0, <1>3 DEF Search
  <2>3. moves' \in 0 .. MaxMoves
    BY <1>3, MovesTyped DEF Search, LocationTypeOK
  <2>4. find \in Finds /\ finds' = finds \cup {find} /\ find.ed = e
    BY <1>3, <2>3, RequestTypes DEF Search
  <2> HIDE DEF new, find
  <2>5. Wrote(e, new)
    BY <2>1, <2>2 DEF Wrote
  <2>6. Aside
    BY <1>3, <2>1, <2>5, WroteAside DEF Search, lookups, owned
  <2> QED
    BY <1>3, <2>3, <2>4, <2>6 DEF Search, Aside, LocationTypeOK, lookups, owned
<1> QED
  BY <1>1, <1>2, <1>3

LEMMA AsideOfAnswers ==
  ASSUME LocationTypeOK, AsideAnswers
  PROVE  /\ Aside /\ LocationTypeOK'
         /\ \A a \in asks' : \E o \in asks : a.ed = o.ed
         /\ \A f \in finds' : f \in finds \/ \E o \in asks : f.ed = o.ed
<1>0. /\ editor \in [Mounts -> EditorStates]
      /\ \A a \in asks : a \in Asks /\ a.ed \in Mounts
      /\ \A f \in finds : f \in Finds /\ f.ed \in Mounts
  BY DEF LocationTypeOK, Asks, Finds
<1>1. ASSUME NEW a \in asks, PositionDropped(a)
      PROVE  Aside /\ LocationTypeOK' /\ asks' \subseteq asks /\ finds' = finds
  BY <1>0, <1>1 DEF PositionDropped, Aside, SameLookups, LocationTypeOK, owned
<1>2. ASSUME NEW a \in asks, PositionCoarser(a)
      PROVE  /\ Aside /\ LocationTypeOK' /\ finds' = finds
             /\ \A x \in asks' : x \in asks \/ x.ed = a.ed
  <2> DEFINE coarse == [a EXCEPT !.exact = FALSE]
  <2>1. coarse \in Asks /\ coarse.ed = a.ed
    BY <1>0 DEF Asks
  <2>2. asks' = (asks \ {a}) \cup {coarse}
    BY <1>2 DEF PositionCoarser
  <2> HIDE DEF coarse
  <2> QED
    BY <1>0, <1>2, <2>1, <2>2 DEF PositionCoarser, Aside, SameLookups, LocationTypeOK, owned
<1>3. ASSUME NEW a \in asks, PositionFails(a)
      PROVE  /\ Aside /\ LocationTypeOK' /\ asks' \subseteq asks
             /\ \A f \in finds' : f \in finds \/ f.ed = a.ed
  <2> DEFINE e == a.ed
             ed == editor[e]
             starting == [ed EXCEPT !.busy = FALSE, !.searched = TRUE, !.searching = TRUE,
                                    !.results = {}]
             quiet == [ed EXCEPT !.busy = FALSE]
             find == [ed |-> e, nr |-> 0]
  <2>1. e \in Mounts
    BY <1>0
  <2>2. /\ starting \in EditorStates /\ SameLookups(e, starting)
        /\ quiet \in EditorStates /\ SameLookups(e, quiet)
    BY <2>1, AsideWrites, Zenon
  <2>3. find \in Finds /\ find.ed = e
    <3>1. 0 \in 0 .. MaxMoves
      OBVIOUS
    <3> QED
      BY <2>1, <3>1, RequestTypes
  <2>4. CASE AutoSearches(e)
    <3>1. editor' = [editor EXCEPT ![e] = starting] /\ finds' = finds \cup {find}
      BY <1>0, <1>3, <2>1, <2>4 DEF PositionFails
    <3> HIDE DEF starting, find, e
    <3>2. Wrote(e, starting)
      BY <2>2, <3>1 DEF Wrote
    <3>3. Aside
      BY <1>3, <2>1, <2>2, <3>2, WroteAside DEF PositionFails, owned
    <3>4. asks' = asks \ {a}
      BY <1>3 DEF PositionFails
    <3> QED
      BY <1>3, <2>3, <3>1, <3>3, <3>4 DEF PositionFails, Aside, LocationTypeOK, owned, e
  <2>5. CASE ~AutoSearches(e)
    <3>1. editor' = [editor EXCEPT ![e] = quiet] /\ finds' = finds
      BY <1>0, <1>3, <2>1, <2>5 DEF PositionFails
    <3> HIDE DEF quiet, e
    <3>2. Wrote(e, quiet)
      BY <2>2, <3>1 DEF Wrote
    <3>3. Aside
      BY <1>3, <2>1, <2>2, <3>2, WroteAside DEF PositionFails, owned
    <3>4. asks' = asks \ {a}
      BY <1>3 DEF PositionFails
    <3> QED
      BY <1>3, <3>1, <3>3, <3>4 DEF PositionFails, Aside, LocationTypeOK, owned
  <2> QED
    BY <2>4, <2>5
<1>4. ASSUME NEW f \in finds, SearchFails(f)
      PROVE  Aside /\ LocationTypeOK' /\ asks' = asks /\ finds' \subseteq finds
  <2> DEFINE e == f.ed
             new == [editor[e] EXCEPT !.searching = FALSE]
  <2>1. e \in Mounts
    BY <1>0
  <2>2. new \in EditorStates /\ SameLookups(e, new)
    BY <2>1, AsideWrites, Zenon
  <2>3. editor' = [editor EXCEPT ![e] = new] /\ finds' = finds \ {f}
    BY <1>0, <1>4, <2>1 DEF SearchFails
  <2> HIDE DEF new, e
  <2>4. Wrote(e, new)
    BY <2>2, <2>3 DEF Wrote
  <2>5. Aside
    BY <1>4, <2>1, <2>2, <2>4, WroteAside DEF SearchFails, owned
  <2> QED
    BY <1>4, <2>3, <2>5 DEF SearchFails, Aside, LocationTypeOK, owned
<1>5. ASSUME NEW f \in finds, NEW found \in SUBSET Places, SearchAnswers(f, found)
      PROVE  Aside /\ LocationTypeOK' /\ asks' = asks /\ finds' \subseteq finds
  <2> DEFINE e == f.ed
             new == [editor[e] EXCEPT !.searching = FALSE, !.results = found]
  <2>1. e \in Mounts
    BY <1>0
  <2>2. new \in EditorStates /\ SameLookups(e, new)
    BY <2>1, AsideWrites, Zenon
  <2>3. editor' = [editor EXCEPT ![e] = new] /\ finds' = finds \ {f}
    BY <1>0, <1>5, <2>1 DEF SearchAnswers
  <2> HIDE DEF new, e
  <2>4. Wrote(e, new)
    BY <2>2, <2>3 DEF Wrote
  <2>5. Aside
    BY <1>5, <2>1, <2>2, <2>4, WroteAside DEF SearchAnswers, owned
  <2> QED
    BY <1>5, <2>3, <2>5 DEF SearchAnswers, Aside, LocationTypeOK, owned
<1> QED
  BY <1>1, <1>2, <1>3, <1>4, <1>5 DEF AsideAnswers

-----------------------------------------------------------------------------
(* The invariant, action by action. *)

Rest == FormStages /\ OneEditorShown /\ LooksNumbered /\ AsksOfBorn
        /\ LookupIsOfPin /\ LabelIsOfPin /\ AddressFollowsPin

LEMMA AsideKeeps ==
  ASSUME LocationInvariant, Aside, LocationTypeOK',
         \A a \in asks' : editor[a.ed].phase # "unborn",
         \A f \in finds' : editor[f.ed].phase # "unborn"
  PROVE  Rest'
<1>0. /\ \A e \in Mounts : /\ editor'[e].phase = editor[e].phase /\ editor'[e].seq = editor[e].seq
                           /\ editor'[e].timer = editor[e].timer
                           /\ editor'[e].label = editor[e].label
                           /\ editor'[e].auto = editor[e].auto
      /\ \A l \in looks : l.ed \in Mounts
      /\ \A a \in asks' : a.ed \in Mounts
      /\ \A f \in finds' : f.ed \in Mounts
  BY DEF Aside, SameLookups, LocationInvariant, LocationTypeOK, Looks, Asks, Finds
<1>1. FormStages' /\ OneEditorShown' /\ LooksNumbered'
  BY <1>0 DEF Aside, LocationInvariant, FormStages, OneEditorShown, LooksNumbered, Shown
<1>2. AsksOfBorn'
  BY <1>0 DEF LocationInvariant, AsksOfBorn
<1>3. LookupIsOfPin' /\ LabelIsOfPin'
  BY <1>0 DEF Aside, LocationInvariant, LookupIsOfPin, LabelIsOfPin, Shown
<1>4. AddressFollowsPin'
  BY <1>0 DEF Aside, LocationInvariant, AddressFollowsPin, LookupPending, Shown
<1> QED
  BY <1>1, <1>2, <1>3, <1>4 DEF Rest

(* A pin the editor puts, at once or with a position that comes, is looked up   *)
(* under a number no lookup has.                                               *)
LEMMA PutPinKeeps ==
  ASSUME LocationInvariant, NEW e \in Mounts, NEW p \in Places, NEW ed \in EditorStates,
         SameLookups(e, ed), editor[e].phase # "unborn", PutPin(ed, e, p),
         address' = address, looks' = looks, form' = form, strayed' = (strayed \/ ~Shown(e)),
         asks' \subseteq asks, finds' = finds
  PROVE  Rest' /\ pin' \in MapPins /\ editor' \in [Mounts -> EditorStates]
<1> DEFINE new == Filled(ed, p)
<1>0. /\ new \in EditorStates /\ new.phase = editor[e].phase /\ new.seq = editor[e].seq + 1
      /\ new.label = NoPlace /\ new.timer = p /\ new.auto = editor[e].auto
  BY FilledTyped DEF SameLookups
<1>1. editor' = [editor EXCEPT ![e] = new] /\ pin' = p
  BY DEF PutPin
<1>2. /\ LocationTypeOK /\ editor[e].seq \in Nat
      /\ \A l \in looks : l.ed \in Mounts /\ l.seq \in Nat
      /\ \A a \in asks : a.ed \in Mounts
      /\ \A f \in finds : f.ed \in Mounts
  BY DEF LocationInvariant, LocationTypeOK, Looks, Asks, Finds, EditorStates
<1> HIDE DEF new
<1>3. Wrote(e, new)
  BY <1>0, <1>1 DEF Wrote
<1>4. /\ editor' \in [Mounts -> EditorStates] /\ editor'[e] = new
      /\ \A o \in Mounts : o # e => editor'[o] = editor[o]
  BY <1>2, <1>3, EditorWrote
<1>5. FormStages' /\ OneEditorShown' /\ AsksOfBorn'
  BY <1>0, <1>2, <1>4 DEF LocationInvariant, FormStages, OneEditorShown, AsksOfBorn, Shown
<1>6. LooksNumbered'
  BY <1>0, <1>2, <1>4 DEF LocationInvariant, LooksNumbered
<1>7. ASSUME NEW o \in Mounts, Shown(o)', ~strayed' PROVE o = e
  BY <1>0, <1>4, <1>7 DEF LocationInvariant, OneEditorShown, Shown
<1>8. LookupIsOfPin'
  <2>1. \A l \in looks : ~(l.ed = e /\ l.seq = editor[e].seq + 1)
    BY <1>2 DEF LocationInvariant, LooksNumbered
  <2> QED
    BY <1>0, <1>1, <1>4, <1>7, <2>1 DEF LookupIsOfPin
<1>9. LabelIsOfPin'
  BY <1>0, <1>4, <1>7 DEF LabelIsOfPin
<1>10. AddressFollowsPin'
  <2>1. p # NoPlace
    OBVIOUS
  <2>2. LookupPending(e)'
    BY <1>0, <1>4, <2>1 DEF LookupPending
  <2> QED
    BY <1>7, <2>2 DEF AddressFollowsPin
<1>11. pin' \in MapPins
  BY <1>1, PinTypes
<1> QED
  BY <1>4, <1>5, <1>6, <1>8, <1>9, <1>10, <1>11 DEF Rest

(* What the other lemmas of this section need of the types. *)
LEMMA EditorFacts ==
  ASSUME LocationTypeOK
  PROVE  /\ editor \in [Mounts -> EditorStates]
         /\ \A e \in Mounts : /\ editor[e] \in EditorStates /\ editor[e].seq \in Nat
                              /\ editor[e].timer \in MapPins
                              /\ editor[e].auto \in {"pinned"} \cup MapLabels
         /\ \A l \in looks : l \in Looks /\ l.ed \in Mounts /\ l.place \in Places /\ l.seq \in Nat
         /\ \A a \in asks : a \in Asks /\ a.ed \in Mounts
         /\ \A f \in finds : f.ed \in Mounts
BY DEF LocationTypeOK, Looks, Asks, Finds, EditorStates

LEMMA OpenKeeps ==
  ASSUME LocationInvariant, NEW e \in Mounts, Open(e)
  PROVE  LocationTypeOK' /\ Rest'
<1> DEFINE opening == [Unborn EXCEPT !.phase = "shown"]
           detecting == [opening EXCEPT !.busy = TRUE, !.detect = 1]
           ask == [ed |-> e, seq |-> 1, exact |-> TRUE]
<1>0. LocationTypeOK
  BY DEF LocationInvariant
<1>1. opening \in EditorStates /\ detecting \in EditorStates
  BY DEF Unborn, EditorStates, MapPins, MapLabels, Texts
<1>2. /\ opening.phase = "shown" /\ opening.seq = 0 /\ opening.timer = NoPlace
      /\ opening.label = NoPlace /\ opening.auto = NoPlace
      /\ detecting.phase = "shown" /\ detecting.seq = 0 /\ detecting.timer = NoPlace
      /\ detecting.label = NoPlace /\ detecting.auto = NoPlace
  BY DEF Unborn
<1>3. ask \in Asks /\ ask.ed = e
  BY RequestTypes
<1> HIDE DEF opening, detecting, ask
<1>4. PICK new : /\ new \in EditorStates /\ editor' = [editor EXCEPT ![e] = new]
                 /\ new.phase = "shown" /\ new.label = NoPlace /\ new.auto = NoPlace
                 /\ new.seq \in Nat /\ new.timer \in {NoPlace, pin}
                 /\ asks' \subseteq asks \cup {ask}
  <2>1. CASE card.done
    <3>1. editor' = [editor EXCEPT ![e] = opening] /\ asks' = asks
      BY <2>1 DEF Open, opening
    <3>2. /\ opening \in EditorStates /\ opening.phase = "shown" /\ opening.seq \in Nat
          /\ opening.label = NoPlace /\ opening.timer \in {NoPlace, pin} /\ opening.auto = NoPlace
          /\ asks' \subseteq asks \cup {ask}
      BY <1>1, <1>2, <3>1
    <3> QED
      BY <3>1, <3>2, Zenon
  <2>2. CASE ~card.done /\ pin = NoPlace
    <3>1. editor' = [editor EXCEPT ![e] = detecting] /\ asks' = asks \cup {ask}
      BY <2>2 DEF Open, opening, detecting, ask
    <3>2. /\ detecting \in EditorStates /\ detecting.phase = "shown" /\ detecting.seq \in Nat
          /\ detecting.label = NoPlace /\ detecting.timer \in {NoPlace, pin} /\ detecting.auto = NoPlace
          /\ asks' \subseteq asks \cup {ask}
      BY <1>1, <1>2, <3>1
    <3> QED
      BY <3>1, <3>2, Zenon
  <2>3. CASE ~card.done /\ pin # NoPlace
    <3>1. pin \in Places
      BY <1>0, <2>3 DEF LocationTypeOK, MapPins
    <3>2. editor' = [editor EXCEPT ![e] = Filled(opening, pin)] /\ asks' = asks
      BY <2>3 DEF Open, opening
    <3>3. /\ Filled(opening, pin) \in EditorStates
          /\ Filled(opening, pin).phase = "shown" /\ Filled(opening, pin).seq = 0 + 1
          /\ Filled(opening, pin).label = NoPlace /\ Filled(opening, pin).timer = pin
          /\ Filled(opening, pin).auto = NoPlace
      BY <1>1, <1>2, <3>1, FilledTyped
    <3> DEFINE filled == Filled(opening, pin)
    <3>4. /\ filled \in EditorStates /\ filled.phase = "shown" /\ filled.seq \in Nat
          /\ filled.label = NoPlace /\ filled.timer \in {NoPlace, pin} /\ filled.auto = NoPlace
      BY <3>3
    <3> HIDE DEF filled
    <3> QED
      BY <3>2, <3>4 DEF filled
  <2> QED
    BY <2>1, <2>2, <2>3
<1>5. Wrote(e, new)
  BY <1>4 DEF Wrote
<1>6. /\ editor' \in [Mounts -> EditorStates] /\ editor'[e] = new
      /\ \A o \in Mounts : o # e => editor'[o] = editor[o]
  BY <1>0, <1>5, EditorWrote
<1>7. /\ form.stage = "setup" /\ editor[e].phase = "unborn"
      /\ \A o \in Mounts : ~Shown(o)
      /\ strayed' = FALSE /\ form' = form /\ pin' = pin /\ address' = address
      /\ saved' = saved /\ card' = card /\ looks' = looks /\ finds' = finds
      /\ reads' = reads /\ moves' = moves
  BY DEF Open, Visible, owned
<1>8. LocationTypeOK'
  BY <1>0, <1>3, <1>4, <1>6, <1>7 DEF LocationTypeOK
<1>9. FormStages' /\ OneEditorShown'
  BY <1>0, <1>4, <1>6, <1>7 DEF LocationInvariant, FormStages, OneEditorShown, Shown
<1>10. LooksNumbered' /\ AsksOfBorn'
  BY <1>0, <1>3, <1>4, <1>6, <1>7, EditorFacts DEF LocationInvariant, LooksNumbered, AsksOfBorn
<1>11. \A l \in looks : l.ed # e
  BY <1>7 DEF LocationInvariant, LooksNumbered
<1>12. \A o \in Mounts : Shown(o)' => o = e
  BY <1>6, <1>7 DEF Shown
<1>13. LookupIsOfPin' /\ LabelIsOfPin'
  BY <1>4, <1>6, <1>7, <1>11, <1>12 DEF LookupIsOfPin, LabelIsOfPin
<1>14. AddressFollowsPin'
  <2>1. address # NoPlace
    BY <1>0 DEF LocationTypeOK, Texts
  <2> QED
    BY <1>4, <1>6, <1>7, <1>12, <2>1 DEF AddressFollowsPin
<1> QED
  BY <1>8, <1>9, <1>10, <1>13, <1>14 DEF Rest

LEMMA CloseKeeps ==
  ASSUME LocationInvariant, NEW e \in Mounts, Close(e)
  PROVE  LocationTypeOK' /\ Rest'
<1> DEFINE ed == editor[e]
           hidden == [ed EXCEPT !.phase = "hidden"]
           told == [hidden EXCEPT !.props = Props(e)]
           over == [told EXCEPT !.seq = told.seq + 1]
           new == [over EXCEPT !.timer = NoPlace]
<1>0. LocationTypeOK /\ ed \in EditorStates /\ ed.seq \in Nat
  BY EditorFacts DEF LocationInvariant
<1>1. Props(e) \in [pin : MapPins, address : Texts, done : BOOLEAN]
  BY <1>0 DEF Props, Close, LocationTypeOK, Cards
<1>2. new \in EditorStates
  <2>1. hidden \in EditorStates
    BY <1>0, ColumnWrite
  <2> HIDE DEF hidden
  <2>2. told \in EditorStates
    BY <1>1, <2>1, ColumnWrite
  <2> HIDE DEF told
  <2>3. over \in EditorStates
    BY <2>2, ColumnWrite
  <2> HIDE DEF over
  <2> QED
    BY <2>3, ColumnWrite, PinTypes
<1>3. new = [ed EXCEPT !.phase = "hidden", !.props = Props(e), !.seq = @ + 1, !.timer = NoPlace]
  BY <1>0 DEF EditorStates
<1>4. editor' = [editor EXCEPT ![e] = new]
  BY <1>0, <1>3, EditorFacts DEF Close
<1>5. new.phase = "hidden" /\ new.seq = ed.seq + 1 /\ new.timer = NoPlace
  BY <1>0, <1>3 DEF EditorStates
<1> HIDE DEF new
<1>6. /\ editor' \in [Mounts -> EditorStates] /\ editor'[e] = new
      /\ \A o \in Mounts : o # e => editor'[o] = editor[o]
  BY <1>0, <1>2, <1>4, EditorWrote DEF Wrote
<1>7. /\ Shown(e) /\ form' = form /\ pin' = pin /\ address' = address /\ saved' = saved
      /\ card' = card /\ asks' = asks /\ looks' = looks /\ finds' = finds /\ reads' = reads
      /\ strayed' = strayed /\ moves' = moves
  BY DEF Close, owned, lookups
<1>8. LocationTypeOK'
  BY <1>0, <1>6, <1>7 DEF LocationTypeOK
<1>9. FormStages' /\ OneEditorShown' /\ AsksOfBorn'
  BY <1>0, <1>5, <1>6, <1>7, EditorFacts
     DEF LocationInvariant, FormStages, OneEditorShown, AsksOfBorn, Shown
<1>10. LooksNumbered'
  BY <1>0, <1>5, <1>6, <1>7, EditorFacts DEF LocationInvariant, LooksNumbered
<1>11. \A o \in Mounts : ~Shown(o)'
  BY <1>5, <1>6, <1>7 DEF LocationInvariant, OneEditorShown, Shown
<1>12. LookupIsOfPin' /\ LabelIsOfPin' /\ AddressFollowsPin'
  BY <1>11 DEF LookupIsOfPin, LabelIsOfPin, AddressFollowsPin
<1> QED
  BY <1>8, <1>9, <1>10, <1>12 DEF Rest

LEMMA LookUpPinKeeps ==
  ASSUME LocationInvariant, NEW e \in Mounts, LookUpPin(e)
  PROVE  LocationTypeOK' /\ Rest'
<1> DEFINE ed == editor[e]
           new == [ed EXCEPT !.timer = NoPlace]
           look == [ed |-> e, place |-> ed.timer, seq |-> ed.seq]
<1>0. LocationTypeOK /\ ed \in EditorStates
  BY EditorFacts DEF LocationInvariant
<1>1. new \in EditorStates /\ editor' = [editor EXCEPT ![e] = new]
  BY <1>0, ColumnWrite, PinTypes, EditorFacts DEF LookUpPin
<1>2. /\ new.phase = ed.phase /\ new.seq = ed.seq /\ new.timer = NoPlace
      /\ new.label = ed.label /\ new.auto = ed.auto
  BY <1>0 DEF EditorStates
<1>3. /\ look \in Looks /\ look.ed = e /\ look.place = ed.timer /\ look.seq = ed.seq
      /\ looks' = looks \cup {look} /\ ed.timer # NoPlace
  <2>1. ed.timer \in Places
    BY <1>0 DEF EditorStates, LookUpPin, MapPins
  <2>2. ed.seq \in Nat
    BY <1>0, EditorFacts
  <2>3. look \in Looks
    BY <2>1, <2>2, RequestTypes
  <2> QED
    BY <2>3 DEF LookUpPin
<1> HIDE DEF new, look
<1>4. /\ editor' \in [Mounts -> EditorStates] /\ editor'[e] = new
      /\ \A o \in Mounts : o # e => editor'[o] = editor[o]
  BY <1>0, <1>1, EditorWrote DEF Wrote
<1>5. /\ form' = form /\ pin' = pin /\ address' = address /\ saved' = saved /\ card' = card
      /\ asks' = asks /\ finds' = finds /\ reads' = reads /\ strayed' = strayed /\ moves' = moves
  BY DEF LookUpPin, owned
<1>6. LocationTypeOK'
  BY <1>0, <1>3, <1>4, <1>5 DEF LocationTypeOK
<1>7. ed.phase # "unborn"
  BY <1>3 DEF LocationInvariant, AsksOfBorn
<1>8. FormStages' /\ OneEditorShown' /\ AsksOfBorn'
  BY <1>0, <1>2, <1>4, <1>5, <1>7, EditorFacts
     DEF LocationInvariant, FormStages, OneEditorShown, AsksOfBorn, Shown
<1>9. LooksNumbered'
  BY <1>0, <1>2, <1>3, <1>4, <1>7, EditorFacts DEF LocationInvariant, LooksNumbered
<1>10. LookupIsOfPin'
  BY <1>0, <1>2, <1>3, <1>4, <1>5, EditorFacts DEF LocationInvariant, LookupIsOfPin, Shown
<1>11. LabelIsOfPin'
  BY <1>2, <1>4, <1>5 DEF LocationInvariant, LabelIsOfPin, Shown
<1>12. AddressFollowsPin'
  <2>1. ASSUME NEW o \in Mounts, LookupPending(o) PROVE LookupPending(o)'
    BY <1>2, <1>3, <1>4, <2>1 DEF LookupPending
  <2> QED
    BY <1>2, <1>4, <1>5, <2>1 DEF LocationInvariant, AddressFollowsPin, Shown
<1> QED
  BY <1>6, <1>8, <1>9, <1>10, <1>11, <1>12 DEF Rest

(* A superseded answer changes nothing that counts. *)
LEMMA LookupDroppedKeeps ==
  ASSUME LocationInvariant, NEW l \in looks, LookupDropped(l)
  PROVE  LocationTypeOK' /\ Rest'
<1>1. /\ looks' = looks \ {l} /\ l.seq # editor[l.ed].seq
      /\ form' = form /\ pin' = pin /\ address' = address /\ saved' = saved /\ card' = card
      /\ editor' = editor /\ asks' = asks /\ finds' = finds /\ reads' = reads
      /\ strayed' = strayed /\ moves' = moves
  BY DEF LookupDropped, owned
<1>2. LocationTypeOK'
  BY <1>1 DEF LocationInvariant, LocationTypeOK
<1>3. FormStages' /\ OneEditorShown' /\ AsksOfBorn' /\ LooksNumbered'
  BY <1>1 DEF LocationInvariant, FormStages, OneEditorShown, AsksOfBorn, LooksNumbered, Shown
<1>4. LookupIsOfPin' /\ LabelIsOfPin'
  BY <1>1 DEF LocationInvariant, LookupIsOfPin, LabelIsOfPin, Shown
<1>5. AddressFollowsPin'
  <2>1. \A e \in Mounts : LookupPending(e)' <=> LookupPending(e)
    BY <1>1 DEF LookupPending
  <2> QED
    BY <1>1, <2>1 DEF LocationInvariant, AddressFollowsPin, Shown
<1> QED
  BY <1>2, <1>3, <1>4, <1>5 DEF Rest

LEMMA LookupAnswersKeeps ==
  ASSUME LocationInvariant, NEW l \in looks, NEW found \in BOOLEAN, LookupAnswers(l, found)
  PROVE  LocationTypeOK' /\ Rest'
<1> DEFINE e == l.ed
           ed == editor[e]
           label == IF found THEN Label[l.place] ELSE NoPlace
           text == IF found THEN label ELSE "pinned"
           named == [ed EXCEPT !.label = label]
           filled == [named EXCEPT !.auto = text]
<1>0. LocationTypeOK /\ ed \in EditorStates /\ e \in Mounts /\ l.place \in Places
  BY EditorFacts DEF LocationInvariant
<1>1. /\ label \in MapLabels /\ text \in {"pinned"} \cup MapLabels /\ text \in Texts
      /\ text # "pinned" => label # NoPlace /\ text = label
      /\ label # NoPlace => label = Label[l.place]
  BY <1>0 DEF MapLabels, Texts
<1>2. named \in EditorStates
  <2> HIDE DEF label
  <2> QED
    BY <1>0, <1>1, ColumnWrite
<1>3. filled \in EditorStates
  <2> HIDE DEF named, text
  <2> QED
    BY <1>1, <1>2, ColumnWrite
<1>4. /\ named.phase = ed.phase /\ named.seq = ed.seq /\ named.timer = ed.timer
      /\ named.label = label /\ named.auto = ed.auto
      /\ filled.phase = ed.phase /\ filled.seq = ed.seq /\ filled.timer = ed.timer
      /\ filled.label = label /\ filled.auto = text
  <2> HIDE DEF label, text
  <2> QED
    BY <1>0 DEF EditorStates
<1> HIDE DEF label, text
<1>5. filled = [ed EXCEPT !.label = label, !.auto = text]
  OBVIOUS
<1>6. /\ looks' = looks \ {l} /\ l.seq = ed.seq
      /\ form' = form /\ pin' = pin /\ saved' = saved /\ card' = card
      /\ asks' = asks /\ finds' = finds /\ reads' = reads /\ moves' = moves
  BY DEF LookupAnswers
<1>7. \/ /\ Replaceable(Props(e).address, ed.auto) /\ address' = text
         /\ editor' = [editor EXCEPT ![e] = filled] /\ strayed' = (strayed \/ ~Shown(e))
      \/ /\ ~Replaceable(Props(e).address, ed.auto) /\ address' = address
         /\ editor' = [editor EXCEPT ![e] = named] /\ strayed' = strayed
  <2>1. CASE Replaceable(Props(e).address, ed.auto)
    <3>1. editor' = [editor EXCEPT ![e].label = label, ![e].auto = text]
      BY <2>1 DEF LookupAnswers, label, text
    <3>2. editor' = [editor EXCEPT ![e] = filled]
      BY <1>0, <1>5, <3>1, EditorFacts
    <3>3. address' = text /\ strayed' = (strayed \/ ~Shown(e))
      BY <2>1 DEF LookupAnswers, Strays, label, text
    <3> QED
      BY <2>1, <3>2, <3>3
  <2>2. CASE ~Replaceable(Props(e).address, ed.auto)
    <3>1. editor' = [editor EXCEPT ![e].label = label]
      BY <2>2 DEF LookupAnswers, label
    <3>2. editor' = [editor EXCEPT ![e] = named]
      BY <1>0, <3>1, EditorFacts
    <3>3. address' = address /\ strayed' = strayed
      BY <2>2 DEF LookupAnswers
    <3> QED
      BY <2>2, <3>2, <3>3
  <2> QED
    BY <2>1, <2>2
<1> HIDE DEF filled, named
<1>8. PICK new \in {filled, named} : editor' = [editor EXCEPT ![e] = new]
  BY <1>7
<1>9. /\ new \in EditorStates /\ new.phase = ed.phase /\ new.seq = ed.seq
      /\ new.timer = ed.timer /\ new.label = label
  BY <1>2, <1>3, <1>4
<1>10. /\ editor' \in [Mounts -> EditorStates] /\ editor'[e] = new
       /\ \A o \in Mounts : o # e => editor'[o] = editor[o]
  BY <1>0, <1>8, <1>9, EditorWrote DEF Wrote
<1>11. address' \in Texts /\ strayed' \in BOOLEAN
  BY <1>0, <1>1, <1>7 DEF LocationTypeOK
<1>12. LocationTypeOK'
  BY <1>0, <1>6, <1>10, <1>11 DEF LocationTypeOK
<1>13. FormStages' /\ OneEditorShown' /\ AsksOfBorn'
  BY <1>0, <1>6, <1>9, <1>10, EditorFacts
     DEF LocationInvariant, FormStages, OneEditorShown, AsksOfBorn, Shown
<1>14. LooksNumbered'
  BY <1>0, <1>6, <1>9, <1>10, EditorFacts DEF LocationInvariant, LooksNumbered
<1>15. ~strayed' => ~strayed
  BY <1>7
<1>16. LookupIsOfPin'
  BY <1>0, <1>6, <1>9, <1>10, <1>15, EditorFacts DEF LocationInvariant, LookupIsOfPin, Shown
<1>17. Shown(e) /\ ~strayed => l.place = pin
  BY <1>0, <1>6 DEF LocationInvariant, LookupIsOfPin
<1>18. LabelIsOfPin'
  <2>1. l.place # NoPlace
    BY <1>0
  <2> QED
    BY <1>0, <1>1, <1>6, <1>9, <1>10, <1>15, <1>17, <2>1 DEF LocationInvariant, LabelIsOfPin, Shown
<1>19. AddressFollowsPin'
  <2> SUFFICES ASSUME NEW o \in Mounts, Shown(o)', ~strayed', ~LookupPending(o)',
                      address' = editor'[o].auto
               PROVE  address' = "pinned" \/ (pin' # NoPlace /\ address' = Label[pin'])
    BY DEF AddressFollowsPin
  <2>1. Shown(o) /\ ~strayed
    BY <1>9, <1>10, <1>15 DEF Shown
  <2>2. CASE o # e
    <3>1. ~LookupPending(o)
      BY <1>0, <1>6, <1>10, <2>2 DEF LookupPending
    <3>2. ~Shown(e)
      BY <1>0, <2>1, <2>2 DEF LocationInvariant, OneEditorShown
    <3>3. address' = address
      BY <1>7, <3>2
    <3> QED
      BY <1>6, <1>10, <2>1, <2>2, <3>1, <3>3 DEF LocationInvariant, AddressFollowsPin
  <2>3. CASE o = e
    <3>1. CASE Replaceable(Props(e).address, ed.auto)
      <4>1. address' = text /\ l.place = pin /\ l.place # NoPlace
        BY <1>0, <1>7, <1>17, <2>1, <2>3, <3>1
      <4> QED
        BY <1>1, <1>6, <4>1
    <3>2. CASE ~Replaceable(Props(e).address, ed.auto)
      <4>1. Props(e).address = address
        BY <2>1, <2>3 DEF Props
      <4>2. address # ed.auto
        BY <3>2, <4>1 DEF Replaceable
      <4>3. editor'[o].auto = ed.auto /\ address' = address
        BY <1>0, <1>4, <1>7, <2>3, <3>2, EditorFacts
      <4> QED
        BY <4>2, <4>3
    <3> QED
      BY <3>1, <3>2
  <2> QED
    BY <2>2, <2>3
<1> QED
  BY <1>12, <1>13, <1>14, <1>16, <1>18, <1>19 DEF Rest

LEMMA PlacePinKeeps ==
  ASSUME LocationInvariant, NEW e \in Mounts, NEW p \in Places, PlacePin(e, p)
  PROVE  LocationTypeOK' /\ Rest'
<1>0. LocationTypeOK /\ editor[e] \in EditorStates
  BY EditorFacts DEF LocationInvariant
<1>1. /\ Shown(e) /\ PutPin(editor[e], e, p) /\ form' = form /\ address' = address
      /\ saved' = saved /\ card' = card /\ asks' = asks /\ looks' = looks /\ finds' = finds
      /\ reads' = reads /\ strayed' = strayed /\ Moves
  BY DEF PlacePin, lookups
<1>2. SameLookups(e, editor[e]) /\ editor[e].phase # "unborn"
      /\ strayed' = (strayed \/ ~Shown(e))
  BY <1>0, <1>1 DEF SameLookups, Shown, LocationTypeOK
<1>3. Rest' /\ pin' \in MapPins /\ editor' \in [Mounts -> EditorStates]
  BY <1>0, <1>1, <1>2, PutPinKeeps
<1>4. LocationTypeOK'
  BY <1>0, <1>1, <1>3, MovesTyped DEF LocationTypeOK
<1> QED
  BY <1>3, <1>4

LEMMA PositionArrivesKeeps ==
  ASSUME LocationInvariant, NEW a \in asks, NEW p \in Places, PositionArrives(a, p)
  PROVE  LocationTypeOK' /\ Rest'
<1> DEFINE e == a.ed
           ed == [editor[e] EXCEPT !.busy = FALSE]
<1>0. LocationTypeOK /\ e \in Mounts /\ editor[e] \in EditorStates
  BY EditorFacts DEF LocationInvariant
<1>1. ed \in EditorStates /\ SameLookups(e, ed)
  BY <1>0, AsideWrites, Zenon
<1>2. /\ PutPin(ed, e, p) /\ form' = form /\ address' = address
      /\ saved' = saved /\ card' = card /\ asks' = asks \ {a} /\ looks' = looks /\ finds' = finds
      /\ reads' = reads /\ strayed' = (strayed \/ ~Shown(e)) /\ moves' = moves
  BY DEF PositionArrives, Strays
<1>3. editor[e].phase # "unborn"
  BY DEF LocationInvariant, AsksOfBorn
<1> HIDE DEF ed, e
<1>4. asks' \subseteq asks
  BY <1>2
<1>5. Rest' /\ pin' \in MapPins /\ editor' \in [Mounts -> EditorStates]
  BY <1>0, <1>1, <1>2, <1>3, <1>4, PutPinKeeps
<1>6. LocationTypeOK'
  BY <1>0, <1>2, <1>4, <1>5 DEF LocationTypeOK
<1> QED
  BY <1>5, <1>6

LEMMA ChooseKeeps ==
  ASSUME LocationInvariant, NEW e \in Mounts, NEW p \in Places, Choose(e, p)
  PROVE  LocationTypeOK' /\ Rest'
<1> DEFINE ed == editor[e]
           over == [ed EXCEPT !.seq = ed.seq + 1]
           still == [over EXCEPT !.timer = NoPlace]
           settled == [still EXCEPT !.results = {}]
           chosen == [settled EXCEPT !.label = Label[p]]
           filled == [chosen EXCEPT !.auto = Label[p]]
<1>0. LocationTypeOK /\ ed \in EditorStates /\ ed.seq \in Nat
  BY EditorFacts DEF LocationInvariant
<1>1. Label[p] \in Labels /\ Label[p] \in MapLabels /\ Label[p] \in Texts
  BY DEF MapLabels, Texts
<1>2. chosen \in EditorStates
  <2>1. over \in EditorStates
    BY <1>0, ColumnWrite
  <2> HIDE DEF over
  <2>2. still \in EditorStates
    BY <2>1, ColumnWrite, PinTypes
  <2> HIDE DEF still
  <2>3. settled \in EditorStates
    BY <2>2, ColumnWrite
  <2> HIDE DEF settled
  <2> QED
    BY <1>1, <2>3, ColumnWrite
<1>3. filled \in EditorStates
  <2> HIDE DEF chosen
  <2> QED
    BY <1>1, <1>2, ColumnWrite
<1>4. /\ chosen = [ed EXCEPT !.seq = @ + 1, !.timer = NoPlace, !.results = {}, !.label = Label[p]]
      /\ chosen.phase = ed.phase /\ chosen.seq = ed.seq + 1 /\ chosen.timer = NoPlace
      /\ chosen.label = Label[p] /\ chosen.auto = ed.auto
  BY <1>0 DEF EditorStates
<1>5. /\ filled = [chosen EXCEPT !.auto = Label[p]]
      /\ filled.phase = ed.phase /\ filled.seq = ed.seq + 1 /\ filled.timer = NoPlace
      /\ filled.label = Label[p] /\ filled.auto = Label[p]
  BY <1>0 DEF EditorStates
<1> HIDE DEF chosen, filled
<1>6. \/ /\ Replaceable(address, ed.auto) /\ address' = Label[p]
         /\ editor' = [editor EXCEPT ![e] = filled]
      \/ /\ ~Replaceable(address, ed.auto) /\ address' = address
         /\ editor' = [editor EXCEPT ![e] = chosen]
  BY <1>4, <1>5 DEF Choose
<1>7. /\ Shown(e) /\ pin' = p /\ form' = form /\ saved' = saved /\ card' = card
      /\ asks' = asks /\ looks' = looks /\ finds' = finds /\ reads' = reads
      /\ strayed' = strayed /\ moves' = moves
  BY DEF Choose, lookups
<1>8. PICK new \in {chosen, filled} : editor' = [editor EXCEPT ![e] = new]
  BY <1>6
<1>9. /\ new \in EditorStates /\ new.phase = ed.phase /\ new.seq = ed.seq + 1
      /\ new.timer = NoPlace /\ new.label = Label[p]
  BY <1>2, <1>3, <1>4, <1>5
<1>10. /\ editor' \in [Mounts -> EditorStates] /\ editor'[e] = new
       /\ \A o \in Mounts : o # e => editor'[o] = editor[o]
  BY <1>0, <1>8, <1>9, EditorWrote DEF Wrote
<1>11. address' \in Texts /\ pin' \in MapPins
  BY <1>0, <1>1, <1>6, <1>7, PinTypes DEF LocationTypeOK
<1>12. LocationTypeOK'
  BY <1>0, <1>7, <1>10, <1>11 DEF LocationTypeOK
<1>13. FormStages' /\ OneEditorShown' /\ AsksOfBorn'
  BY <1>0, <1>7, <1>9, <1>10, EditorFacts
     DEF LocationInvariant, FormStages, OneEditorShown, AsksOfBorn, Shown
<1>14. LooksNumbered'
  BY <1>0, <1>7, <1>9, <1>10, EditorFacts DEF LocationInvariant, LooksNumbered
<1>15. \A o \in Mounts : Shown(o)' => o = e
  BY <1>7, <1>9, <1>10 DEF LocationInvariant, OneEditorShown, Shown
<1>16. \A l \in looks : ~(l.ed = e /\ l.seq = ed.seq + 1)
  BY <1>0, EditorFacts DEF LocationInvariant, LooksNumbered
<1>17. LookupIsOfPin'
  BY <1>7, <1>9, <1>10, <1>15, <1>16 DEF LookupIsOfPin
<1>18. LabelIsOfPin'
  BY <1>7, <1>9, <1>10, <1>15 DEF LabelIsOfPin
<1>19. AddressFollowsPin'
  <2>1. CASE Replaceable(address, ed.auto)
    BY <1>6, <1>7, <2>1 DEF AddressFollowsPin
  <2>2. CASE ~Replaceable(address, ed.auto)
    <3>1. editor'[e].auto # address'
      BY <1>0, <1>4, <1>6, <2>2, EditorFacts DEF Replaceable
    <3> QED
      BY <1>15, <3>1 DEF AddressFollowsPin
  <2> QED
    BY <2>1, <2>2
<1> QED
  BY <1>12, <1>13, <1>14, <1>17, <1>18, <1>19 DEF Rest

LEMMA TypeAddressKeeps ==
  ASSUME LocationInvariant, NEW e \in Mounts, TypeAddress(e)
  PROVE  LocationTypeOK' /\ Rest'
<1>0. LocationTypeOK
  BY DEF LocationInvariant
<1>1. /\ address' \in {"typed", "empty"} /\ form' = form /\ pin' = pin /\ saved' = saved
      /\ card' = card /\ editor' = editor /\ asks' = asks /\ looks' = looks /\ finds' = finds
      /\ reads' = reads /\ strayed' = strayed /\ Moves
  BY DEF TypeAddress, lookups
<1>2. LocationTypeOK'
  <2>1. address' \in Texts
    BY <1>1 DEF Texts
  <2> QED
    BY <1>0, <1>1, <2>1, MovesTyped DEF LocationTypeOK
<1>3. FormStages' /\ OneEditorShown' /\ AsksOfBorn' /\ LooksNumbered'
  BY <1>1 DEF LocationInvariant, FormStages, OneEditorShown, AsksOfBorn, LooksNumbered, Shown
<1>4. LookupIsOfPin' /\ LabelIsOfPin'
  BY <1>1 DEF LocationInvariant, LookupIsOfPin, LabelIsOfPin, Shown
<1>5. AddressFollowsPin'
  <2>1. \A o \in Mounts : editor[o].auto \notin {"typed", "empty"}
    BY <1>0, EditorFacts DEF MapLabels
  <2> QED
    BY <1>1, <2>1 DEF AddressFollowsPin
<1> QED
  BY <1>2, <1>3, <1>4, <1>5 DEF Rest

(* Before the checklist is there no editor is. *)
LEMMA RegisterKeeps ==
  ASSUME LocationInvariant, AtRegister
  PROVE  LocationTypeOK' /\ Rest'
<1>1. LocationTypeOK'
  BY RegisterTypes DEF LocationInvariant
<1>2. /\ editor' = editor /\ asks' = asks /\ looks' = looks /\ finds' = finds
      /\ strayed' = strayed
  BY DEF AtRegister, TypeAtRegister, LocateAtRegister, RegisterNoPosition, Register,
         RegisterPosition, RegisterLabel, LoadShop, lookups
<1>3. /\ form.stage # "setup" /\ form' \in Forms
      /\ form'.stage # "register" => ~form'.asked /\ form'.look = NoPlace
  <2>0. form \in Forms /\ (form.stage # "register" => ~form.asked /\ form.look = NoPlace)
    BY DEF LocationInvariant, LocationTypeOK, FormStages
  <2>1. CASE TypeAtRegister
    BY <2>0, <2>1 DEF TypeAtRegister
  <2>2. CASE LocateAtRegister
    BY <2>0, <2>2 DEF LocateAtRegister, Forms
  <2>3. CASE RegisterNoPosition
    BY <2>0, <2>3 DEF RegisterNoPosition, Forms
  <2>4. CASE Register
    BY <2>0, <2>4 DEF Register, Forms, MapPins
  <2>5. ASSUME NEW p \in Places, RegisterPosition(p) PROVE <1>3!1 /\ <1>3!2
    BY <2>0, <2>5 DEF RegisterPosition, Forms, MapPins
  <2>6. ASSUME NEW b \in BOOLEAN, RegisterLabel(b) PROVE <1>3!1 /\ <1>3!2
    BY <2>0, <2>6 DEF RegisterLabel, Forms, MapPins
  <2>7. ASSUME NEW b \in BOOLEAN, LoadShop(b) PROVE <1>3!1 /\ <1>3!2
    BY <2>0, <2>7 DEF LoadShop, Forms, MapPins
  <2> QED
    BY <2>1, <2>2, <2>3, <2>4, <2>5, <2>6, <2>7 DEF AtRegister
<1>4. \A e \in Mounts : editor[e].phase = "unborn"
  BY <1>3 DEF LocationInvariant, FormStages
<1>5. \A e \in Mounts : ~Shown(e) /\ ~Shown(e)'
  BY <1>2, <1>4 DEF Shown
<1>6. FormStages' /\ OneEditorShown' /\ AsksOfBorn' /\ LooksNumbered'
  BY <1>2, <1>3, <1>4, <1>5
     DEF LocationInvariant, FormStages, OneEditorShown, AsksOfBorn, LooksNumbered
<1>7. LookupIsOfPin' /\ LabelIsOfPin' /\ AddressFollowsPin'
  BY <1>5 DEF LookupIsOfPin, LabelIsOfPin, AddressFollowsPin
<1> QED
  BY <1>1, <1>6, <1>7 DEF Rest

(* Saves, refreshes and polls leave the pin and the editor alone.              *)
LEMMA CardKeeps ==
  ASSUME LocationInvariant, OnCard
  PROVE  LocationTypeOK' /\ Rest'
<1>1. LocationTypeOK'
  BY CardTypes DEF LocationInvariant
<1>2. /\ form' = form /\ pin' = pin /\ address' = address /\ editor' = editor
      /\ asks' = asks /\ looks' = looks /\ finds' = finds /\ strayed' = strayed
  BY DEF OnCard, SaveLocation, StoreLocation, SaveAnswered, SaveFails, Refresh, PollStatus,
         ReviewLocation, ReadArrives, ReadFails, owned, lookups
<1>3. Aside
  BY <1>2, EditorFacts DEF Aside, SameLookups, LocationInvariant
<1> QED
  BY <1>1, <1>2, <1>3, AsideKeeps DEF LocationInvariant, AsksOfBorn

LEMMA InEditorKeeps ==
  ASSUME LocationInvariant, NEW e \in Mounts, InEditor(e)
  PROVE  LocationTypeOK' /\ Rest'
<1>0. LocationTypeOK
  BY DEF LocationInvariant
<1>1. CASE Detect(e) \/ CancelDetect(e) \/ Search(e)
  <2>1. /\ Aside /\ LocationTypeOK'
        /\ \A a \in asks' : a \in asks \/ a.ed = e
        /\ \A f \in finds' : f \in finds \/ f.ed = e
    BY <1>0, <1>1, AsideInEditor
  <2>2. editor[e].phase # "unborn"
    BY <1>1 DEF Detect, CancelDetect, Search, Shown
  <2> QED
    BY <2>1, <2>2, AsideKeeps DEF LocationInvariant, AsksOfBorn
<1> QED
  BY <1>1, OpenKeeps, CloseKeeps, LookUpPinKeeps, TypeAddressKeeps, PlacePinKeeps, ChooseKeeps
     DEF InEditor

LEMMA AnswersKeep ==
  ASSUME LocationInvariant, Answers
  PROVE  LocationTypeOK' /\ Rest'
<1>0. LocationTypeOK
  BY DEF LocationInvariant
<1>1. CASE AsideAnswers
  <2>1. /\ Aside /\ LocationTypeOK'
        /\ \A a \in asks' : \E o \in asks : a.ed = o.ed
        /\ \A f \in finds' : f \in finds \/ \E o \in asks : f.ed = o.ed
    BY <1>0, <1>1, AsideOfAnswers
  <2>2. /\ \A a \in asks' : editor[a.ed].phase # "unborn"
        /\ \A f \in finds' : editor[f.ed].phase # "unborn"
    BY <2>1 DEF LocationInvariant, AsksOfBorn
  <2> QED
    BY <2>1, <2>2, AsideKeeps
<1>2. CASE \E a \in asks : \E p \in Places : PositionArrives(a, p)
  BY <1>2, PositionArrivesKeeps
<1>3. CASE \E l \in looks : LookupDropped(l) \/ \E b \in BOOLEAN : LookupAnswers(l, b)
  BY <1>3, LookupDroppedKeeps, LookupAnswersKeeps
<1> QED
  BY <1>1, <1>2, <1>3 DEF Answers, AsideAnswers

-----------------------------------------------------------------------------
LEMMA LocationStarts == LocationInit => LocationInvariant
<1> SUFFICES ASSUME LocationInit PROVE LocationInvariant
  OBVIOUS
<1>1. \A e \in Mounts : editor[e] = Unborn
  BY DEF LocationInit
<1>2. /\ Unborn \in EditorStates /\ Unborn.phase = "unborn" /\ Unborn.timer = NoPlace
  BY DEF Unborn, EditorStates, MapPins, MapLabels, Texts
<1>3. form \in Forms /\ saved \in Rows
  BY DEF LocationInit, Forms, Rows, MapPins, Texts
<1>4. card \in Cards
  BY <1>3 DEF LocationInit, Cards, SaveSteps
<1>5. LocationTypeOK
  <2>1. editor \in [Mounts -> EditorStates]
    BY <1>2 DEF LocationInit
  <2>2. pin \in MapPins /\ address \in Texts /\ moves \in 0 .. MaxMoves
    BY DEF LocationInit, MapPins, Texts
  <2> QED
    BY <1>3, <1>4, <2>1, <2>2 DEF LocationInit, LocationTypeOK
<1>6. FormStages /\ OneEditorShown /\ LooksNumbered /\ AsksOfBorn
  BY <1>1, <1>2 DEF LocationInit, FormStages, OneEditorShown, LooksNumbered, AsksOfBorn, Shown
<1>7. LookupIsOfPin /\ LabelIsOfPin /\ AddressFollowsPin
  BY <1>1, <1>2 DEF LookupIsOfPin, LabelIsOfPin, AddressFollowsPin, Shown
<1> QED
  BY <1>5, <1>6, <1>7 DEF LocationInvariant

LEMMA LocationStep ==
  LocationInvariant /\ [LocationNext]_locationVars => LocationInvariant'
<1> SUFFICES ASSUME LocationInvariant, [LocationNext]_locationVars PROVE LocationInvariant'
  OBVIOUS
<1>1. CASE LocationNext
  BY <1>1, RegisterKeeps, InEditorKeeps, AnswersKeep, CardKeeps
     DEF LocationNext, LocationInvariant, Rest
<1>2. CASE UNCHANGED locationVars
  <2>1. LocationTypeOK'
    BY <1>2 DEF LocationInvariant, LocationTypeOK, locationVars, owned, lookups
  <2>2. Aside
    BY <1>2, EditorFacts
       DEF Aside, SameLookups, LocationInvariant, locationVars, owned, lookups
  <2>3. Rest'
    BY <1>2, <2>1, <2>2, AsideKeeps DEF LocationInvariant, AsksOfBorn, locationVars, lookups
  <2> QED
    BY <2>1, <2>3 DEF LocationInvariant, Rest
<1> QED
  BY <1>1, <1>2

(* The inductive invariant of the location editor: however positions, lookups, *)
(* searches and reads are answered (ShopLocationEditor.tsx: reverseSeq,        *)
(* detectSeq).                                                                 *)
THEOREM LocationInvariantHolds == LocationSpec => []LocationInvariant
BY LocationStarts, LocationStep, PTL DEF LocationSpec

(* What the map calls the pin is never said of another pin                     *)
(* (ShopLocationEditor.tsx: fillAddress, choose).                              *)
THEOREM LabelIsOfPinHolds == LocationSpec => []LabelIsOfPin
<1>1. LocationInvariant => LabelIsOfPin
  BY DEF LocationInvariant
<1> QED
  BY <1>1, LocationInvariantHolds, PTL

(* An address the editor filled in never stays that of an earlier pin          *)
(* (ShopLocationEditor.tsx: runReverse).                                       *)
THEOREM AddressFollowsPinHolds == LocationSpec => []AddressFollowsPin
<1>1. LocationInvariant => AddressFollowsPin
  BY DEF LocationInvariant
<1> QED
  BY <1>1, LocationInvariantHolds, PTL

(* Neither label nor address of an earlier pin stays beside a later one        *)
(* (ShopLocationEditor.tsx: reverseSeq).                                       *)
THEOREM EditorFollowsPinHolds == LocationSpec => []EditorFollowsPin
BY LabelIsOfPinHolds, AddressFollowsPinHolds, PTL DEF EditorFollowsPin

(* What the owner typed is not written over but by an editor hidden with a     *)
(* position asked for (geocode.ts:81).                                         *)
THEOREM TypedStaysButForStraysHolds == LocationSpec => TypedStaysButForStrays
<1> DEFINE Kept == form.stage = "setup" /\ address = "typed" /\ ~strayed'
                     => address' \in {"typed", "empty"}
<1>1. ASSUME LocationInvariant, LocationNext PROVE Kept
  <2> SUFFICES ASSUME form.stage = "setup", address = "typed", ~strayed'
               PROVE  address' \in {"typed", "empty"}
    OBVIOUS
  <2>0. /\ \A e \in Mounts : ~Replaceable(address, editor[e].auto)
        /\ \A l \in looks : l.ed \in Mounts
    <3>1. \A e \in Mounts : editor[e].auto # "typed"
      BY <1>1, EditorFacts DEF LocationInvariant, MapLabels
    <3> QED
      BY <1>1, <3>1, EditorFacts DEF LocationInvariant, Replaceable
  <2>1. CASE AtRegister
    <3>1. ~form.asked /\ form.look = NoPlace
      BY <1>1 DEF LocationInvariant, FormStages
    <3> QED
      BY <2>1, <3>1 DEF AtRegister, TypeAtRegister, LocateAtRegister, RegisterNoPosition,
         Register, RegisterPosition, RegisterLabel, LoadShop, owned
  <2>2. ASSUME NEW e \in Mounts, InEditor(e) PROVE address' \in {"typed", "empty"}
    BY <2>0, <2>2 DEF InEditor, Open, Close, Detect, CancelDetect, LookUpPin, Search, TypeAddress,
       PlacePin, Choose, owned
  <2>3. CASE Answers
    <3>1. ASSUME NEW l \in looks, NEW b \in BOOLEAN, LookupAnswers(l, b)
          PROVE  address' = address
      <4>1. CASE Shown(l.ed)
        BY <2>0, <3>1, <4>1 DEF LookupAnswers, Props
      <4>2. CASE ~Shown(l.ed)
        BY <3>1, <4>2 DEF LookupAnswers, Strays
      <4> QED
        BY <4>1, <4>2
    <3>2. CASE AsideAnswers
      <4>1. LocationTypeOK
        BY <1>1 DEF LocationInvariant
      <4>2. Aside
        BY <3>2, <4>1, AsideOfAnswers
      <4> QED
        BY <4>2 DEF Aside
    <3>3. ASSUME NEW a \in asks, NEW p \in Places, PositionArrives(a, p)
          PROVE  address' = address
      BY <3>3 DEF PositionArrives
    <3>4. ASSUME NEW l \in looks, LookupDropped(l) PROVE address' = address
      BY <3>4 DEF LookupDropped, owned
    <3> QED
      BY <2>3, <3>1, <3>2, <3>3, <3>4 DEF Answers, AsideAnswers
  <2>4. CASE OnCard
    BY <2>4 DEF OnCard, SaveLocation, StoreLocation, SaveAnswered, SaveFails, Refresh, PollStatus,
       ReviewLocation, ReadArrives, ReadFails, owned
  <2> QED
    BY <1>1, <2>1, <2>2, <2>3, <2>4 DEF LocationNext
<1>2. LocationInvariant /\ [LocationNext]_locationVars => [Kept]_locationVars
  BY <1>1
<1> QED
  BY <1>2, LocationInvariantHolds, PTL DEF LocationSpec, TypedStaysButForStrays

-----------------------------------------------------------------------------
(* Sums over finite sets. *)

HIDE LocationAssumption

(* A nonempty set of numbers has a least member.                              *)
LEMMA LeastNumber ==
  ASSUME NEW T, T \subseteq Nat, T # {}
  PROVE  \E x \in T : \A y \in T : x <= y
<1> DEFINE R == OpToRel(<, Nat)
<1>1. PICK x \in T : \A y \in T : <<y, x>> \notin R
  <2>1. IsWellFoundedOn(R, Nat)
    BY NatLessThanWellFounded, Zenon
  <2> HIDE DEF R
  <2> QED
    BY <2>1, WFMin
<1>2. \A y \in T : ~(y < x)
  BY <1>1 DEF OpToRel
<1> HIDE DEF R
<1> QED
  BY <1>2

LEMMA EveryNumber ==
  ASSUME NEW M, 0 \in M, \A n \in Nat : n \in M => n + 1 \in M
  PROVE  Nat \subseteq M
<1> DEFINE T == Nat \ M
<1>1. SUFFICES ASSUME T # {} PROVE FALSE
  OBVIOUS
<1>2. PICK x \in T : \A y \in T : x <= y
  <2>1. T \subseteq Nat
    OBVIOUS
  <2> HIDE DEF T
  <2> QED
    BY <1>1, <2>1, LeastNumber
<1>3. x # 0 /\ x - 1 \in Nat /\ x = (x - 1) + 1
  OBVIOUS
<1>4. x - 1 \in T
  BY <1>3
<1> QED
  BY <1>2, <1>3, <1>4

(* A family of sets that has the empty one, and every one of its members with *)
(* one more element of S, has every subset of S.                              *)
LEMMA EverySubset ==
  ASSUME NEW S, IsFiniteSet(S), NEW G, {} \in G,
         \A T \in SUBSET S : \A x \in S \ T : T \in G => T \cup {x} \in G
  PROVE  SUBSET S \subseteq G
<1> DEFINE M == {n \in Nat : \A T \in SUBSET S : Cardinality(T) = n => T \in G}
<1>1. 0 \in M
  <2>1. SUFFICES ASSUME NEW T \in SUBSET S, Cardinality(T) = 0 PROVE T \in G
    OBVIOUS
  <2>2. IsFiniteSet(T)
    BY FS_Subset
  <2> QED
    BY <2>1, <2>2, FS_EmptySet
<1>2. ASSUME NEW n \in Nat, n \in M PROVE n + 1 \in M
  <2>1. SUFFICES ASSUME NEW T \in SUBSET S, Cardinality(T) = n + 1 PROVE T \in G
    OBVIOUS
  <2>2. IsFiniteSet(T)
    BY FS_Subset
  <2>3. PICK x : x \in T
    <3>1. Cardinality({}) = 0
      BY FS_EmptySet
    <3>2. T # {}
      BY <2>1, <3>1
    <3> QED
      BY <3>2
  <2>4. Cardinality(T \ {x}) = n
    <3>1. Cardinality(T \ {x}) = Cardinality(T) - 1
      BY <2>2, <2>3, FS_RemoveElement
    <3> QED
      BY <2>1, <3>1
  <2>5. T \ {x} \in G
    BY <1>2, <2>4
  <2>6. T = (T \ {x}) \cup {x} /\ x \in S \ (T \ {x}) /\ T \ {x} \in SUBSET S
    BY <2>3
  <2> QED
    BY <2>5, <2>6
<1>3. Nat \subseteq M
  <2> HIDE DEF M
  <2> QED
    BY <1>1, <1>2, EveryNumber
<1>4. SUFFICES ASSUME NEW T \in SUBSET S PROVE T \in G
  OBVIOUS
<1>5. Cardinality(T) \in Nat
  BY FS_Subset, FS_CardinalityType
<1> QED
  BY <1>3, <1>5

-----------------------------------------------------------------------------
(* The sum of a function over a finite set, as the library computes it: one   *)
(* element after another, in an order it chooses.                             *)
Pick(s) == CHOOSE x \in s : TRUE
Summed(f, S, h) == [s \in S |-> IF s = {} THEN 0 ELSE f[Pick(s)] + h[s \ {Pick(s)}]]
Sums(f, S) == CHOOSE h : h = Summed(f, SUBSET S, h)

LEMMA SumIsIt ==
  ASSUME NEW f, NEW S
  PROVE  SumFunctionOnSet(f, S) = Sums(f, S)[S]
BY Zenon DEF SumFunctionOnSet, FoldFunctionOnSet, MapThenFoldSet, Sums, Summed, Pick

LEMMA PickIn == ASSUME NEW s, s # {} PROVE Pick(s) \in s
BY DEF Pick

(* Such a function exists: it is built up for larger and larger subsets.      *)
LEMMA SumsExist ==
  ASSUME NEW f, NEW S, IsFiniteSet(S)
  PROVE  \E h : h = Summed(f, SUBSET S, h)
<1> DEFINE Upto(n) == {T \in SUBSET S : Cardinality(T) <= n}
           M == {n \in Nat : \E h : h = Summed(f, Upto(n), h)}
<1>0. \A T \in SUBSET S : IsFiniteSet(T) /\ Cardinality(T) \in Nat
  BY FS_Subset, FS_CardinalityType
<1>1. 0 \in M
  <2>1. Upto(0) = {{}}
    <3>1. \A T \in SUBSET S : Cardinality(T) <= 0 <=> T = {}
      BY <1>0, FS_EmptySet
    <3> QED
      BY <3>1
  <2>2. [s \in {{}} |-> 0] = Summed(f, {{}}, [s \in {{}} |-> 0])
    BY DEF Summed
  <2> QED
    BY <2>1, <2>2
<1>2. ASSUME NEW n \in Nat, n \in M PROVE n + 1 \in M
  <2>1. PICK h : h = Summed(f, Upto(n), h)
    BY <1>2
  <2> DEFINE k == Summed(f, Upto(n + 1), h)
  <2>2. ASSUME NEW T \in Upto(n + 1), T # {}
        PROVE  T \ {Pick(T)} \in Upto(n) /\ T \ {Pick(T)} \in Upto(n + 1)
    <3>1. T \in SUBSET S /\ IsFiniteSet(T) /\ Cardinality(T) \in Nat
      BY <1>0
    <3>2. Cardinality(T \ {Pick(T)}) = Cardinality(T) - 1
      BY <2>2, <3>1, PickIn, FS_RemoveElement
    <3>3. T \ {Pick(T)} \in SUBSET S
      BY <3>1
    <3> QED
      BY <3>1, <3>2, <3>3
  <2>3. ASSUME NEW T \in Upto(n) PROVE T \in Upto(n + 1) /\ k[T] = h[T]
    <3>1. T \in Upto(n + 1)
      BY <1>0
    <3>2. k[T] = IF T = {} THEN 0 ELSE f[Pick(T)] + h[T \ {Pick(T)}]
      BY <3>1 DEF Summed
    <3>3. h[T] = IF T = {} THEN 0 ELSE f[Pick(T)] + h[T \ {Pick(T)}]
      <4> HIDE DEF Upto
      <4>1. Summed(f, Upto(n), h)[T] = IF T = {} THEN 0 ELSE f[Pick(T)] + h[T \ {Pick(T)}]
        BY DEF Summed
      <4> QED
        BY <2>1, <4>1
    <3> QED
      BY <3>1, <3>2, <3>3
  <2>4. ASSUME NEW T \in Upto(n + 1), T # {} PROVE k[T \ {Pick(T)}] = h[T \ {Pick(T)}]
    BY <2>2, <2>3, <2>4
  <2>5. k = Summed(f, Upto(n + 1), k)
    <3> DEFINE U == Upto(n + 1)
    <3> HIDE DEF Upto, U
    <3>1. \A T \in U : T # {} => k[T \ {Pick(T)}] = h[T \ {Pick(T)}]
      BY <2>4 DEF U
    <3>2. k = Summed(f, U, h)
      BY DEF U
    <3> HIDE DEF k
    <3>3. Summed(f, U, h) = Summed(f, U, k)
      BY <3>1 DEF Summed
    <3> QED
      BY <3>2, <3>3 DEF U
  <2> HIDE DEF k, Upto
  <2> QED
    BY <2>5
<1>3. Nat \subseteq M
  <2> HIDE DEF M
  <2> QED
    BY <1>1, <1>2, EveryNumber
<1>4. Cardinality(S) \in M
  BY <1>0, <1>3
<1>5. Upto(Cardinality(S)) = SUBSET S
  BY FS_Subset
<1> QED
  BY <1>4, <1>5

LEMMA SumsAreSummed ==
  ASSUME NEW f, NEW S, IsFiniteSet(S)
  PROVE  Sums(f, S) = Summed(f, SUBSET S, Sums(f, S))
BY SumsExist DEF Sums

(* Two of them agree where both are defined.                                  *)
LEMMA SumsAgree ==
  ASSUME NEW f, NEW S, IsFiniteSet(S), NEW T \in SUBSET S
  PROVE  Sums(f, S)[T] = Sums(f, T)[T]
<1> DEFINE h == Sums(f, S)
           k == Sums(f, T)
           M == {n \in Nat : \A U \in SUBSET T : Cardinality(U) = n => h[U] = k[U]}
<1>1. IsFiniteSet(T) /\ \A U \in SUBSET T : IsFiniteSet(U) /\ Cardinality(U) \in Nat
  BY FS_Subset, FS_CardinalityType
<1>2. ASSUME NEW U \in SUBSET T
      PROVE  /\ h[U] = IF U = {} THEN 0 ELSE f[Pick(U)] + h[U \ {Pick(U)}]
             /\ k[U] = IF U = {} THEN 0 ELSE f[Pick(U)] + k[U \ {Pick(U)}]
  <2>1. h = Summed(f, SUBSET S, h) /\ k = Summed(f, SUBSET T, k)
    BY <1>1, SumsAreSummed
  <2> HIDE DEF h, k
  <2>2. /\ Summed(f, SUBSET S, h)[U] = IF U = {} THEN 0 ELSE f[Pick(U)] + h[U \ {Pick(U)}]
        /\ Summed(f, SUBSET T, k)[U] = IF U = {} THEN 0 ELSE f[Pick(U)] + k[U \ {Pick(U)}]
    BY DEF Summed
  <2> QED
    BY <2>1, <2>2
<1> HIDE DEF h, k
<1>3. 0 \in M
  BY <1>1, <1>2, FS_EmptySet
<1>4. ASSUME NEW n \in Nat, n \in M PROVE n + 1 \in M
  <2>1. SUFFICES ASSUME NEW U \in SUBSET T, Cardinality(U) = n + 1 PROVE h[U] = k[U]
    OBVIOUS
  <2>2. U # {}
    <3>1. Cardinality({}) = 0
      BY FS_EmptySet
    <3> QED
      BY <2>1, <3>1
  <2> DEFINE R == U \ {Pick(U)}
  <2>3. Cardinality(R) = n /\ R \in SUBSET T
    <3>1. Cardinality(R) = Cardinality(U) - 1
      BY <1>1, <2>2, PickIn, FS_RemoveElement
    <3> QED
      BY <2>1, <3>1
  <2>4. h[R] = k[R]
    BY <1>4, <2>3
  <2> QED
    BY <1>2, <2>2, <2>4
<1>5. Nat \subseteq M
  <2> HIDE DEF M
  <2> QED
    BY <1>3, <1>4, EveryNumber
<1>6. Cardinality(T) \in M
  BY <1>1, <1>5
<1> QED
  BY <1>6 DEF h, k

(* The sum over nothing is 0; over a set, it is that of an element and that   *)
(* of the others.                                                             *)
LEMMA SumEmpty == ASSUME NEW f PROVE SumFunctionOnSet(f, {}) = 0
<1>1. Sums(f, {}) = Summed(f, SUBSET {}, Sums(f, {}))
  BY FS_EmptySet, SumsAreSummed
<1> DEFINE h == Sums(f, {})
<1> HIDE DEF h
<1>2. Summed(f, SUBSET {}, h)[{}] = 0
  BY DEF Summed
<1> QED
  BY <1>1, <1>2, SumIsIt DEF h

LEMMA SumPick ==
  ASSUME NEW f, NEW S, IsFiniteSet(S), S # {}
  PROVE  SumFunctionOnSet(f, S) = f[Pick(S)] + SumFunctionOnSet(f, S \ {Pick(S)})
<1> DEFINE h == Sums(f, S)
           R == S \ {Pick(S)}
<1>1. h = Summed(f, SUBSET S, h)
  BY SumsAreSummed
<1>2. h[R] = SumFunctionOnSet(f, R)
  BY SumsAgree, SumIsIt
<1>3. h[S] = SumFunctionOnSet(f, S)
  BY SumIsIt
<1> HIDE DEF h
<1>4. Summed(f, SUBSET S, h)[S] = f[Pick(S)] + h[S \ {Pick(S)}]
  BY DEF Summed
<1> QED
  BY <1>1, <1>2, <1>3, <1>4

(* The sum of integers is one.                                                *)
LEMMA SumInt ==
  ASSUME NEW f, NEW S, IsFiniteSet(S), \A x \in S : f[x] \in Int
  PROVE  SumFunctionOnSet(f, S) \in Int
<1> DEFINE M == {n \in Nat : \A T \in SUBSET S : Cardinality(T) = n => SumFunctionOnSet(f, T) \in Int}
<1>1. \A T \in SUBSET S : IsFiniteSet(T) /\ Cardinality(T) \in Nat
  BY FS_Subset, FS_CardinalityType
<1>2. 0 \in M
  BY <1>1, FS_EmptySet, SumEmpty
<1>3. ASSUME NEW n \in Nat, n \in M PROVE n + 1 \in M
  <2>1. SUFFICES ASSUME NEW U \in SUBSET S, Cardinality(U) = n + 1
                 PROVE  SumFunctionOnSet(f, U) \in Int
    OBVIOUS
  <2>2. U # {}
    <3>1. Cardinality({}) = 0
      BY FS_EmptySet
    <3> QED
      BY <2>1, <3>1
  <2> DEFINE R == U \ {Pick(U)}
  <2>3. Cardinality(R) = n /\ R \in SUBSET S
    <3>1. Cardinality(R) = Cardinality(U) - 1
      BY <1>1, <2>2, PickIn, FS_RemoveElement
    <3> QED
      BY <2>1, <3>1
  <2>4. SumFunctionOnSet(f, R) \in Int
    BY <1>3, <2>3
  <2>5. f[Pick(U)] \in Int
    BY <2>2, PickIn
  <2>6. SumFunctionOnSet(f, U) = f[Pick(U)] + SumFunctionOnSet(f, R)
    BY <1>1, <2>2, SumPick
  <2> QED
    BY <2>4, <2>5, <2>6
<1>4. Nat \subseteq M
  <2> HIDE DEF M
  <2> QED
    BY <1>2, <1>3, EveryNumber
<1> QED
  BY <1>1, <1>4

(* In whatever order: any element may be the one.                             *)
LEMMA SumAdd ==
  ASSUME NEW f, NEW S, IsFiniteSet(S), NEW x \in S, \A y \in S : f[y] \in Int
  PROVE  SumFunctionOnSet(f, S) = f[x] + SumFunctionOnSet(f, S \ {x})
<1> DEFINE Adds(T) == \A y \in T : SumFunctionOnSet(f, T) = f[y] + SumFunctionOnSet(f, T \ {y})
           M == {n \in Nat : \A T \in SUBSET S : Cardinality(T) = n => Adds(T)}
<1>1. \A T \in SUBSET S : IsFiniteSet(T) /\ Cardinality(T) \in Nat
  BY FS_Subset, FS_CardinalityType
<1>2. 0 \in M
  <2>1. \A T \in SUBSET S : Cardinality(T) = 0 => T = {}
    BY <1>1, FS_EmptySet
  <2> QED
    BY <2>1
<1>3. ASSUME NEW n \in Nat, n \in M PROVE n + 1 \in M
  <2>1. SUFFICES ASSUME NEW U \in SUBSET S, Cardinality(U) = n + 1, NEW y \in U
                 PROVE  SumFunctionOnSet(f, U) = f[y] + SumFunctionOnSet(f, U \ {y})
    OBVIOUS
  <2> DEFINE p == Pick(U)
  <2>2. p \in U /\ SumFunctionOnSet(f, U) = f[p] + SumFunctionOnSet(f, U \ {p})
    BY <1>1, PickIn, SumPick
  <2>3. CASE y = p
    BY <2>2, <2>3
  <2>4. CASE y # p
    <3> HIDE DEF p
    <3>1. \A z \in U : Cardinality(U \ {z}) = n
      <4>1. \A z \in U : Cardinality(U \ {z}) = Cardinality(U) - 1
        BY <1>1, FS_RemoveElement
      <4> QED
        BY <2>1, <4>1
    <3>2. Adds(U \ {p}) /\ Adds(U \ {y})
      BY <1>3, <2>2, <3>1
    <3>3. /\ SumFunctionOnSet(f, U \ {p}) = f[y] + SumFunctionOnSet(f, (U \ {p}) \ {y})
          /\ SumFunctionOnSet(f, U \ {y}) = f[p] + SumFunctionOnSet(f, (U \ {y}) \ {p})
      BY <2>2, <2>4, <3>2
    <3>4. (U \ {p}) \ {y} = (U \ {y}) \ {p}
      OBVIOUS
    <3> DEFINE rest == SumFunctionOnSet(f, (U \ {p}) \ {y})
    <3>5. rest \in Int
      BY <1>1, SumInt
    <3>6. f[y] \in Int /\ f[p] \in Int
      BY <2>2
    <3>7. /\ SumFunctionOnSet(f, U) = f[p] + (f[y] + rest)
          /\ SumFunctionOnSet(f, U \ {y}) = f[p] + rest
      BY <2>2, <3>3, <3>4
    <3> HIDE DEF rest
    <3> QED
      BY <3>5, <3>6, <3>7
  <2> QED
    BY <2>3, <2>4
<1>4. Nat \subseteq M
  <2> HIDE DEF M
  <2> QED
    BY <1>2, <1>3, EveryNumber
<1>5. Adds(S)
  <2>1. Cardinality(S) \in M
    BY <1>1, <1>4
  <2> HIDE DEF Adds
  <2> QED
    BY <2>1
<1> QED
  BY <1>5

LEMMA SumExtend ==
  ASSUME NEW f, NEW S, IsFiniteSet(S), \A y \in S : f[y] \in Int,
         NEW T \in SUBSET S, NEW x \in S \ T
  PROVE  /\ SumFunctionOnSet(f, T) \in Int
         /\ SumFunctionOnSet(f, T \cup {x}) = f[x] + SumFunctionOnSet(f, T)
<1>1. IsFiniteSet(T) /\ IsFiniteSet(T \cup {x})
  BY FS_Subset, FS_AddElement
<1>2. (T \cup {x}) \ {x} = T
  OBVIOUS
<1>3. SumFunctionOnSet(f, T) \in Int
  BY <1>1, SumInt
<1>4. SumFunctionOnSet(f, T \cup {x}) = f[x] + SumFunctionOnSet(f, (T \cup {x}) \ {x})
  <2> DEFINE U == T \cup {x}
  <2>1. IsFiniteSet(U) /\ x \in U /\ \A y \in U : f[y] \in Int
    BY <1>1
  <2> HIDE DEF U
  <2>2. SumFunctionOnSet(f, U) = f[x] + SumFunctionOnSet(f, U \ {x})
    BY <2>1, SumAdd
  <2> QED
    BY <2>2 DEF U
<1> QED
  BY <1>2, <1>3, <1>4

(* The sum goes by the values on the set alone ...                            *)
LEMMA SumSame ==
  ASSUME NEW f, NEW g, NEW S, IsFiniteSet(S), \A x \in S : f[x] \in Int /\ g[x] = f[x]
  PROVE  SumFunctionOnSet(g, S) = SumFunctionOnSet(f, S)
<1> DEFINE G == {T \in SUBSET S : SumFunctionOnSet(g, T) = SumFunctionOnSet(f, T)}
<1>1. {} \in G
  BY SumEmpty
<1>2. ASSUME NEW T \in SUBSET S, NEW x \in S \ T, T \in G PROVE T \cup {x} \in G
  <2>1. /\ SumFunctionOnSet(f, T \cup {x}) = f[x] + SumFunctionOnSet(f, T)
        /\ SumFunctionOnSet(g, T \cup {x}) = g[x] + SumFunctionOnSet(g, T)
    BY SumExtend
  <2> QED
    BY <1>2, <2>1
<1> HIDE DEF G
<1>3. SUBSET S \subseteq G
  BY <1>1, <1>2, EverySubset
<1> QED
  BY <1>3 DEF G

(* ... is linear, *)
LEMMA SumPlus ==
  ASSUME NEW f, NEW g, NEW h, NEW S, IsFiniteSet(S),
         \A x \in S : f[x] \in Int /\ g[x] \in Int /\ h[x] = f[x] + g[x]
  PROVE  SumFunctionOnSet(h, S) = SumFunctionOnSet(f, S) + SumFunctionOnSet(g, S)
<1> DEFINE G == {T \in SUBSET S :
                   SumFunctionOnSet(h, T) = SumFunctionOnSet(f, T) + SumFunctionOnSet(g, T)}
<1>1. {} \in G
  BY SumEmpty
<1>2. ASSUME NEW T \in SUBSET S, NEW x \in S \ T, T \in G PROVE T \cup {x} \in G
  <2>0. \A y \in S : h[y] \in Int
    OBVIOUS
  <2>1. /\ SumFunctionOnSet(f, T \cup {x}) = f[x] + SumFunctionOnSet(f, T)
        /\ SumFunctionOnSet(f, T) \in Int
    BY SumExtend
  <2>2. /\ SumFunctionOnSet(g, T \cup {x}) = g[x] + SumFunctionOnSet(g, T)
        /\ SumFunctionOnSet(g, T) \in Int
    BY SumExtend
  <2>3. SumFunctionOnSet(h, T \cup {x}) = h[x] + SumFunctionOnSet(h, T)
    BY <2>0, SumExtend
  <2>4. SumFunctionOnSet(h, T) = SumFunctionOnSet(f, T) + SumFunctionOnSet(g, T)
    BY <1>2
  <2> QED
    BY <2>1, <2>2, <2>3, <2>4
<1> HIDE DEF G
<1>3. SUBSET S \subseteq G
  BY <1>1, <1>2, EverySubset
<1> QED
  BY <1>3 DEF G

(* ... changes by what one of the values changes, *)
LEMMA SumChange ==
  ASSUME NEW f, NEW g, NEW S, IsFiniteSet(S), NEW x \in S, g[x] \in Int,
         \A y \in S : f[y] \in Int, \A y \in S \ {x} : g[y] = f[y]
  PROVE  SumFunctionOnSet(g, S) = SumFunctionOnSet(f, S) + (g[x] - f[x])
<1>1. IsFiniteSet(S \ {x})
  BY FS_Subset
<1>2. /\ SumFunctionOnSet(f, S) = f[x] + SumFunctionOnSet(f, S \ {x})
      /\ SumFunctionOnSet(g, S) = g[x] + SumFunctionOnSet(g, S \ {x})
  <2>1. \A y \in S : g[y] \in Int
    OBVIOUS
  <2> QED
    BY <2>1, SumAdd
<1>3. SumFunctionOnSet(g, S \ {x}) = SumFunctionOnSet(f, S \ {x})
  BY <1>1, SumSame
<1>4. SumFunctionOnSet(f, S \ {x}) \in Int
  BY <1>1, SumInt
<1>5. f[x] \in Int
  OBVIOUS
<1> QED
  BY <1>2, <1>3, <1>4, <1>5

(* ... splits into that of a part and that of the rest, *)
LEMMA SumSplit ==
  ASSUME NEW f, NEW S, IsFiniteSet(S), \A x \in S : f[x] \in Int, NEW P \in SUBSET S
  PROVE  SumFunctionOnSet(f, S) = SumFunctionOnSet(f, P) + SumFunctionOnSet(f, S \ P)
<1> DEFINE G == {T \in SUBSET P :
                   SumFunctionOnSet(f, S) = SumFunctionOnSet(f, T) + SumFunctionOnSet(f, S \ T)}
<1>0. IsFiniteSet(P) /\ IsFiniteSet(S \ P) /\ \A T \in SUBSET P : IsFiniteSet(T) /\ IsFiniteSet(S \ T)
  BY FS_Subset
<1>1. {} \in G
  <2>1. S \ {} = S /\ SumFunctionOnSet(f, S) \in Int
    BY SumInt
  <2> QED
    BY <2>1, SumEmpty
<1>2. ASSUME NEW T \in SUBSET P, NEW x \in P \ T, T \in G PROVE T \cup {x} \in G
  <2>1. /\ SumFunctionOnSet(f, T \cup {x}) = f[x] + SumFunctionOnSet(f, T)
        /\ SumFunctionOnSet(f, T) \in Int
    BY SumExtend
  <2>2. SumFunctionOnSet(f, S \ T) = f[x] + SumFunctionOnSet(f, (S \ T) \ {x})
    BY <1>0, SumAdd
  <2>3. (S \ T) \ {x} = S \ (T \cup {x}) /\ T \cup {x} \in SUBSET P
    OBVIOUS
  <2>4. SumFunctionOnSet(f, S \ (T \cup {x})) \in Int
    BY <1>0, <2>3, SumInt
  <2>5. f[x] \in Int
    OBVIOUS
  <2>6. SumFunctionOnSet(f, S) = SumFunctionOnSet(f, T) + SumFunctionOnSet(f, S \ T)
    BY <1>2
  <2>7. SumFunctionOnSet(f, S) =
          SumFunctionOnSet(f, T \cup {x}) + SumFunctionOnSet(f, S \ (T \cup {x}))
    <3> DEFINE a == SumFunctionOnSet(f, T)
               b == SumFunctionOnSet(f, S \ (T \cup {x}))
    <3>1. SumFunctionOnSet(f, S \ T) = f[x] + b
      BY <2>2, <2>3
    <3>2. a \in Int /\ b \in Int /\ f[x] \in Int
      BY <2>1, <2>4, <2>5
    <3>3. SumFunctionOnSet(f, S) = a + (f[x] + b)
      BY <2>6, <3>1
    <3>4. SumFunctionOnSet(f, T \cup {x}) = f[x] + a
      BY <2>1
    <3> HIDE DEF a, b
    <3>5. SumFunctionOnSet(f, S) = SumFunctionOnSet(f, T \cup {x}) + b
      BY <3>2, <3>3, <3>4
    <3> QED
      BY <3>5 DEF b
  <2> QED
    BY <2>3, <2>7
<1> HIDE DEF G
<1>3. SUBSET P \subseteq G
  BY <1>0, <1>1, <1>2, EverySubset
<1> QED
  BY <1>3 DEF G

(* ... and is at least each of the values when none is negative.              *)
LEMMA SumNat ==
  ASSUME NEW f, NEW S, IsFiniteSet(S), \A x \in S : f[x] \in Nat
  PROVE  /\ SumFunctionOnSet(f, S) \in Nat
         /\ \A x \in S : f[x] <= SumFunctionOnSet(f, S)
<1> DEFINE G == {T \in SUBSET S : SumFunctionOnSet(f, T) \in Nat}
<1>1. {} \in G
  BY SumEmpty
<1>2. ASSUME NEW T \in SUBSET S, NEW x \in S \ T, T \in G PROVE T \cup {x} \in G
  <2>1. SumFunctionOnSet(f, T \cup {x}) = f[x] + SumFunctionOnSet(f, T)
    BY SumExtend
  <2> QED
    BY <1>2, <2>1
<1> HIDE DEF G
<1>3. SUBSET S \subseteq G
  BY <1>1, <1>2, EverySubset
<1>4. \A T \in SUBSET S : SumFunctionOnSet(f, T) \in Nat
  BY <1>3 DEF G
<1>5. ASSUME NEW x \in S PROVE f[x] <= SumFunctionOnSet(f, S)
  <2>1. SumFunctionOnSet(f, S) = f[x] + SumFunctionOnSet(f, S \ {x})
    BY SumAdd
  <2>2. SumFunctionOnSet(f, S \ {x}) \in Nat
    BY <1>4
  <2>3. f[x] \in Nat
    OBVIOUS
  <2> QED
    BY <2>1, <2>2, <2>3
<1> QED
  BY <1>4, <1>5

(* Sorted by whom they belong to, the values sum up to the same.              *)
Owned(D, q, r) == {d \in D : q[d] = r}

LEMMA SumByOwner ==
  ASSUME NEW f, NEW D, IsFiniteSet(D), \A d \in D : f[d] \in Int,
         NEW R, IsFiniteSet(R), NEW q, \A d \in D : q[d] \in R,
         NEW p, \A r \in R : p[r] = SumFunctionOnSet(f, Owned(D, q, r))
  PROVE  SumFunctionOnSet(p, R) = SumFunctionOnSet(f, D)
<1> DEFINE Own(T, r) == {d \in T : q[d] = r}
           Per(T) == [r \in R |-> SumFunctionOnSet(f, Own(T, r))]
           G == {T \in SUBSET D : SumFunctionOnSet(Per(T), R) = SumFunctionOnSet(f, T)}
<1>0. \A T \in SUBSET D : \A r \in R : IsFiniteSet(Own(T, r)) /\ SumFunctionOnSet(f, Own(T, r)) \in Int
  <2>1. SUFFICES ASSUME NEW T \in SUBSET D, NEW r \in R
                 PROVE  IsFiniteSet(Own(T, r)) /\ SumFunctionOnSet(f, Own(T, r)) \in Int
    OBVIOUS
  <2>2. Own(T, r) \in SUBSET D
    OBVIOUS
  <2>3. IsFiniteSet(Own(T, r))
    BY <2>2, FS_Subset
  <2> QED
    BY <2>2, <2>3, SumInt
<1>1. {} \in G
  <2>1. \A r \in R : Own({}, r) = {}
    OBVIOUS
  <2>2. \A r \in R : Per({})[r] = 0
    BY <2>1, SumEmpty
  <2> HIDE DEF Per
  <2>3. SumFunctionOnSet(Per({}), R) \in Nat
    BY <2>2, SumNat
  <2> DEFINE Z == {T \in SUBSET R : SumFunctionOnSet(Per({}), T) = 0}
  <2>4. {} \in Z
    BY SumEmpty
  <2>5. ASSUME NEW T \in SUBSET R, NEW x \in R \ T, T \in Z PROVE T \cup {x} \in Z
    <3>1. SumFunctionOnSet(Per({}), T \cup {x}) = Per({})[x] + SumFunctionOnSet(Per({}), T)
      BY <2>2, SumExtend
    <3> QED
      BY <2>2, <2>5, <3>1
  <2>6. R \in Z
    <3> HIDE DEF Z
    <3> QED
      BY <2>4, <2>5, EverySubset
  <2> QED
    BY <2>6, SumEmpty
<1>2. ASSUME NEW T \in SUBSET D, NEW x \in D \ T, T \in G PROVE T \cup {x} \in G
  <2> DEFINE U == T \cup {x}
  <2>1. /\ SumFunctionOnSet(f, U) = f[x] + SumFunctionOnSet(f, T)
        /\ SumFunctionOnSet(f, T) \in Int
    BY SumExtend
  <2>2. q[x] \in R /\ f[x] \in Int /\ U \in SUBSET D
    OBVIOUS
  <2>3. Own(U, q[x]) = Own(T, q[x]) \cup {x} /\ x \in D \ Own(T, q[x]) /\ Own(T, q[x]) \in SUBSET D
    OBVIOUS
  <2>4. \A r \in R \ {q[x]} : Own(U, r) = Own(T, r)
    OBVIOUS
  <2>5. SumFunctionOnSet(f, Own(U, q[x])) = f[x] + SumFunctionOnSet(f, Own(T, q[x]))
    <3> DEFINE B == Own(T, q[x])
    <3>1. Own(U, q[x]) = B \cup {x} /\ x \in D \ B /\ B \in SUBSET D
      BY <2>3
    <3> HIDE DEF B, Own
    <3>2. SumFunctionOnSet(f, B \cup {x}) = f[x] + SumFunctionOnSet(f, B)
      BY <3>1, SumExtend
    <3> QED
      BY <3>1, <3>2 DEF B
  <2> HIDE DEF Own
  <2>6. /\ \A r \in R : Per(T)[r] \in Int /\ Per(U)[r] \in Int
        /\ \A r \in R \ {q[x]} : Per(U)[r] = Per(T)[r]
        /\ Per(U)[q[x]] = f[x] + Per(T)[q[x]]
    BY <1>0, <2>2, <2>4, <2>5
  <2> HIDE DEF Per
  <2>7. SumFunctionOnSet(Per(U), R) = SumFunctionOnSet(Per(T), R) + (Per(U)[q[x]] - Per(T)[q[x]])
    <3> DEFINE before == Per(T)
               after == Per(U)
               y == q[x]
    <3>1. /\ y \in R /\ after[y] \in Int /\ \A r \in R : before[r] \in Int
          /\ \A r \in R \ {y} : after[r] = before[r]
      BY <2>2, <2>6
    <3> HIDE DEF before, after, y
    <3>2. SumFunctionOnSet(after, R) = SumFunctionOnSet(before, R) + (after[y] - before[y])
      BY <3>1, SumChange
    <3> QED
      BY <3>2 DEF before, after, y
  <2>8. SumFunctionOnSet(Per(T), R) = SumFunctionOnSet(f, T) /\ Per(T)[q[x]] \in Int
    BY <1>2, <2>2, <2>6
  <2>9. SumFunctionOnSet(Per(U), R) = SumFunctionOnSet(f, U)
    BY <2>1, <2>2, <2>6, <2>7, <2>8
  <2> QED
    BY <2>2, <2>9
<1>3. D \in G
  <2> HIDE DEF G
  <2> QED
    BY <1>1, <1>2, EverySubset
<1>4. \A r \in R : p[r] = Per(D)[r] /\ Per(D)[r] \in Int
  BY <1>0 DEF Owned
<1>5. SumFunctionOnSet(Per(D), R) = SumFunctionOnSet(f, D)
  BY <1>3
<1> HIDE DEF Per
<1> QED
  BY <1>4, <1>5, SumSame

(* Over the first numbers they grow by one value at a time.                   *)
LEMMA SumNext ==
  ASSUME NEW f, NEW n \in Nat, \A i \in 1 .. n : f[i] \in Int, NEW k \in Nat, k < n
  PROVE  /\ SumFunctionOnSet(f, 1 .. k) \in Int
         /\ SumFunctionOnSet(f, 1 .. k + 1) = SumFunctionOnSet(f, 1 .. k) + f[k + 1]
<1> DEFINE S == 1 .. n
           T == 1 .. k
           x == k + 1
<1>1. IsFiniteSet(S)
  BY FS_Interval
<1>2. T \in SUBSET S /\ x \in S \ T /\ T \cup {x} = 1 .. k + 1 /\ f[x] \in Int
  OBVIOUS
<1>3. \A i \in S : f[i] \in Int
  OBVIOUS
<1> HIDE DEF S, T, x
<1>4. /\ SumFunctionOnSet(f, T) \in Int
      /\ SumFunctionOnSet(f, T \cup {x}) = f[x] + SumFunctionOnSet(f, T)
  BY <1>1, <1>2, <1>3, SumExtend
<1> DEFINE sum == SumFunctionOnSet(f, T)
<1>5. SumFunctionOnSet(f, T \cup {x}) = f[x] + sum /\ sum \in Int
  BY <1>4
<1> HIDE DEF sum
<1>6. SumFunctionOnSet(f, T \cup {x}) = sum + f[x]
  BY <1>2, <1>5
<1>7. SumFunctionOnSet(f, 1 .. k + 1) = sum + f[x]
  BY <1>2, <1>6
<1> QED
  BY <1>5, <1>7 DEF sum, T, x

(* What is spent is no more than the amount, and no more than the room.       *)
LEMMA SpendFits ==
  ASSUME NEW n \in Nat, NEW room, DOMAIN room = 1 .. n, \A i \in 1 .. n : room[i] \in Nat,
         NEW amount \in Nat
  PROVE  /\ Spend(amount, room) \in [1 .. n -> Nat]
         /\ \A i \in 1 .. n : Spend(amount, room)[i] <= room[i]
         /\ Spent(Spend(amount, room)) \in Nat
         /\ Spent(Spend(amount, room)) <= amount
<1> DEFINE share == Spend(amount, room)
           B(k) == SumFunctionOnSet(room, 1 .. k)
           M == {k \in Nat : k <= n => /\ SumFunctionOnSet(share, 1 .. k) <= amount
                                       /\ SumFunctionOnSet(share, 1 .. k) = Smaller(amount, B(k))}
<1>1. \A k \in Nat : k <= n => B(k) \in Nat
  <2>1. SUFFICES ASSUME NEW k \in Nat, k <= n PROVE B(k) \in Nat
    OBVIOUS
  <2>2. IsFiniteSet(1 .. k)
    BY FS_Interval
  <2>3. \A i \in 1 .. k : room[i] \in Nat
    BY <2>1
  <2> QED
    BY <2>2, <2>3, SumNat
<1>2. ASSUME NEW i \in 1 .. n
      PROVE  share[i] = Smaller(room[i], Larger(0, amount - B(i - 1)))
  BY DEF Spend
<1>3. DOMAIN share = 1 .. n
  BY DEF Spend
<1>4. share = [i \in 1 .. n |-> share[i]]
  BY DEF Spend
<1> HIDE DEF share, B
<1>5. ASSUME NEW i \in 1 .. n PROVE share[i] \in Nat /\ share[i] <= room[i]
  <2>1. B(i - 1) \in Nat
    BY <1>1
  <2> QED
    BY <1>2, <2>1 DEF Smaller, Larger
<1>6. 0 \in M
  <2>1. 1 .. 0 = {}
    OBVIOUS
  <2>2. SumFunctionOnSet(share, 1 .. 0) = 0 /\ B(0) = 0
    BY <2>1, SumEmpty DEF B
  <2> QED
    BY <2>2 DEF Smaller
<1>7. ASSUME NEW k \in Nat, k \in M PROVE k + 1 \in M
  <2>1. SUFFICES ASSUME k + 1 <= n
                 PROVE  /\ SumFunctionOnSet(share, 1 .. k + 1) <= amount
                        /\ SumFunctionOnSet(share, 1 .. k + 1) = Smaller(amount, B(k + 1))
    OBVIOUS
  <2> DEFINE s == SumFunctionOnSet(share, 1 .. k)
             i == k + 1
  <2>2. SumFunctionOnSet(share, 1 .. k + 1) = s + share[i]
    <3>1. \A h \in 1 .. n : share[h] \in Int
      BY <1>5
    <3>2. k < n
      BY <2>1
    <3> QED
      BY <3>1, <3>2, SumNext
  <2>3. B(k + 1) = B(k) + room[i]
    <3>1. k < n
      BY <2>1
    <3> QED
      BY <3>1, SumNext DEF B
  <2>4. share[i] = Smaller(room[i], Larger(0, amount - B(k)))
    <3>1. i \in 1 .. n /\ i - 1 = k
      BY <2>1
    <3> QED
      BY <1>2, <3>1
  <2>5. s <= amount /\ s = Smaller(amount, B(k)) /\ B(k) \in Nat /\ room[i] \in Nat
    BY <1>1, <1>7, <2>1
  <2> HIDE DEF s, i
  <2>6. s + share[i] <= amount /\ s + share[i] = Smaller(amount, B(k) + room[i])
    BY <2>4, <2>5 DEF Smaller, Larger
  <2> QED
    BY <2>2, <2>3, <2>6
<1>8. n \in M
  <2> HIDE DEF M
  <2> QED
    BY <1>6, <1>7, EveryNumber
<1>9. Spent(share) <= amount
  BY <1>3, <1>8 DEF Spent
<1>10. Spent(share) \in Nat
  BY <1>3, <1>5, SumNat, FS_Interval DEF Spent
<1> QED
  BY <1>4, <1>5, <1>9, <1>10 DEF share

-----------------------------------------------------------------------------
(* The fee account of the shop. *)

USE LedgerAssumption

StatementRows == [status: {"none", "frozen", "settled"}, amount: Nat, paid: Nat,
                  due: {"unset", "ahead", "passed"}]
PaymentRows == [status: OpenStatuses \cup {"none", "expired", "paid"},
                amount: Nat, unallocated: Nat, old: BOOLEAN]

(* A line of a statement is of an entry there is.                             *)
LinesOfPosted == \A e \in Entries : posted[e] = 0 => line[e] = 0

(* Orders are created one after another, for an amount.                       *)
OrdersNumbered ==
  \E n \in 0 .. MaxOrders : \A o \in FeeOrders : pay[o].status # "none" <=> o <= n
OrdersPriced == \A o \in FeeOrders : pay[o].status # "none" <=> pay[o].amount # 0

(* Nothing is spent of a payment that was not credited, ...                   *)
NothingPrepaid ==
  \A o \in FeeOrders : pay[o].status # "paid" =>
    pay[o].unallocated = 0 /\ \A w \in Weeks : alloc[o][w] = 0

(* ... and each is credited once.                                             *)
OnceEach(list) == \A i, k \in DOMAIN list : list[i] = list[k] => i = k
CreditsOnce ==
  /\ OnceEach(credits)
  /\ \A o \in FeeOrders : pay[o].status = "paid" <=> \E i \in DOMAIN credits : credits[i] = o

(* No statement got more than it asks for, and none before it was frozen.     *)
NoneOverpaid == \A w \in Weeks : stmt[w].paid <= stmt[w].amount
BlankIsUnpaid == \A w \in Weeks : stmt[w].status = "none" => stmt[w].paid = 0

(* The statement a freeze is about to write is not there; it spends the       *)
(* payments it read once each.                                                *)
FreezeWaits ==
  freeze # None => week > 0 /\ stmt[week].status = "none" /\ OnceEach(freeze.prepaid)

(* The provider has payments of orders it was told of.                        *)
CapturedWereAsked == \A o \in captured : pay[o].status # "none"

BookRows ==
  /\ LinesOfPosted /\ OrdersNumbered /\ OrdersPriced /\ NothingPrepaid /\ CreditsOnce
  /\ NoneOverpaid /\ BlankIsUnpaid /\ AllocationsAddUp

LedgerInvariant == TypeOK /\ BookRows /\ CapturedWereAsked /\ FreezeWaits

-----------------------------------------------------------------------------
(* The balance, put together. *)
Owed == [w \in Weeks |-> IF stmt[w].status = "none" THEN 0 ELSE Outstanding(w)]
Prepaid == [o \in FeeOrders |-> pay[o].unallocated]
Charged == {j \in Prints : posted[<<"print", j>>] # 0}
Reversed == {j \in Prints : posted[<<"refund", j>>] # 0}
Credited == {credits[i] : i \in DOMAIN credits}
Price == [o \in FeeOrders |-> pay[o].amount]
account == <<AccountBalance, Charged, Reversed, Price, Credited>>

LEMMA BookSets ==
  /\ IsFiniteSet(Entries) /\ IsFiniteSet(Weeks) /\ IsFiniteSet(FeeOrders)
  /\ \A e \in Entries : Amount[e] \in Int
  /\ \A T \in SUBSET Entries : Total(T) \in Int
<1>1. IsFiniteSet({"print", "refund"})
  <2>1. IsFiniteSet({"print"})
    BY FS_Singleton
  <2>2. IsFiniteSet({"print"} \cup {"refund"})
    BY <2>1, FS_AddElement
  <2>3. {"print", "refund"} = {"print"} \cup {"refund"}
    OBVIOUS
  <2> QED
    BY <2>2, <2>3
<1>2. IsFiniteSet(Entries) /\ IsFiniteSet(Weeks) /\ IsFiniteSet(FeeOrders)
  <2>1. IsFiniteSet(Prints) /\ MaxWeeks \in Nat /\ MaxOrders \in Nat
    BY DEF LedgerAssumption
  <2>2. IsFiniteSet({"print", "refund"} \X Prints)
    BY <1>1, <2>1, FS_Product
  <2>3. IsFiniteSet(1 .. MaxWeeks) /\ IsFiniteSet(1 .. MaxOrders)
    BY <2>1, FS_Interval
  <2> QED
    BY <2>2, <2>3 DEF Entries, Weeks, FeeOrders
<1>3. \A e \in Entries : Amount[e] \in Int
  BY DEF LedgerAssumption, Entries, Amount
<1>4. ASSUME NEW T \in SUBSET Entries PROVE Total(T) \in Int
  <2>1. IsFiniteSet(T) /\ \A e \in T : Amount[e] \in Int
    BY <1>2, <1>3, FS_Subset
  <2> QED
    BY <2>1, SumInt DEF Total
<1> QED
  BY <1>2, <1>3, <1>4

LEMMA BalanceParts ==
  ASSUME TypeOK
  PROVE  /\ AccountBalance = Total(Unstatemented) - Unallocated + SumFunctionOnSet(Owed, Weeks)
         /\ Total(Unstatemented) \in Int /\ Unallocated \in Int
         /\ SumFunctionOnSet(Owed, Weeks) \in Int
         /\ Unallocated = SumFunctionOnSet(Prepaid, FeeOrders)
         /\ \A w \in Weeks : Owed[w] \in Int
         /\ \A o \in FeeOrders : Prepaid[o] \in Nat
<1>1. \A w \in Weeks : Owed[w] \in Int
  BY DEF TypeOK, Owed, Outstanding
<1>2. \A o \in FeeOrders : Prepaid[o] \in Nat
  BY DEF TypeOK, Prepaid
<1>3. SumFunctionOnSet(Owed, Weeks) \in Int /\ SumFunctionOnSet(Prepaid, FeeOrders) \in Int
  BY <1>1, <1>2, BookSets, SumInt
<1>4. Unstatemented \in SUBSET Entries
  BY DEF Unstatemented, Posted
<1>5. Unallocated = SumFunctionOnSet(Prepaid, FeeOrders)
  BY DEF Unallocated, Prepaid
<1>6. AccountBalance = Total(Unstatemented) - Unallocated + SumFunctionOnSet(Owed, Weeks)
  BY DEF AccountBalance, Owed
<1> QED
  BY <1>1, <1>2, <1>3, <1>4, <1>5, <1>6, BookSets

(* A step that leaves the amounts alone, and makes no payment paid or unpaid, *)
(* leaves the books as they are.                                              *)
SameRows ==
  /\ posted' = posted /\ line' = line /\ credits' = credits /\ alloc' = alloc
  /\ \A o \in FeeOrders :
       /\ pay'[o].amount = pay[o].amount /\ pay'[o].unallocated = pay[o].unallocated
       /\ pay'[o].status = "none" <=> pay[o].status = "none"
       /\ pay'[o].status = "paid" <=> pay[o].status = "paid"
  /\ \A w \in Weeks :
       /\ stmt'[w].amount = stmt[w].amount /\ stmt'[w].paid = stmt[w].paid
       /\ stmt'[w].status = stmt[w].status

LEMMA SameRowsKeep ==
  ASSUME BookRows, SameRows PROVE BookRows' /\ account' = account
<1> USE DEF SameRows
<1>1. LinesOfPosted' /\ CreditsOnce' /\ NoneOverpaid' /\ BlankIsUnpaid' /\ OrdersPriced'
  BY DEF BookRows, LinesOfPosted, CreditsOnce, OnceEach, NoneOverpaid, BlankIsUnpaid, OrdersPriced
<1>2. OrdersNumbered'
  BY DEF BookRows, OrdersNumbered
<1>3. NothingPrepaid'
  BY DEF BookRows, NothingPrepaid
<1>4. AllocationsAddUp'
  BY DEF BookRows, AllocationsAddUp
<1>5. Owed' = Owed
  BY DEF Owed, Outstanding
<1>6. Prepaid' = Prepaid /\ Price' = Price
  BY DEF Prepaid, Price
<1>7. Charged' = Charged /\ Reversed' = Reversed /\ Credited' = Credited
  BY DEF Charged, Reversed, Credited
<1>8. Unstatemented' = Unstatemented
  BY DEF Unstatemented, Posted
<1>9. AccountBalance' = AccountBalance
  BY <1>5, <1>6, <1>8 DEF AccountBalance, Owed, Unallocated, Prepaid, Total
<1> QED
  BY <1>1, <1>2, <1>3, <1>4, <1>6, <1>7, <1>9 DEF BookRows, account

-----------------------------------------------------------------------------
(* Steps that do not touch the amounts. *)

(* An evaluation of the block leaves a freeze what it has read.               *)
SameFreeze ==
  \/ /\ freeze = None
     /\ freeze' = None
  \/ /\ freeze # None
     /\ freeze' \in [prepaid: Seq(FeeOrders), fails: BOOLEAN]
     /\ freeze'.prepaid = freeze.prepaid

LEMMA EvaluatedTypes ==
  ASSUME TypeOK, NEW ss, Evaluated(ss)
  PROVE  /\ shop' \in [blocked: BOOLEAN, override: BOOLEAN, lifts: 0 .. MaxLifts]
         /\ SameFreeze
<1>1. ShouldBlock(ss, shop.override) \in BOOLEAN
  BY DEF ShouldBlock
<1>2. shop \in [blocked: BOOLEAN, override: BOOLEAN, lifts: 0 .. MaxLifts]
  BY DEF TypeOK
<1>3. shop' = [shop EXCEPT !.blocked = ShouldBlock(ss, shop.override)]
  BY DEF Evaluated
<1> DEFINE b == ShouldBlock(ss, shop.override)
<1> HIDE DEF b
<1>4. shop' \in [blocked: BOOLEAN, override: BOOLEAN, lifts: 0 .. MaxLifts]
  BY <1>1, <1>2, <1>3 DEF b
<1>5. freeze \in {None} \cup [prepaid: Seq(FeeOrders), fails: BOOLEAN]
  BY DEF TypeOK
<1>6. \/ freeze' = freeze
      \/ freeze # None /\ freeze' = [freeze EXCEPT !.fails = TRUE]
  BY DEF Evaluated
<1>7. SameFreeze
  <2>1. CASE freeze = None
    BY <1>6, <2>1 DEF SameFreeze
  <2>2. CASE freeze # None
    <3>1. freeze \in [prepaid: Seq(FeeOrders), fails: BOOLEAN]
      BY <1>5, <2>2
    <3>2. /\ [freeze EXCEPT !.fails = TRUE] \in [prepaid: Seq(FeeOrders), fails: BOOLEAN]
          /\ [freeze EXCEPT !.fails = TRUE].prepaid = freeze.prepaid
      BY <3>1
    <3>3. freeze' \in {freeze, [freeze EXCEPT !.fails = TRUE]}
      BY <1>6
    <3>4. /\ freeze' \in [prepaid: Seq(FeeOrders), fails: BOOLEAN]
          /\ freeze'.prepaid = freeze.prepaid
      BY <3>1, <3>2, <3>3
    <3> QED
      BY <2>2, <3>4 DEF SameFreeze
  <2> QED
    BY <2>1, <2>2
<1> QED
  BY <1>4, <1>7

LEMMA SameFreezeKeeps ==
  ASSUME TypeOK, FreezeWaits, SameFreeze, week' = week,
         \A w \in Weeks : stmt[w].status = "none" => stmt'[w].status = "none"
  PROVE  /\ freeze' \in {None} \cup [prepaid: Seq(FeeOrders), fails: BOOLEAN]
         /\ FreezeWaits'
<1>1. freeze' \in {None} \cup [prepaid: Seq(FeeOrders), fails: BOOLEAN]
  BY DEF SameFreeze
<1>2. ASSUME freeze' # None
      PROVE  week' > 0 /\ stmt'[week'].status = "none" /\ OnceEach(freeze'.prepaid)
  <2>1. freeze # None /\ freeze'.prepaid = freeze.prepaid
    BY <1>2 DEF SameFreeze
  <2>2. week > 0 /\ stmt[week].status = "none" /\ OnceEach(freeze.prepaid)
    BY <2>1 DEF FreezeWaits
  <2>3. week \in Weeks
    BY <2>2 DEF TypeOK, Weeks
  <2> QED
    BY <2>1, <2>2, <2>3
<1> QED
  BY <1>1, <1>2 DEF FreezeWaits

(* ... nor do steps while no freeze is under way concern one.                 *)
IdleSteps ==
  /\ freeze = None
  /\ \/ WeekEnds \/ BeginFreeze
     \/ \E w \in Weeks : DueDatePasses(w)
     \/ \E o \in FeeOrders : Capture(o) \/ MarkFailed(o) \/ ExpireOrder(o) \/ GrowsOld(o)
     \/ AdoptStatements \/ OverrideEnds \/ SwitchFees
QuietSteps == EvaluateBlock \/ LiftBlock \/ NothingFrozen \/ IdleSteps

LEMMA PaymentTouched ==
  ASSUME TypeOK, NEW o \in FeeOrders, pay[o].status \notin {"none", "paid"},
         \/ \E s \in {"failed", "expired"} : pay' = [pay EXCEPT ![o].status = s]
         \/ pay' = [pay EXCEPT ![o].old = TRUE],
         UNCHANGED <<posted, line, credits, alloc, stmt>>
  PROVE  SameRows /\ pay' \in [FeeOrders -> PaymentRows]
<1>1. pay \in [FeeOrders -> PaymentRows]
  BY DEF TypeOK, PaymentRows
<1>2. pay' \in [FeeOrders -> PaymentRows]
  BY <1>1 DEF PaymentRows, OpenStatuses
<1>3. \A p \in FeeOrders :
        /\ pay'[p].amount = pay[p].amount /\ pay'[p].unallocated = pay[p].unallocated
        /\ pay'[p].status = "none" <=> pay[p].status = "none"
        /\ pay'[p].status = "paid" <=> pay[p].status = "paid"
  BY <1>1 DEF PaymentRows
<1> QED
  BY <1>2, <1>3 DEF SameRows

LEMMA QuietStepsTouch ==
  ASSUME TypeOK, FreezeWaits, CreditsOnce, QuietSteps
  PROVE  /\ SameRows /\ TypeOK' /\ FreezeWaits'
         /\ captured' \in {captured} \cup {captured \cup {o} : o \in {p \in FeeOrders : pay[p].status # "none"}}
<1> USE DEF books
<1>1. UNCHANGED books => SameRows
  BY DEF SameRows
<1>2. /\ pay \in [FeeOrders -> PaymentRows] /\ stmt \in [Weeks -> StatementRows]
      /\ week \in 0 .. MaxWeeks /\ MaxWeeks \in Nat /\ MaxLifts \in Nat /\ MaxSwitches \in Nat
  BY DEF TypeOK, PaymentRows, StatementRows, LedgerAssumption
<1>3. CASE EvaluateBlock
  <2>1. UNCHANGED <<books, captured, week, enabled, switches>> /\ Evaluated(stmt)
    BY <1>3 DEF EvaluateBlock
  <2>2. SameFreeze /\ shop' \in [blocked: BOOLEAN, override: BOOLEAN, lifts: 0 .. MaxLifts]
    BY <2>1, EvaluatedTypes
  <2>3. FreezeWaits' /\ freeze' \in {None} \cup [prepaid: Seq(FeeOrders), fails: BOOLEAN]
    BY <2>1, <2>2, SameFreezeKeeps
  <2> QED
    BY <1>1, <2>1, <2>2, <2>3 DEF TypeOK
<1>4. CASE LiftBlock
  <2>1. UNCHANGED <<books, captured, week, enabled, switches>>
    BY <1>4 DEF LiftBlock
  <2>2. shop' \in [blocked: BOOLEAN, override: BOOLEAN, lifts: 0 .. MaxLifts]
    BY <1>2, <1>4 DEF LiftBlock, TypeOK
  <2>3. SameFreeze
    BY <1>4 DEF LiftBlock, TypeOK, SameFreeze
  <2>4. FreezeWaits' /\ freeze' \in {None} \cup [prepaid: Seq(FeeOrders), fails: BOOLEAN]
    BY <2>1, <2>3, SameFreezeKeeps
  <2> QED
    BY <1>1, <2>1, <2>2, <2>4 DEF TypeOK
<1>5. CASE NothingFrozen
  BY <1>1, <1>5 DEF NothingFrozen, TypeOK, FreezeWaits
<1>6. CASE WeekEnds /\ freeze = None
  BY <1>1, <1>2, <1>6 DEF WeekEnds, TypeOK, FreezeWaits
<1>7. CASE BeginFreeze
  <2>1. UNCHANGED <<books, captured, shop, week, enabled, switches>>
    BY <1>7 DEF BeginFreeze
  <2>2. freeze' = [prepaid |-> credits, fails |-> FALSE] /\ week > 0 /\ stmt[week].status = "none"
    BY <1>7 DEF BeginFreeze
  <2>3. freeze' \in [prepaid: Seq(FeeOrders), fails: BOOLEAN] /\ freeze'.prepaid = credits
    BY <2>2 DEF TypeOK
  <2>4. FreezeWaits'
    BY <2>1, <2>2, <2>3 DEF FreezeWaits, CreditsOnce
  <2> QED
    BY <1>1, <2>1, <2>3, <2>4 DEF TypeOK
<1>8. ASSUME NEW w \in Weeks, DueDatePasses(w), freeze = None
      PROVE  SameRows /\ TypeOK' /\ FreezeWaits' /\ captured' = captured
  <2>1. /\ stmt' = [stmt EXCEPT ![w].due = "passed"]
        /\ UNCHANGED <<posted, line, pay, credits, alloc, captured, shop, week, freeze,
                       enabled, switches>>
    BY <1>8 DEF DueDatePasses
  <2>2. stmt' \in [Weeks -> StatementRows]
    BY <1>2, <2>1 DEF StatementRows
  <2>3. \A v \in Weeks : /\ stmt'[v].amount = stmt[v].amount /\ stmt'[v].paid = stmt[v].paid
                         /\ stmt'[v].status = stmt[v].status
    BY <1>2, <2>1 DEF StatementRows
  <2> QED
    BY <1>8, <2>1, <2>2, <2>3 DEF SameRows, TypeOK, FreezeWaits, StatementRows
<1>9. CASE AdoptStatements /\ freeze = None
  <2>1. /\ stmt' = [w \in Weeks |-> IF Owing(w) /\ stmt[w].due = "unset"
                                    THEN [stmt[w] EXCEPT !.due = "ahead"] ELSE stmt[w]]
        /\ UNCHANGED <<posted, line, pay, credits, alloc, captured, shop, week, freeze,
                       enabled, switches>>
    BY <1>9 DEF AdoptStatements
  <2>2. stmt' \in [Weeks -> StatementRows]
    BY <1>2, <2>1 DEF StatementRows
  <2>3. \A v \in Weeks : /\ stmt'[v].amount = stmt[v].amount /\ stmt'[v].paid = stmt[v].paid
                         /\ stmt'[v].status = stmt[v].status
    BY <1>2, <2>1 DEF StatementRows
  <2> QED
    BY <1>9, <2>1, <2>2, <2>3 DEF SameRows, TypeOK, FreezeWaits, StatementRows
<1>10. CASE OverrideEnds /\ freeze = None
  BY <1>1, <1>10 DEF OverrideEnds, TypeOK, FreezeWaits
<1>11. CASE SwitchFees /\ freeze = None
  BY <1>1, <1>2, <1>11 DEF SwitchFees, TypeOK, FreezeWaits
<1>12. ASSUME NEW o \in FeeOrders, Capture(o), freeze = None
       PROVE  /\ SameRows /\ TypeOK' /\ FreezeWaits'
              /\ captured' = captured \cup {o} /\ pay[o].status # "none"
  BY <1>1, <1>12 DEF Capture, TypeOK, FreezeWaits
<1>13. ASSUME NEW o \in FeeOrders, MarkFailed(o) \/ ExpireOrder(o) \/ GrowsOld(o), freeze = None
       PROVE  SameRows /\ TypeOK' /\ FreezeWaits' /\ captured' = captured
  <2>1. /\ pay[o].status \notin {"none", "paid"}
        /\ \/ \E s \in {"failed", "expired"} : pay' = [pay EXCEPT ![o].status = s]
           \/ pay' = [pay EXCEPT ![o].old = TRUE]
        /\ UNCHANGED <<posted, line, stmt, credits, alloc, captured, shop, week, freeze,
                       enabled, switches>>
    BY <1>13 DEF MarkFailed, ExpireOrder, GrowsOld, OpenStatuses
  <2>2. SameRows /\ pay' \in [FeeOrders -> PaymentRows]
    BY <2>1, PaymentTouched
  <2> QED
    BY <1>13, <2>1, <2>2 DEF TypeOK, FreezeWaits, PaymentRows
<1>14. /\ EvaluateBlock \/ LiftBlock \/ NothingFrozen => captured' = captured
       /\ WeekEnds \/ BeginFreeze \/ AdoptStatements \/ OverrideEnds \/ SwitchFees =>
            captured' = captured
  BY DEF EvaluateBlock, LiftBlock, NothingFrozen, WeekEnds, BeginFreeze, AdoptStatements,
     OverrideEnds, SwitchFees
<1> QED
  BY <1>3, <1>4, <1>5, <1>6, <1>7, <1>8, <1>9, <1>10, <1>11, <1>12, <1>13, <1>14
     DEF QuietSteps, IdleSteps

-----------------------------------------------------------------------------
(* Commission. *)

(* An entry that was not there yet is on no statement: the balance moves by   *)
(* its amount.                                                                *)
EntryPosted(e) ==
  /\ posted[e] = 0
  /\ posted' = [posted EXCEPT ![e] = week + 1]
  /\ UNCHANGED <<line, stmt, pay, credits, alloc, captured, shop, week, freeze,
                 enabled, switches>>

LEMMA PostedKeeps ==
  ASSUME LedgerInvariant, NEW e \in Entries, EntryPosted(e), freeze = None
  PROVE  /\ LedgerInvariant'
         /\ AccountBalance' = AccountBalance + Amount[e]
         /\ \A d \in Entries : posted'[d] # 0 <=> posted[d] # 0 \/ d = e
         /\ Price' = Price /\ Credited' = Credited
<1> USE DEF EntryPosted
<1>1. /\ posted \in [Entries -> 0 .. MaxWeeks + 1] /\ week \in 0 .. MaxWeeks /\ MaxWeeks \in Nat
      /\ TypeOK /\ BookRows
  BY DEF LedgerInvariant, TypeOK, LedgerAssumption
<1>2. TypeOK'
  <2>1. posted' \in [Entries -> 0 .. MaxWeeks + 1]
    BY <1>1
  <2> QED
    BY <1>1, <2>1 DEF TypeOK
<1>3. \A d \in Entries : posted'[d] # 0 <=> posted[d] # 0 \/ d = e
  BY <1>1
<1>4. LinesOfPosted'
  BY <1>1, <1>3 DEF BookRows, LinesOfPosted
<1>5. /\ OrdersNumbered' /\ OrdersPriced' /\ NothingPrepaid' /\ CreditsOnce'
      /\ NoneOverpaid' /\ BlankIsUnpaid' /\ AllocationsAddUp' /\ FreezeWaits'
      /\ CapturedWereAsked'
  BY <1>1 DEF LedgerInvariant, CapturedWereAsked, BookRows, OrdersNumbered, OrdersPriced, NothingPrepaid, CreditsOnce, OnceEach,
     NoneOverpaid, BlankIsUnpaid, AllocationsAddUp, FreezeWaits
<1>6. /\ Unstatemented \in SUBSET Entries /\ e \in Entries \ Unstatemented
      /\ Unstatemented' = Unstatemented \cup {e}
  BY <1>1, <1>3 DEF Unstatemented, Posted, BookRows, LinesOfPosted
<1>7. Total(Unstatemented') = Amount[e] + Total(Unstatemented)
  BY <1>6, BookSets, SumExtend DEF Total
<1>8. AccountBalance' = Total(Unstatemented') - Unallocated + SumFunctionOnSet(Owed, Weeks)
  BY DEF AccountBalance, Owed, Outstanding, Unallocated, Total
<1>9. AccountBalance' = AccountBalance + Amount[e]
  <2> DEFINE t == Total(Unstatemented)
             a == Amount[e]
             s == SumFunctionOnSet(Owed, Weeks)
  <2>1. /\ AccountBalance = t - Unallocated + s
        /\ t \in Int /\ Unallocated \in Int /\ s \in Int /\ a \in Int
    BY <1>1, BalanceParts, BookSets
  <2>2. AccountBalance' = (a + t) - Unallocated + s
    BY <1>7, <1>8
  <2> HIDE DEF t, a, s
  <2>3. AccountBalance' = AccountBalance + a
    BY <2>1, <2>2
  <2> QED
    BY <2>3 DEF a
<1> QED
  BY <1>2, <1>3, <1>4, <1>5, <1>9 DEF LedgerInvariant, BookRows, Price, Credited

LEMMA PostCommissionKeeps ==
  ASSUME LedgerInvariant, freeze = None, NEW j \in Prints, PostCommission(j)
  PROVE  /\ LedgerInvariant'
         /\ j \in Prints \ Charged /\ Charged' = Charged \cup {j}
         /\ AccountBalance' = AccountBalance + Commission[j]
         /\ Reversed' = Reversed /\ Price' = Price /\ Credited' = Credited
<1> DEFINE e == <<"print", j>>
<1>1. e \in Entries /\ EntryPosted(e)
  BY DEF PostCommission, EntryPosted, Entries
<1>2. Amount[e] = Commission[j]
  BY DEF Amount, Entries
<1>3. \A k \in Prints : /\ <<"print", k>> = e <=> k = j
                        /\ <<"refund", k>> # e
                        /\ <<"print", k>> \in Entries /\ <<"refund", k>> \in Entries
  BY DEF Entries
<1>4. posted[e] = 0
  BY DEF PostCommission
<1> HIDE DEF e
<1>5. /\ LedgerInvariant' /\ AccountBalance' = AccountBalance + Amount[e]
      /\ \A d \in Entries : posted'[d] # 0 <=> posted[d] # 0 \/ d = e
      /\ Price' = Price /\ Credited' = Credited
  BY <1>1, PostedKeeps
<1>6. \A k \in Prints : /\ posted'[<<"print", k>>] # 0 <=> posted[<<"print", k>>] # 0 \/ k = j
                        /\ posted'[<<"refund", k>>] # 0 <=> posted[<<"refund", k>>] # 0
  BY <1>3, <1>5
<1>7. j \in Prints \ Charged
  BY <1>4 DEF Charged, e
<1>8. Charged' = Charged \cup {j}
  BY <1>6 DEF Charged
<1>9. Reversed' = Reversed
  BY <1>6 DEF Reversed
<1> QED
  BY <1>2, <1>5, <1>7, <1>8, <1>9

LEMMA RefundKeeps ==
  ASSUME LedgerInvariant, freeze = None, NEW j \in Prints, ConfirmCounterRefund(j)
  PROVE  /\ LedgerInvariant'
         /\ j \in Charged \ Reversed /\ Reversed' = Reversed \cup {j}
         /\ AccountBalance' = AccountBalance - Commission[j]
         /\ Charged' = Charged /\ Price' = Price /\ Credited' = Credited
<1> DEFINE e == <<"refund", j>>
<1>1. e \in Entries /\ EntryPosted(e)
  BY DEF ConfirmCounterRefund, EntryPosted, Entries
<1>2. Amount[e] = -Commission[j] /\ Commission[j] \in Nat
  BY DEF Amount, Entries, LedgerAssumption
<1>3. \A k \in Prints : /\ <<"refund", k>> = e <=> k = j
                        /\ <<"print", k>> # e
                        /\ <<"print", k>> \in Entries /\ <<"refund", k>> \in Entries
  BY DEF Entries
<1>4. posted[e] = 0 /\ posted[<<"print", j>>] # 0
  BY DEF ConfirmCounterRefund
<1>5. AccountBalance \in Int
  BY BalanceParts DEF LedgerInvariant
<1>6. j \in Charged \ Reversed
  BY <1>4 DEF Charged, Reversed
<1> HIDE DEF e
<1>7. /\ LedgerInvariant' /\ AccountBalance' = AccountBalance + Amount[e]
      /\ \A d \in Entries : posted'[d] # 0 <=> posted[d] # 0 \/ d = e
      /\ Price' = Price /\ Credited' = Credited
  BY <1>1, PostedKeeps
<1>8. \A k \in Prints : /\ posted'[<<"refund", k>>] # 0 <=> posted[<<"refund", k>>] # 0 \/ k = j
                        /\ posted'[<<"print", k>>] # 0 <=> posted[<<"print", k>>] # 0
  BY <1>3, <1>7
<1>9. AccountBalance' = AccountBalance - Commission[j]
  BY <1>2, <1>5, <1>7
<1>10. Reversed' = Reversed \cup {j}
  BY <1>8 DEF Reversed
<1>11. Charged' = Charged
  BY <1>8 DEF Charged
<1> QED
  BY <1>6, <1>7, <1>9, <1>10, <1>11

-----------------------------------------------------------------------------
(* Orders. *)

(* The next order is the first one that was not created.                      *)
LEMMA NextOrderIsBlank ==
  ASSUME TypeOK, NEW n \in 0 .. MaxOrders,
         \A o \in FeeOrders : pay[o].status # "none" <=> o <= n
  PROVE  NextOrder = n + 1
<1>1. MaxOrders \in Nat
  BY DEF LedgerAssumption
<1>2. {o \in FeeOrders : pay[o].status # "none"} = 1 .. n
  BY <1>1 DEF FeeOrders
<1>3. Cardinality(1 .. n) = n
  <2>1. n \in Nat /\ n - 1 + 1 = n /\ (1 > n <=> n = 0)
    BY <1>1
  <2>2. Cardinality(1 .. n) = IF 1 > n THEN 0 ELSE n - 1 + 1
    BY <2>1, FS_Interval
  <2> QED
    BY <2>1, <2>2
<1>4. NextOrder = 1 + Cardinality(1 .. n)
  BY <1>2 DEF NextOrder
<1> QED
  BY <1>3, <1>4

LEMMA TotalDueInt ==
  ASSUME TypeOK PROVE TotalDue \in Int
<1>1. \A w \in Weeks : StatementRoom[w] \in Int
  BY DEF StatementRoom, TypeOK, Outstanding
<1>2. SumFunctionOnSet(StatementRoom, Weeks) \in Int
  BY <1>1, BookSets, SumInt
<1>3. Larger(0, Total(Unstatemented) - Unallocated) \in Int
  BY BalanceParts DEF Larger
<1> QED
  BY <1>2, <1>3 DEF TotalDue

LEMMA CreateKeeps ==
  ASSUME LedgerInvariant, freeze = None, CreateFeeOrder
  PROVE  /\ LedgerInvariant'
         /\ NextOrder \in FeeOrders
         /\ Price[NextOrder] = 0 /\ TotalDue \in Nat \ {0}
         /\ Price' = [Price EXCEPT ![NextOrder] = TotalDue]
         /\ AccountBalance' = AccountBalance
         /\ Charged' = Charged /\ Reversed' = Reversed /\ Credited' = Credited
<1> DEFINE x == NextOrder
           due == TotalDue
<1>1. /\ TypeOK /\ BookRows /\ FreezeWaits
      /\ pay \in [FeeOrders -> PaymentRows] /\ MaxOrders \in Nat
  BY DEF LedgerInvariant, TypeOK, PaymentRows, LedgerAssumption
<1>2. /\ x \in FeeOrders /\ due \in Nat \ {0}
      /\ UNCHANGED <<posted, line, stmt, credits, alloc, captured, shop, week, freeze,
                     enabled, switches>>
  BY <1>1, TotalDueInt DEF CreateFeeOrder
<1>3. PICK n \in 0 .. MaxOrders : \A o \in FeeOrders : pay[o].status # "none" <=> o <= n
  BY <1>1 DEF BookRows, OrdersNumbered
<1>4. x = n + 1
  BY <1>1, <1>3, NextOrderIsBlank
<1>5. /\ pay[x].status = "none" /\ pay[x].amount = 0 /\ pay[x].unallocated = 0
  <2>1. n \in Int /\ ~(n + 1 <= n)
    OBVIOUS
  <2>2. pay[x].status = "none"
    BY <1>2, <1>3, <1>4, <2>1
  <2> QED
    BY <1>1, <1>2, <2>2 DEF BookRows, OrdersPriced, NothingPrepaid
<1>6. pay' = [o \in FeeOrders |->
        IF o = x THEN [NoOrder EXCEPT !.status = "created", !.amount = due]
        ELSE IF pay[o].status \in OpenStatuses THEN [pay[o] EXCEPT !.status = "expired"]
        ELSE pay[o]]
  BY DEF CreateFeeOrder
<1> HIDE DEF x, due
<1>7. pay' \in [FeeOrders -> PaymentRows]
  BY <1>1, <1>2, <1>6 DEF PaymentRows, NoOrder, OpenStatuses
<1>8. /\ pay'[x].status = "created" /\ pay'[x].amount = due /\ pay'[x].unallocated = 0
      /\ \A o \in FeeOrders \ {x} :
           /\ pay'[o].amount = pay[o].amount /\ pay'[o].unallocated = pay[o].unallocated
           /\ pay'[o].status = "none" <=> pay[o].status = "none"
           /\ pay'[o].status = "paid" <=> pay[o].status = "paid"
  BY <1>1, <1>2, <1>6 DEF PaymentRows, NoOrder, OpenStatuses
<1>9. TypeOK' /\ FreezeWaits'
  BY <1>1, <1>2, <1>7 DEF TypeOK, FreezeWaits, PaymentRows
<1>10. OrdersNumbered'
  <2>1. n + 1 \in 0 .. MaxOrders
    BY <1>1, <1>2, <1>4 DEF FeeOrders
  <2>2. \A o \in FeeOrders : pay'[o].status # "none" <=> o <= n + 1
    BY <1>1, <1>3, <1>4, <1>8 DEF FeeOrders
  <2> QED
    BY <2>1, <2>2 DEF OrdersNumbered
<1>11. OrdersPriced'
  BY <1>1, <1>2, <1>8 DEF BookRows, OrdersPriced
<1>12. \A o \in FeeOrders : pay'[o].status = "paid" <=> pay[o].status = "paid"
  BY <1>5, <1>8
<1>13. NothingPrepaid' /\ CreditsOnce'
  BY <1>1, <1>2, <1>5, <1>8, <1>12 DEF BookRows, NothingPrepaid, CreditsOnce, OnceEach
<1>14. AllocationsAddUp'
  <2>1. \A o \in FeeOrders : pay'[o].status = "paid" =>
          SumFunctionOnSet(alloc'[o], Weeks) + pay'[o].unallocated = pay'[o].amount
    BY <1>1, <1>2, <1>5, <1>8, <1>12 DEF BookRows, AllocationsAddUp
  <2>2. \A w \in Weeks :
          SumFunctionOnSet([o \in FeeOrders |-> alloc'[o][w]], FeeOrders) = stmt'[w].paid
    BY <1>1, <1>2 DEF BookRows, AllocationsAddUp
  <2> QED
    BY <2>1, <2>2 DEF AllocationsAddUp
<1>15. LinesOfPosted' /\ NoneOverpaid' /\ BlankIsUnpaid'
  BY <1>1, <1>2 DEF BookRows, LinesOfPosted, NoneOverpaid, BlankIsUnpaid
<1>16. Prepaid' = Prepaid /\ CapturedWereAsked'
  BY <1>1, <1>2, <1>5, <1>8 DEF Prepaid, LedgerInvariant, CapturedWereAsked, TypeOK
<1>17. AccountBalance' = AccountBalance
  BY <1>2, <1>16 DEF AccountBalance, Outstanding, Unallocated, Prepaid, Total,
     Unstatemented, Posted
<1>18. Price' = [Price EXCEPT ![x] = due] /\ Price[x] = 0
  BY <1>2, <1>5, <1>8 DEF Price
<1> QED
  BY <1>2, <1>9, <1>10, <1>11, <1>13, <1>14, <1>15, <1>16, <1>17, <1>18
     DEF LedgerInvariant, BookRows, Charged, Reversed, Credited, x, due

-----------------------------------------------------------------------------
(* A payment is credited. *)

LEMMA RoomIsNat ==
  ASSUME TypeOK, NoneOverpaid
  PROVE  /\ DOMAIN StatementRoom = Weeks
         /\ \A w \in Weeks : StatementRoom[w] \in Nat
         /\ \A w \in Weeks : StatementRoom[w] # 0 =>
              Owing(w) /\ StatementRoom[w] = stmt[w].amount - stmt[w].paid
BY DEF TypeOK, NoneOverpaid, StatementRoom, Owing, Outstanding

LEMMA SettledShare ==
  ASSUME LedgerInvariant, NEW o \in FeeOrders
  PROVE  LET share == Spend(pay[o].amount, StatementRoom)
         IN  /\ share \in [Weeks -> Nat]
             /\ Spent(share) = SumFunctionOnSet(share, Weeks)
             /\ Spent(share) \in Nat /\ Spent(share) <= pay[o].amount
             /\ \A w \in Weeks : share[w] # 0 =>
                  Owing(w) /\ share[w] <= stmt[w].amount - stmt[w].paid
<1> DEFINE share == Spend(pay[o].amount, StatementRoom)
           room == StatementRoom
           amount == pay[o].amount
<1>1. /\ TypeOK /\ NoneOverpaid /\ MaxWeeks \in Nat /\ amount \in Nat
  BY DEF LedgerInvariant, BookRows, TypeOK, LedgerAssumption
<1>2. /\ DOMAIN room = 1 .. MaxWeeks /\ \A w \in 1 .. MaxWeeks : room[w] \in Nat
      /\ \A w \in 1 .. MaxWeeks : room[w] # 0 => Owing(w) /\ room[w] = stmt[w].amount - stmt[w].paid
  BY <1>1, RoomIsNat DEF Weeks
<1> HIDE DEF room, amount
<1>3. /\ Spend(amount, room) \in [1 .. MaxWeeks -> Nat]
      /\ \A w \in 1 .. MaxWeeks : Spend(amount, room)[w] <= room[w]
      /\ Spent(Spend(amount, room)) \in Nat
      /\ Spent(Spend(amount, room)) <= amount
  BY <1>1, <1>2, SpendFits
<1>4. share = Spend(amount, room)
  BY DEF amount, room
<1> HIDE DEF share
<1>5. \A w \in Weeks : share[w] # 0 => Owing(w) /\ share[w] <= stmt[w].amount - stmt[w].paid
  <2>1. SUFFICES ASSUME NEW w \in 1 .. MaxWeeks, share[w] # 0
                 PROVE  Owing(w) /\ share[w] <= stmt[w].amount - stmt[w].paid
    BY DEF Weeks
  <2>2. share[w] \in Nat /\ share[w] <= room[w] /\ room[w] \in Nat
    BY <1>2, <1>3, <1>4
  <2>3. room[w] # 0
    BY <2>1, <2>2
  <2> QED
    BY <1>2, <2>2, <2>3
<1>6. Spent(share) = SumFunctionOnSet(share, Weeks)
  BY <1>3, <1>4 DEF Spent, Weeks
<1>7. /\ share \in [Weeks -> Nat] /\ Spent(share) \in Nat /\ Spent(share) <= pay[o].amount
  BY <1>3, <1>4 DEF Weeks, amount
<1> QED
  BY <1>5, <1>6, <1>7 DEF share

(* What the rows become, as functions of the share.                           *)
LEMMA SettledRows ==
  ASSUME LedgerInvariant, NEW o \in FeeOrders, Settled(o),
         UNCHANGED <<posted, line, captured, week, enabled, switches>>
  PROVE  \E share \in [Weeks -> Nat] :
           /\ SumFunctionOnSet(share, Weeks) \in Nat
           /\ SumFunctionOnSet(share, Weeks) <= pay[o].amount
           /\ \A w \in Weeks : share[w] # 0 => stmt[w].status # "none"
           /\ \A w \in Weeks :
                /\ stmt'[w].amount = stmt[w].amount
                /\ stmt'[w].paid = stmt[w].paid + share[w]
                /\ stmt'[w].paid <= stmt'[w].amount
                /\ stmt'[w].status = "none" <=> stmt[w].status = "none"
           /\ stmt' \in [Weeks -> StatementRows]
           /\ alloc' = [alloc EXCEPT ![o] = share]
           /\ alloc' \in Allocations
           /\ pay' \in [FeeOrders -> PaymentRows]
           /\ pay' = [pay EXCEPT ![o].status = "paid",
                       ![o].unallocated = pay[o].amount - SumFunctionOnSet(share, Weeks)]
<1> DEFINE share == Spend(pay[o].amount, StatementRoom)
           spent == SumFunctionOnSet(share, Weeks)
<1>1. /\ share \in [Weeks -> Nat] /\ Spent(share) = spent
      /\ spent \in Nat /\ spent <= pay[o].amount
      /\ \A w \in Weeks : share[w] # 0 =>
           Owing(w) /\ share[w] <= stmt[w].amount - stmt[w].paid
  BY SettledShare
<1>2. /\ stmt' = [w \in Weeks |->
              IF share[w] = 0 THEN stmt[w]
              ELSE [stmt[w] EXCEPT !.paid = @ + share[w],
                      !.status = IF share[w] = Outstanding(w) THEN "settled" ELSE @]]
      /\ alloc' = [alloc EXCEPT ![o] = share]
      /\ pay' = [pay EXCEPT ![o].status = "paid",
                            ![o].unallocated = pay[o].amount - spent]
  BY <1>1 DEF Settled
<1>3. /\ stmt \in [Weeks -> StatementRows] /\ pay \in [FeeOrders -> PaymentRows]
      /\ alloc \in Allocations /\ NoneOverpaid
  BY DEF LedgerInvariant, BookRows, TypeOK, StatementRows, PaymentRows
<1> HIDE DEF share, spent
<1>4. ASSUME NEW w \in Weeks
      PROVE  /\ stmt'[w] \in StatementRows
             /\ stmt'[w].amount = stmt[w].amount
             /\ stmt'[w].paid = stmt[w].paid + share[w]
             /\ stmt'[w].paid <= stmt'[w].amount
             /\ stmt'[w].status = "none" <=> stmt[w].status = "none"
  <2>1. stmt[w] \in StatementRows /\ share[w] \in Nat /\ stmt[w].paid <= stmt[w].amount
    BY <1>1, <1>3 DEF NoneOverpaid
  <2>2. CASE share[w] = 0
    <3>1. stmt'[w] = stmt[w]
      BY <1>2, <2>2
    <3> QED
      BY <2>1, <2>2, <3>1 DEF StatementRows
  <2>3. CASE share[w] # 0
    <3>1. stmt[w].status = "frozen" /\ share[w] <= stmt[w].amount - stmt[w].paid
      BY <1>1, <2>3 DEF Owing
    <3>2. \E s \in {"settled", "frozen"} :
            stmt'[w] = [stmt[w] EXCEPT !.paid = @ + share[w], !.status = s]
      BY <1>2, <2>3, <3>1
    <3>3. PICK s \in {"settled", "frozen"} :
            stmt'[w] = [stmt[w] EXCEPT !.paid = @ + share[w], !.status = s]
      BY <3>2
    <3>4. \A r \in StatementRows, k \in Nat :
            [r EXCEPT !.paid = @ + k, !.status = s] =
              [status |-> s, amount |-> r.amount, paid |-> r.paid + k, due |-> r.due]
      <4>1. SUFFICES ASSUME NEW r \in StatementRows, NEW k \in Nat
                     PROVE  [r EXCEPT !.paid = @ + k, !.status = s] =
                              [status |-> s, amount |-> r.amount, paid |-> r.paid + k, due |-> r.due]
        OBVIOUS
      <4> DEFINE p == [r EXCEPT !.paid = @ + k]
      <4>2. p = [status |-> r.status, amount |-> r.amount, paid |-> r.paid + k, due |-> r.due]
        BY DEF StatementRows
      <4>3. [r EXCEPT !.paid = @ + k, !.status = s] = [p EXCEPT !.status = s]
        OBVIOUS
      <4> HIDE DEF p
      <4> QED
        BY <4>2, <4>3
    <3>5. stmt'[w] = [status |-> s, amount |-> stmt[w].amount, paid |-> stmt[w].paid + share[w],
                      due |-> stmt[w].due]
      BY <2>1, <3>3, <3>4
    <3>6. /\ stmt[w].amount \in Nat /\ stmt[w].paid \in Nat
          /\ stmt[w].due \in {"unset", "ahead", "passed"}
      BY <2>1 DEF StatementRows
    <3> QED
      BY <2>1, <3>1, <3>5, <3>6 DEF StatementRows
  <2> QED
    BY <2>2, <2>3
<1>5. stmt' \in [Weeks -> StatementRows]
  <2>1. stmt' = [w \in Weeks |-> stmt'[w]]
    BY <1>2
  <2> QED
    BY <1>4, <2>1
<1>6. alloc' \in Allocations
  BY <1>1, <1>2, <1>3 DEF Allocations
<1>7. pay' \in [FeeOrders -> PaymentRows]
  <2>1. pay[o].amount - spent \in Nat
    BY <1>1, <1>3 DEF PaymentRows
  <2> QED
    BY <1>2, <1>3, <2>1 DEF PaymentRows
<1>8. \A w \in Weeks : share[w] # 0 => stmt[w].status # "none"
  BY <1>1 DEF Owing
<1> QED
  BY <1>1, <1>2, <1>4, <1>5, <1>6, <1>7, <1>8 DEF spent

LEMMA SettledKeeps ==
  ASSUME LedgerInvariant, NEW o \in FeeOrders, Settled(o),
         UNCHANGED <<posted, line, captured, week, enabled, switches>>
  PROVE  /\ LedgerInvariant'
         /\ Price[o] # 0 /\ o \notin Credited /\ Credited' = Credited \cup {o}
         /\ AccountBalance' = AccountBalance - Price[o]
         /\ Charged' = Charged /\ Reversed' = Reversed /\ Price' = Price
<1>1. /\ TypeOK /\ BookRows /\ FreezeWaits /\ CreditsOnce
      /\ pay \in [FeeOrders -> PaymentRows] /\ credits \in Seq(FeeOrders)
      /\ stmt \in [Weeks -> StatementRows] /\ alloc \in Allocations
  BY DEF LedgerInvariant, BookRows, TypeOK, PaymentRows, StatementRows
<1>2. PICK share \in [Weeks -> Nat] :
           /\ SumFunctionOnSet(share, Weeks) \in Nat
           /\ SumFunctionOnSet(share, Weeks) <= pay[o].amount
           /\ \A w \in Weeks : share[w] # 0 => stmt[w].status # "none"
           /\ \A w \in Weeks :
                /\ stmt'[w].amount = stmt[w].amount
                /\ stmt'[w].paid = stmt[w].paid + share[w]
                /\ stmt'[w].paid <= stmt'[w].amount
                /\ stmt'[w].status = "none" <=> stmt[w].status = "none"
           /\ stmt' \in [Weeks -> StatementRows]
           /\ alloc' = [alloc EXCEPT ![o] = share]
           /\ alloc' \in Allocations
           /\ pay' \in [FeeOrders -> PaymentRows]
           /\ pay' = [pay EXCEPT ![o].status = "paid",
                       ![o].unallocated = pay[o].amount - SumFunctionOnSet(share, Weeks)]
  BY SettledRows
<1> DEFINE spent == SumFunctionOnSet(share, Weeks)
           amount == pay[o].amount
<1>3. /\ pay[o].status # "paid" /\ credits' = Append(credits, o) /\ Evaluated(stmt')
  BY DEF Settled
<1>4. pay[o].unallocated = 0 /\ \A w \in Weeks : alloc[o][w] = 0
  BY <1>1, <1>3 DEF BookRows, NothingPrepaid
<1>5. /\ spent \in Nat /\ amount \in Nat /\ spent <= amount /\ amount # 0
      /\ pay[o].status # "none"
  <2>1. pay[o].status # "none"
    BY DEF Settled, LedgerInvariant, CapturedWereAsked
  <2> QED
    BY <1>1, <1>2, <2>1 DEF PaymentRows, BookRows, OrdersPriced
<1>6. /\ pay'[o].status = "paid" /\ pay'[o].amount = amount
      /\ pay'[o].unallocated = amount - spent
      /\ \A p \in FeeOrders \ {o} : pay'[p] = pay[p]
  <2> HIDE DEF spent
  <2>1. pay' = [pay EXCEPT ![o].status = "paid", ![o].unallocated = pay[o].amount - spent]
    BY <1>2 DEF spent
  <2> QED
    BY <1>1, <2>1 DEF PaymentRows
<1> HIDE DEF spent, amount
<1>7. TypeOK' /\ FreezeWaits'
  <2>1. /\ shop' \in [blocked: BOOLEAN, override: BOOLEAN, lifts: 0 .. MaxLifts] /\ SameFreeze
    BY <1>1, <1>3, EvaluatedTypes
  <2>2. /\ freeze' \in {None} \cup [prepaid: Seq(FeeOrders), fails: BOOLEAN] /\ FreezeWaits'
    BY <1>1, <1>2, <2>1, SameFreezeKeeps
  <2>3. credits' \in Seq(FeeOrders)
    BY <1>1, <1>3
  <2> QED
    BY <1>1, <1>2, <2>1, <2>2, <2>3 DEF TypeOK, PaymentRows, StatementRows
<1>8. LinesOfPosted' /\ NoneOverpaid'
  BY <1>1, <1>2 DEF BookRows, LinesOfPosted, NoneOverpaid
<1>9. OrdersNumbered' /\ OrdersPriced'
  <2>1. \A p \in FeeOrders : /\ pay'[p].status # "none" <=> pay[p].status # "none"
                             /\ pay'[p].amount = pay[p].amount
    BY <1>5, <1>6 DEF amount
  <2> QED
    BY <1>1, <2>1 DEF BookRows, OrdersNumbered, OrdersPriced
<1>10. NothingPrepaid'
  <2>1. ASSUME NEW p \in FeeOrders, pay'[p].status # "paid"
        PROVE  pay'[p].unallocated = 0 /\ \A w \in Weeks : alloc'[p][w] = 0
    <3>1. p # o /\ pay'[p] = pay[p]
      BY <1>6, <2>1
    <3>2. alloc'[p] = alloc[p]
      BY <1>1, <1>2, <3>1 DEF Allocations
    <3> QED
      BY <1>1, <2>1, <3>1, <3>2 DEF BookRows, NothingPrepaid
  <2> QED
    BY <2>1 DEF NothingPrepaid
<1>11. \A i \in DOMAIN credits : credits[i] # o
  BY <1>1, <1>3 DEF CreditsOnce
<1>12. /\ DOMAIN credits' = DOMAIN credits \cup {Len(credits) + 1}
       /\ Len(credits) + 1 \notin DOMAIN credits
       /\ credits'[Len(credits) + 1] = o
       /\ \A i \in DOMAIN credits : credits'[i] = credits[i]
  BY <1>1, <1>3
<1>13. CreditsOnce'
  <2>1. OnceEach(credits')
    BY <1>1, <1>11, <1>12 DEF CreditsOnce, OnceEach
  <2>2. ASSUME NEW p \in FeeOrders
        PROVE  pay'[p].status = "paid" <=> \E i \in DOMAIN credits' : credits'[i] = p
    <3>1. CASE p = o
      BY <1>6, <1>12, <3>1
    <3>2. CASE p # o
      <4>1. pay[p].status = "paid" <=> \E i \in DOMAIN credits : credits[i] = p
        BY <1>1 DEF CreditsOnce
      <4> QED
        BY <1>6, <1>12, <3>2, <4>1
    <3> QED
      BY <3>1, <3>2
  <2> QED
    BY <2>1, <2>2 DEF CreditsOnce
<1>14. BlankIsUnpaid'
  <2>1. ASSUME NEW w \in Weeks, stmt'[w].status = "none" PROVE stmt'[w].paid = 0
    <3>1. stmt[w].status = "none" /\ share[w] = 0
      BY <1>2, <2>1
    <3>2. stmt[w].paid = 0
      BY <1>1, <3>1 DEF BookRows, BlankIsUnpaid
    <3> QED
      BY <1>2, <3>1, <3>2
  <2> QED
    BY <2>1 DEF BlankIsUnpaid
<1>15. AllocationsAddUp'
  <2>1. ASSUME NEW p \in FeeOrders, pay'[p].status = "paid"
        PROVE  SumFunctionOnSet(alloc'[p], Weeks) + pay'[p].unallocated = pay'[p].amount
    <3>1. CASE p = o
      <4>1. alloc'[p] = share
        BY <1>1, <1>2, <3>1 DEF Allocations
      <4>2. SumFunctionOnSet(alloc'[p], Weeks) = spent
        BY <4>1 DEF spent
      <4> QED
        BY <1>5, <1>6, <3>1, <4>2
    <3>2. CASE p # o
      <4>1. alloc'[p] = alloc[p] /\ pay'[p] = pay[p]
        BY <1>1, <1>2, <1>6, <3>2 DEF Allocations
      <4> QED
        BY <1>1, <2>1, <4>1 DEF BookRows, AllocationsAddUp
    <3> QED
      BY <3>1, <3>2
  <2>2. ASSUME NEW w \in Weeks
        PROVE  SumFunctionOnSet([p \in FeeOrders |-> alloc'[p][w]], FeeOrders) = stmt'[w].paid
    <3> DEFINE f == [p \in FeeOrders |-> alloc[p][w]]
               g == [p \in FeeOrders |-> alloc'[p][w]]
    <3>1. /\ \A p \in FeeOrders : f[p] \in Int
          /\ \A p \in FeeOrders \ {o} : g[p] = f[p]
          /\ g[o] = share[w] /\ f[o] = 0 /\ share[w] \in Nat
      BY <1>1, <1>2, <1>4 DEF Allocations
    <3>2. SumFunctionOnSet(f, FeeOrders) = stmt[w].paid /\ stmt[w].paid \in Nat
      BY <1>1 DEF BookRows, AllocationsAddUp, StatementRows
    <3> HIDE DEF f, g
    <3>3. SumFunctionOnSet(g, FeeOrders) = SumFunctionOnSet(f, FeeOrders) + (g[o] - f[o])
      BY <3>1, BookSets, SumChange
    <3>4. SumFunctionOnSet(g, FeeOrders) = stmt[w].paid + share[w]
      BY <3>1, <3>2, <3>3
    <3>5. SumFunctionOnSet(g, FeeOrders) = stmt'[w].paid
      BY <1>2, <3>4
    <3> QED
      BY <3>5 DEF g
  <2> QED
    BY <2>1, <2>2 DEF AllocationsAddUp
<1>16. SumFunctionOnSet(Owed, Weeks) = SumFunctionOnSet(Owed', Weeks) + spent
  <2> DEFINE f == Owed'
  <2>1. \A w \in Weeks : f[w] \in Int /\ Owed[w] \in Int /\ Owed[w] = f[w] + share[w]
    <3>1. SUFFICES ASSUME NEW w \in Weeks
                   PROVE  f[w] \in Int /\ Owed[w] \in Int /\ Owed[w] = f[w] + share[w]
      OBVIOUS
    <3>2. /\ stmt[w].amount \in Nat /\ stmt[w].paid \in Nat /\ share[w] \in Nat
          /\ stmt'[w].amount = stmt[w].amount /\ stmt'[w].paid = stmt[w].paid + share[w]
          /\ stmt'[w].status = "none" <=> stmt[w].status = "none"
          /\ stmt[w].status = "none" => share[w] = 0
      BY <1>1, <1>2 DEF StatementRows
    <3> QED
      BY <3>2 DEF Owed, Outstanding
  <2> HIDE DEF f
  <2>2. \A w \in Weeks : share[w] \in Int
    OBVIOUS
  <2>3. SumFunctionOnSet(Owed, Weeks) = SumFunctionOnSet(f, Weeks) + SumFunctionOnSet(share, Weeks)
    BY <2>1, <2>2, BookSets, SumPlus
  <2> QED
    BY <2>3 DEF f, spent
<1>17. SumFunctionOnSet(Prepaid', FeeOrders) = SumFunctionOnSet(Prepaid, FeeOrders) + (amount - spent)
  <2> DEFINE g == Prepaid'
  <2>1. /\ \A p \in FeeOrders : Prepaid[p] \in Int
        /\ \A p \in FeeOrders \ {o} : g[p] = Prepaid[p]
        /\ Prepaid[o] = 0 /\ g[o] = amount - spent /\ g[o] \in Int
    BY <1>1, <1>4, <1>5, <1>6, BalanceParts DEF Prepaid
  <2> HIDE DEF g
  <2>2. SumFunctionOnSet(g, FeeOrders) = SumFunctionOnSet(Prepaid, FeeOrders) + (g[o] - Prepaid[o])
    BY <2>1, BookSets, SumChange
  <2>3. g[o] - Prepaid[o] = amount - spent
    BY <1>5, <2>1
  <2>4. SumFunctionOnSet(g, FeeOrders) = SumFunctionOnSet(Prepaid, FeeOrders) + (amount - spent)
    BY <2>2, <2>3
  <2> QED
    BY <2>4 DEF g
<1>18. AccountBalance' = AccountBalance - amount
  <2> DEFINE t == Total(Unstatemented)
             u == SumFunctionOnSet(Prepaid, FeeOrders)
             s == SumFunctionOnSet(Owed', Weeks)
  <2>1. /\ t \in Int /\ u \in Int /\ SumFunctionOnSet(Owed, Weeks) \in Int
        /\ AccountBalance = t - u + SumFunctionOnSet(Owed, Weeks)
    BY <1>1, BalanceParts
  <2>2. AccountBalance' = t - SumFunctionOnSet(Prepaid', FeeOrders) + s
    BY DEF AccountBalance, Owed, Outstanding, Unallocated, Prepaid, Total, Unstatemented, Posted
  <2>3. s \in Int
    <3>1. \A w \in Weeks : Owed'[w] \in Int
      BY <1>2 DEF Owed, Outstanding, StatementRows
    <3> DEFINE f == Owed'
    <3> HIDE DEF f
    <3>2. SumFunctionOnSet(f, Weeks) \in Int
      BY <3>1, BookSets, SumInt DEF f
    <3> QED
      BY <3>2 DEF f
  <2>4. AccountBalance = t - u + (s + spent) /\ AccountBalance' = t - (u + (amount - spent)) + s
    BY <1>16, <1>17, <2>1, <2>2
  <2> HIDE DEF t, u, s
  <2> QED
    BY <1>5, <2>1, <2>3, <2>4
<1>19. Price' = Price /\ Price[o] = amount
  BY <1>6 DEF Price, amount
<1>20. CapturedWereAsked'
  BY <1>6 DEF LedgerInvariant, CapturedWereAsked, TypeOK
<1>21. o \notin Credited /\ Credited' = Credited \cup {o}
  BY <1>11, <1>12 DEF Credited
<1> QED
  BY <1>5, <1>7, <1>8, <1>9, <1>10, <1>13, <1>14, <1>15, <1>18, <1>19, <1>20, <1>21
     DEF LedgerInvariant, BookRows, Charged, Reversed

-----------------------------------------------------------------------------
(* A statement is frozen. *)

(* What each payment gives to the statement: the shares of the list the       *)
(* freeze read, by the payment they are of.                                   *)
TakenFrom(share) ==
  [o \in FeeOrders |-> SumFunctionOnSet(share, {i \in DOMAIN freeze.prepaid : freeze.prepaid[i] = o})]

LEMMA FreezeShare ==
  ASSUME TypeOK, freeze # None, OnceEach(freeze.prepaid), NEW due \in Nat
  PROVE  LET share == Spend(due, PrepaidRoom)
             taken == TakenFrom(share)
         IN  /\ DOMAIN share = DOMAIN freeze.prepaid
             /\ Spent(share) \in Nat /\ Spent(share) <= due
             /\ taken \in [FeeOrders -> Nat]
             /\ \A o \in FeeOrders : taken[o] <= pay[o].unallocated
             /\ SumFunctionOnSet(taken, FeeOrders) = Spent(share)
<1> DEFINE q == freeze.prepaid
           room == PrepaidRoom
           share == Spend(due, PrepaidRoom)
           taken == TakenFrom(share)
           D == DOMAIN q
           n == Len(q)
           of(o) == {i \in D : q[i] = o}
<1>1. q \in Seq(FeeOrders) /\ \A o \in FeeOrders : pay[o].unallocated \in Nat
  BY DEF TypeOK
<1>2. /\ D = 1 .. n /\ n \in Nat /\ \A i \in D : q[i] \in FeeOrders
  BY <1>1
<1>3. /\ DOMAIN room = 1 .. n /\ \A i \in 1 .. n : room[i] = pay[q[i]].unallocated
      /\ \A i \in 1 .. n : room[i] \in Nat
  BY <1>1, <1>2 DEF PrepaidRoom
<1>4. \A i, k \in D : q[i] = q[k] => i = k
  BY DEF OnceEach
<1>5. \A o \in FeeOrders : taken[o] = SumFunctionOnSet(share, of(o))
  BY DEF TakenFrom
<1>6. taken = [o \in FeeOrders |-> SumFunctionOnSet(share, of(o))]
  BY DEF TakenFrom
<1>7. share = Spend(due, room)
  OBVIOUS
<1> HIDE DEF q, room, share, taken
<1>8. /\ share \in [1 .. n -> Nat] /\ \A i \in 1 .. n : share[i] <= room[i]
      /\ Spent(share) \in Nat /\ Spent(share) <= due
  BY <1>2, <1>3, <1>7, SpendFits
<1>9. IsFiniteSet(D) /\ \A i \in D : share[i] \in Nat
  BY <1>2, <1>8, FS_Interval
<1>10. ASSUME NEW o \in FeeOrders PROVE taken[o] \in Nat /\ taken[o] <= pay[o].unallocated
  <2>1. CASE \E i \in D : q[i] = o
    <3>1. PICK i \in D : q[i] = o
      BY <2>1
    <3>2. of(o) = {i}
      BY <1>4, <3>1
    <3>3. SumFunctionOnSet(share, {i}) = share[i]
      <4> DEFINE S == {i}
      <4>1. IsFiniteSet(S) /\ i \in S /\ S \ {i} = {} /\ \A k \in S : share[k] \in Int
        <5>1. IsFiniteSet(S)
          BY FS_Singleton
        <5>2. share[i] \in Int
          BY <1>9
        <5> QED
          BY <5>1, <5>2
      <4> HIDE DEF S
      <4>2. SumFunctionOnSet(share, S) = share[i] + SumFunctionOnSet(share, S \ {i})
        BY <4>1, SumAdd
      <4>3. SumFunctionOnSet(share, S) = share[i] + 0
        BY <4>1, <4>2, SumEmpty
      <4>4. share[i] \in Nat
        BY <1>9
      <4>5. SumFunctionOnSet(share, S) = share[i]
        BY <4>3, <4>4
      <4> QED
        BY <4>5 DEF S
    <3>4. taken[o] = share[i]
      BY <1>5, <3>2, <3>3
    <3>5. share[i] <= room[i] /\ room[i] = pay[o].unallocated
      BY <1>2, <1>3, <1>8, <3>1
    <3> QED
      BY <1>9, <3>4, <3>5
  <2>2. CASE ~\E i \in D : q[i] = o
    <3>1. of(o) = {}
      BY <2>2
    <3>2. taken[o] = 0
      BY <1>5, <3>1, SumEmpty
    <3> QED
      BY <1>1, <3>2
  <2> QED
    BY <2>1, <2>2
<1>11. SumFunctionOnSet(taken, FeeOrders) = SumFunctionOnSet(share, D)
  <2> HIDE DEF D
  <2>1. /\ IsFiniteSet(D) /\ IsFiniteSet(FeeOrders)
        /\ \A d \in D : share[d] \in Int
        /\ \A d \in D : q[d] \in FeeOrders
    BY <1>2, <1>9, BookSets
  <2>2. \A o \in FeeOrders : taken[o] = SumFunctionOnSet(share, Owned(D, q, o))
    BY <1>5 DEF Owned
  <2> QED
    BY <2>1, <2>2, SumByOwner
<1>12. DOMAIN share = D
  BY <1>2, <1>8
<1>13. SumFunctionOnSet(taken, FeeOrders) = Spent(share)
  BY <1>11, <1>12 DEF Spent
<1>14. taken \in [FeeOrders -> Nat]
  BY <1>6, <1>10
<1> QED
  BY <1>8, <1>10, <1>12, <1>13, <1>14 DEF q, share, taken

(* What the rows become, as functions of what was taken.                      *)
LEMMA FreezeRows ==
  ASSUME LedgerInvariant, Freeze
  PROVE  \E taken \in [FeeOrders -> Nat] :
           LET due == Total(Freezable)
               paid == SumFunctionOnSet(taken, FeeOrders)
           IN  /\ week \in Weeks /\ stmt[week].status = "none"
               /\ due \in Nat /\ paid \in Nat /\ paid <= due
               /\ stmt' \in [Weeks -> StatementRows]
               /\ \A w \in Weeks \ {week} : stmt'[w] = stmt[w]
               /\ stmt'[week].status # "none"
               /\ stmt'[week].amount = due /\ stmt'[week].paid = paid
               /\ line' = [e \in Entries |-> IF e \in Freezable THEN week ELSE line[e]]
               /\ pay' \in [FeeOrders -> PaymentRows]
               /\ \A o \in FeeOrders :
                    /\ taken[o] <= pay[o].unallocated
                    /\ pay'[o].unallocated = pay[o].unallocated - taken[o]
                    /\ pay'[o].amount = pay[o].amount /\ pay'[o].status = pay[o].status
               /\ alloc' \in Allocations
               /\ \A o \in FeeOrders :
                    /\ alloc'[o][week] = alloc[o][week] + taken[o]
                    /\ \A w \in Weeks \ {week} : alloc'[o][w] = alloc[o][w]
<1> DEFINE due == Total(Freezable)
           share == Spend(due, PrepaidRoom)
           taken == TakenFrom(share)
           paid == Spent(share)
<1>1. /\ TypeOK /\ freeze # None /\ week > 0 /\ stmt[week].status = "none"
      /\ OnceEach(freeze.prepaid) /\ week \in Weeks
      /\ pay \in [FeeOrders -> PaymentRows] /\ stmt \in [Weeks -> StatementRows]
      /\ alloc \in Allocations
  BY DEF LedgerInvariant, Freeze, FreezeWaits, TypeOK, PaymentRows, StatementRows, Weeks
<1>2. due \in Nat
  <2>1. Freezable \in SUBSET Entries
    BY DEF Freezable, Unstatemented, Posted
  <2>2. due \in Int
    BY <2>1, BookSets
  <2>3. due >= 0
    BY DEF Freeze
  <2> HIDE DEF due
  <2> QED
    BY <2>2, <2>3
<1>3. /\ DOMAIN share = DOMAIN freeze.prepaid /\ paid \in Nat /\ paid <= due
      /\ taken \in [FeeOrders -> Nat] /\ \A o \in FeeOrders : taken[o] <= pay[o].unallocated
      /\ SumFunctionOnSet(taken, FeeOrders) = paid
  <2> HIDE DEF due
  <2> QED
    BY <1>1, <1>2, FreezeShare
<1>4. /\ stmt' = [stmt EXCEPT ![week] =
              [status |-> IF paid = due THEN "settled" ELSE "frozen",
               amount |-> due, paid |-> paid,
               due |-> IF due > 0 /\ enabled THEN "ahead" ELSE "unset"]]
      /\ line' = [e \in Entries |-> IF e \in Freezable THEN week ELSE line[e]]
      /\ pay' = PrepaidUsed(share)
      /\ alloc' = [o \in FeeOrders |-> [alloc[o] EXCEPT ![week] =
              @ + (pay[o].unallocated - PrepaidUsed(share)[o].unallocated)]]
  BY DEF Freeze
<1>5. \A o \in FeeOrders : taken[o] =
        SumFunctionOnSet(share, {i \in DOMAIN share : freeze.prepaid[i] = o})
  BY <1>3 DEF TakenFrom
<1>6. pay' = [o \in FeeOrders |-> [pay[o] EXCEPT !.unallocated = @ - taken[o]]]
  BY <1>4, <1>5 DEF PrepaidUsed
<1>7. alloc' = [o \in FeeOrders |-> [alloc[o] EXCEPT ![week] =
              @ + (pay[o].unallocated - pay'[o].unallocated)]]
  BY <1>4
<1> HIDE DEF due, share, taken, paid
<1>8. /\ stmt' \in [Weeks -> StatementRows]
      /\ \A w \in Weeks \ {week} : stmt'[w] = stmt[w]
      /\ stmt'[week].status # "none" /\ stmt'[week].amount = due /\ stmt'[week].paid = paid
  BY <1>1, <1>2, <1>3, <1>4 DEF StatementRows
<1>9. ASSUME NEW o \in FeeOrders
      PROVE  /\ pay'[o] \in PaymentRows
             /\ pay'[o].unallocated = pay[o].unallocated - taken[o]
             /\ pay'[o].amount = pay[o].amount /\ pay'[o].status = pay[o].status
  <2>1. pay[o] \in PaymentRows /\ pay'[o] = [pay[o] EXCEPT !.unallocated = @ - taken[o]]
    BY <1>1, <1>6
  <2>2. pay[o].unallocated - taken[o] \in Nat
    BY <1>3, <2>1 DEF PaymentRows
  <2> QED
    BY <2>1, <2>2 DEF PaymentRows
<1>10. pay' \in [FeeOrders -> PaymentRows]
  BY <1>6, <1>9
<1>11. ASSUME NEW o \in FeeOrders
       PROVE  /\ alloc'[o] \in [Weeks -> Nat] /\ alloc'[o][week] = alloc[o][week] + taken[o]
              /\ \A w \in Weeks \ {week} : alloc'[o][w] = alloc[o][w]
  <2>1. alloc[o] \in [Weeks -> Nat] /\ taken[o] \in Nat /\ pay[o].unallocated \in Nat
    BY <1>1, <1>3 DEF Allocations, PaymentRows
  <2>2. pay[o].unallocated - pay'[o].unallocated = taken[o]
    BY <1>9, <2>1
  <2>3. alloc'[o] = [alloc[o] EXCEPT ![week] = @ + taken[o]]
    BY <1>7, <2>2
  <2> QED
    BY <1>1, <2>1, <2>3
<1>12. alloc' \in Allocations
  BY <1>7, <1>11 DEF Allocations
<1>13. taken \in [FeeOrders -> Nat]
  BY <1>3
<1>14. paid = SumFunctionOnSet(taken, FeeOrders) /\ due = Total(Freezable)
  BY <1>3 DEF due
<1> WITNESS taken \in [FeeOrders -> Nat]
<1> QED
  BY <1>1, <1>2, <1>3, <1>4, <1>8, <1>9, <1>10, <1>11, <1>12, <1>14

LEMMA FreezeKeeps ==
  ASSUME LedgerInvariant, Freeze PROVE LedgerInvariant' /\ account' = account
<1> DEFINE due == Total(Freezable)
<1>1. PICK taken \in [FeeOrders -> Nat] :
        LET paid == SumFunctionOnSet(taken, FeeOrders)
        IN  /\ week \in Weeks /\ stmt[week].status = "none"
            /\ due \in Nat /\ paid \in Nat /\ paid <= due
            /\ stmt' \in [Weeks -> StatementRows]
            /\ \A w \in Weeks \ {week} : stmt'[w] = stmt[w]
            /\ stmt'[week].status # "none"
            /\ stmt'[week].amount = due /\ stmt'[week].paid = paid
            /\ line' = [e \in Entries |-> IF e \in Freezable THEN week ELSE line[e]]
            /\ pay' \in [FeeOrders -> PaymentRows]
            /\ \A o \in FeeOrders :
                 /\ taken[o] <= pay[o].unallocated
                 /\ pay'[o].unallocated = pay[o].unallocated - taken[o]
                 /\ pay'[o].amount = pay[o].amount /\ pay'[o].status = pay[o].status
            /\ alloc' \in Allocations
            /\ \A o \in FeeOrders :
                 /\ alloc'[o][week] = alloc[o][week] + taken[o]
                 /\ \A w \in Weeks \ {week} : alloc'[o][w] = alloc[o][w]
  BY FreezeRows
<1> DEFINE paid == SumFunctionOnSet(taken, FeeOrders)
<1>2. /\ TypeOK /\ BookRows /\ pay \in [FeeOrders -> PaymentRows] /\ stmt \in [Weeks -> StatementRows]
      /\ alloc \in Allocations /\ line \in [Entries -> 0 .. MaxWeeks] /\ week \in 0 .. MaxWeeks
      /\ MaxWeeks \in Nat
  BY DEF LedgerInvariant, TypeOK, PaymentRows, StatementRows, LedgerAssumption
<1>3. UNCHANGED <<posted, credits, captured, shop, week, enabled, switches>> /\ freeze' = None
  BY DEF Freeze
<1>4. /\ week # 0 /\ Freezable \in SUBSET Unstatemented /\ Unstatemented \in SUBSET Entries
      /\ \A e \in Freezable : posted[e] # 0
  BY <1>1 DEF Freezable, Unstatemented, Posted, Weeks
<1> HIDE DEF due, paid
<1>5. due \in Nat /\ paid \in Nat /\ paid <= due
  BY <1>1 DEF paid
<1>6. TypeOK' /\ FreezeWaits'
  <2>1. line' \in [Entries -> 0 .. MaxWeeks]
    BY <1>1, <1>2
  <2> QED
    BY <1>1, <1>2, <1>3, <2>1 DEF TypeOK, FreezeWaits, PaymentRows, StatementRows
<1>7. LinesOfPosted'
  BY <1>1, <1>2, <1>3, <1>4 DEF BookRows, LinesOfPosted
<1>8. /\ OrdersNumbered' /\ OrdersPriced' /\ CreditsOnce' /\ CapturedWereAsked'
  <2>1. \A o \in FeeOrders : pay'[o].amount = pay[o].amount /\ pay'[o].status = pay[o].status
    BY <1>1
  <2>2. OrdersNumbered' /\ OrdersPriced'
    BY <1>2, <2>1 DEF BookRows, OrdersNumbered, OrdersPriced
  <2>3. CreditsOnce'
    BY <1>2, <1>3, <2>1 DEF BookRows, CreditsOnce, OnceEach
  <2>4. CapturedWereAsked'
    BY <1>3, <2>1 DEF LedgerInvariant, CapturedWereAsked, TypeOK
  <2> QED
    BY <2>2, <2>3, <2>4
<1>9. NothingPrepaid'
  <2>1. ASSUME NEW o \in FeeOrders, pay'[o].status # "paid"
        PROVE  pay'[o].unallocated = 0 /\ \A w \in Weeks : alloc'[o][w] = 0
    <3>1. pay[o].unallocated = 0 /\ \A w \in Weeks : alloc[o][w] = 0
      BY <1>1, <1>2, <2>1 DEF BookRows, NothingPrepaid
    <3>2. taken[o] = 0
      BY <1>1, <3>1
    <3> QED
      BY <1>1, <3>1, <3>2
  <2> QED
    BY <2>1 DEF NothingPrepaid
<1>10. NoneOverpaid' /\ BlankIsUnpaid'
  <2>1. \A w \in Weeks : stmt'[w].paid <= stmt'[w].amount
    BY <1>1, <1>2, <1>5 DEF BookRows, NoneOverpaid, paid
  <2>2. \A w \in Weeks : stmt'[w].status = "none" => stmt'[w].paid = 0
    BY <1>1, <1>2 DEF BookRows, BlankIsUnpaid
  <2> QED
    BY <2>1, <2>2 DEF NoneOverpaid, BlankIsUnpaid
<1>11. stmt[week].paid = 0
  BY <1>1, <1>2 DEF BookRows, BlankIsUnpaid
<1>12. AllocationsAddUp'
  <2>1. ASSUME NEW o \in FeeOrders, pay'[o].status = "paid"
        PROVE  SumFunctionOnSet(alloc'[o], Weeks) + pay'[o].unallocated = pay'[o].amount
    <3> DEFINE f == alloc[o]
               g == alloc'[o]
    <3>1. /\ \A w \in Weeks : f[w] \in Int
          /\ \A w \in Weeks \ {week} : g[w] = f[w]
          /\ g[week] = f[week] + taken[o] /\ f[week] \in Nat /\ taken[o] \in Nat
          /\ g[week] \in Int /\ week \in Weeks
      BY <1>1, <1>2 DEF Allocations
    <3>2. /\ SumFunctionOnSet(f, Weeks) + pay[o].unallocated = pay[o].amount
          /\ pay[o].unallocated \in Nat /\ pay[o].amount \in Nat
      BY <1>1, <1>2, <2>1 DEF BookRows, AllocationsAddUp, PaymentRows
    <3>3. pay'[o].unallocated = pay[o].unallocated - taken[o] /\ pay'[o].amount = pay[o].amount
      BY <1>1
    <3> HIDE DEF f, g
    <3>4. SumFunctionOnSet(g, Weeks) = SumFunctionOnSet(f, Weeks) + (g[week] - f[week])
      BY <3>1, BookSets, SumChange
    <3>5. SumFunctionOnSet(f, Weeks) \in Int
      BY <3>1, BookSets, SumInt
    <3>6. SumFunctionOnSet(g, Weeks) = SumFunctionOnSet(f, Weeks) + taken[o]
      BY <3>1, <3>4
    <3>7. SumFunctionOnSet(g, Weeks) + pay'[o].unallocated = pay'[o].amount
      BY <3>1, <3>2, <3>3, <3>5, <3>6
    <3> QED
      BY <3>7 DEF g
  <2>2. ASSUME NEW w \in Weeks
        PROVE  SumFunctionOnSet([o \in FeeOrders |-> alloc'[o][w]], FeeOrders) = stmt'[w].paid
    <3> DEFINE f == [o \in FeeOrders |-> alloc[o][w]]
               g == [o \in FeeOrders |-> alloc'[o][w]]
    <3>1. SumFunctionOnSet(f, FeeOrders) = stmt[w].paid
      BY <1>2 DEF BookRows, AllocationsAddUp
    <3>2. CASE w = week
      <4>1. \A o \in FeeOrders : f[o] \in Int /\ taken[o] \in Int /\ g[o] = f[o] + taken[o]
        BY <1>1, <1>2, <3>2 DEF Allocations
      <4> HIDE DEF f, g
      <4>2. SumFunctionOnSet(g, FeeOrders) = SumFunctionOnSet(f, FeeOrders) + paid
        BY <4>1, BookSets, SumPlus DEF paid
      <4>3. SumFunctionOnSet(g, FeeOrders) = 0 + paid
        BY <1>11, <3>1, <3>2, <4>2
      <4>4. stmt'[w].paid = paid
        BY <1>1, <3>2 DEF paid
      <4>5. SumFunctionOnSet(g, FeeOrders) = stmt'[w].paid
        BY <1>5, <4>3, <4>4
      <4> QED
        BY <4>5 DEF g
    <3>3. CASE w # week
      <4>1. \A o \in FeeOrders : alloc'[o][w] = alloc[o][w]
        BY <1>1, <3>3
      <4>2. g = f
        BY <4>1
      <4>3. stmt'[w].paid = stmt[w].paid
        BY <1>1, <3>3
      <4> HIDE DEF f
      <4> QED
        BY <3>1, <4>2, <4>3
    <3> QED
      BY <3>2, <3>3
  <2> QED
    BY <2>1, <2>2 DEF AllocationsAddUp
<1>13. Total(Unstatemented) = due + Total(Unstatemented')
  <2>1. Unstatemented' = Unstatemented \ Freezable
    BY <1>1, <1>2, <1>3, <1>4 DEF Unstatemented, Posted
  <2>2. IsFiniteSet(Unstatemented) /\ \A e \in Unstatemented : Amount[e] \in Int
    BY <1>4, BookSets, FS_Subset
  <2>3. Total(Unstatemented) = Total(Freezable) + Total(Unstatemented \ Freezable)
    BY <1>4, <2>2, SumSplit DEF Total
  <2> QED
    BY <2>1, <2>3 DEF due
<1>14. SumFunctionOnSet(Owed', Weeks) = SumFunctionOnSet(Owed, Weeks) + (due - paid)
  <2> DEFINE g == Owed'
  <2>1. /\ \A w \in Weeks \ {week} : g[w] = Owed[w]
        /\ Owed[week] = 0 /\ g[week] = due - paid /\ week \in Weeks
    BY <1>1 DEF Owed, Outstanding, paid
  <2>2. g[week] \in Int /\ \A w \in Weeks : Owed[w] \in Int
    BY <1>2, <1>5, <2>1, BalanceParts
  <2> HIDE DEF g
  <2>3. SumFunctionOnSet(g, Weeks) = SumFunctionOnSet(Owed, Weeks) + (g[week] - Owed[week])
    BY <2>1, <2>2, BookSets, SumChange
  <2>4. g[week] - Owed[week] = due - paid
    BY <1>5, <2>1
  <2>5. SumFunctionOnSet(g, Weeks) = SumFunctionOnSet(Owed, Weeks) + (due - paid)
    BY <2>3, <2>4
  <2> QED
    BY <2>5 DEF g
<1>15. SumFunctionOnSet(Prepaid, FeeOrders) = SumFunctionOnSet(Prepaid', FeeOrders) + paid
  <2> DEFINE g == Prepaid'
  <2>1. \A o \in FeeOrders : g[o] \in Int /\ taken[o] \in Int /\ Prepaid[o] = g[o] + taken[o]
    <3>1. \A o \in FeeOrders : g[o] = pay'[o].unallocated /\ Prepaid[o] = pay[o].unallocated
      BY DEF Prepaid
    <3>2. \A o \in FeeOrders : pay[o].unallocated \in Nat
      BY <1>2 DEF PaymentRows
    <3> HIDE DEF g
    <3> QED
      BY <1>1, <3>1, <3>2
  <2> HIDE DEF g
  <2>2. SumFunctionOnSet(Prepaid, FeeOrders) = SumFunctionOnSet(g, FeeOrders) + SumFunctionOnSet(taken, FeeOrders)
    BY <2>1, BookSets, SumPlus
  <2> QED
    BY <2>2 DEF g, paid
<1>16. AccountBalance' = AccountBalance
  <2> DEFINE t == Total(Unstatemented')
             u == SumFunctionOnSet(Prepaid', FeeOrders)
             s == SumFunctionOnSet(Owed, Weeks)
  <2>1. /\ s \in Int
        /\ AccountBalance = Total(Unstatemented) - SumFunctionOnSet(Prepaid, FeeOrders) + s
    BY <1>2, BalanceParts
  <2>2. AccountBalance' = t - u + SumFunctionOnSet(Owed', Weeks)
    BY DEF AccountBalance, Owed, Outstanding, Unallocated, Prepaid, Total
  <2>3. t \in Int
    <3>1. Unstatemented' \in SUBSET Entries
      BY <1>3 DEF Unstatemented, Posted
    <3> QED
      BY <3>1, BookSets
  <2>4. u \in Int
    <3> DEFINE g == Prepaid'
    <3>1. \A o \in FeeOrders : g[o] \in Int
      BY <1>1 DEF Prepaid, PaymentRows
    <3> HIDE DEF g
    <3>2. SumFunctionOnSet(g, FeeOrders) \in Int
      BY <3>1, BookSets, SumInt
    <3> QED
      BY <3>2 DEF g
  <2>5. AccountBalance = (due + t) - (u + paid) + s /\ AccountBalance' = t - u + (s + (due - paid))
    BY <1>13, <1>14, <1>15, <2>1, <2>2
  <2> HIDE DEF t, u, s
  <2> QED
    BY <1>5, <2>1, <2>3, <2>4, <2>5
<1>17. Charged' = Charged /\ Reversed' = Reversed /\ Credited' = Credited /\ Price' = Price
  BY <1>1, <1>3 DEF Charged, Reversed, Credited, Price
<1> QED
  BY <1>2, <1>6, <1>7, <1>8, <1>9, <1>10, <1>12, <1>16, <1>17 DEF LedgerInvariant, BookRows, account

-----------------------------------------------------------------------------
(* The beginning, and every step. *)

LEMMA SumOfZeros ==
  ASSUME NEW f, NEW S, IsFiniteSet(S), \A x \in S : f[x] = 0
  PROVE  SumFunctionOnSet(f, S) = 0
<1> DEFINE G == {T \in SUBSET S : SumFunctionOnSet(f, T) = 0}
<1>1. {} \in G
  BY SumEmpty
<1>2. ASSUME NEW T \in SUBSET S, NEW x \in S \ T, T \in G PROVE T \cup {x} \in G
  <2>1. SumFunctionOnSet(f, T \cup {x}) = f[x] + SumFunctionOnSet(f, T)
    BY SumExtend
  <2> QED
    BY <1>2, <2>1
<1> HIDE DEF G
<1>3. SUBSET S \subseteq G
  BY <1>1, <1>2, EverySubset
<1> QED
  BY <1>3 DEF G

LEMMA LedgerStarts ==
  ASSUME Init
  PROVE  /\ LedgerInvariant
         /\ AccountBalance = 0 /\ Charged = {} /\ Reversed = {} /\ Credited = {}
         /\ Price = [o \in FeeOrders |-> 0]
<1> USE DEF Init
<1>1. MaxWeeks \in Nat /\ MaxOrders \in Nat /\ MaxLifts \in Nat /\ MaxSwitches \in Nat
  BY DEF LedgerAssumption
<1>2. TypeOK
  <2>1. posted \in [Entries -> 0 .. MaxWeeks + 1] /\ line \in [Entries -> 0 .. MaxWeeks]
    BY <1>1
  <2>2. stmt \in [Weeks -> StatementRows] /\ pay \in [FeeOrders -> PaymentRows]
    BY DEF NoStatement, NoOrder, StatementRows, PaymentRows
  <2>3. credits \in Seq(FeeOrders) /\ alloc \in Allocations /\ captured \subseteq FeeOrders
    BY DEF Allocations
  <2>4. /\ shop \in [blocked: BOOLEAN, override: BOOLEAN, lifts: 0 .. MaxLifts]
        /\ week \in 0 .. MaxWeeks /\ enabled \in BOOLEAN /\ switches \in 0 .. MaxSwitches
    <3>1. 0 \in 0 .. MaxLifts /\ 0 \in 0 .. MaxWeeks /\ 0 \in 0 .. MaxSwitches
      BY <1>1
    <3>2. shop = [blocked |-> FALSE, override |-> FALSE, lifts |-> 0] /\ enabled = FALSE
      OBVIOUS
    <3>3. week = 0 /\ switches = 0
      OBVIOUS
    <3>4. shop \in [blocked: BOOLEAN, override: BOOLEAN, lifts: 0 .. MaxLifts]
      <4> HIDE DEF Init
      <4> QED
        BY <3>1, <3>2
    <3> HIDE DEF Init
    <3> QED
      BY <3>1, <3>2, <3>3, <3>4
  <2>5. freeze \in {None}
    OBVIOUS
  <2> QED
    BY <2>1, <2>2, <2>3, <2>4, <2>5 DEF TypeOK, StatementRows, PaymentRows
<1>3. /\ \A o \in FeeOrders : /\ pay[o].status = "none" /\ pay[o].amount = 0
                              /\ pay[o].unallocated = 0
                              /\ \A w \in Weeks : alloc[o][w] = 0
      /\ \A w \in Weeks : stmt[w].status = "none" /\ stmt[w].amount = 0 /\ stmt[w].paid = 0
      /\ DOMAIN credits = {}
  BY DEF NoStatement, NoOrder
<1>4. /\ LinesOfPosted /\ OrdersPriced /\ NothingPrepaid /\ CreditsOnce /\ NoneOverpaid
      /\ BlankIsUnpaid /\ CapturedWereAsked /\ FreezeWaits
  BY <1>3 DEF LinesOfPosted, OrdersPriced, NothingPrepaid, CreditsOnce, OnceEach, NoneOverpaid,
     BlankIsUnpaid, CapturedWereAsked, FreezeWaits
<1>5. OrdersNumbered
  <2>1. 0 \in 0 .. MaxOrders
    BY <1>1
  <2>2. \A o \in FeeOrders : ~(o <= 0)
    BY <1>1 DEF FeeOrders
  <2>3. \A o \in FeeOrders : pay[o].status # "none" <=> o <= 0
    BY <1>3, <2>2
  <2> QED
    BY <2>1, <2>3 DEF OrdersNumbered
<1>6. AllocationsAddUp
  <2>1. ASSUME NEW w \in Weeks
        PROVE  SumFunctionOnSet([o \in FeeOrders |-> alloc[o][w]], FeeOrders) = stmt[w].paid
    <3> DEFINE f == [o \in FeeOrders |-> alloc[o][w]]
    <3>1. \A o \in FeeOrders : f[o] = 0
      BY <1>3
    <3> HIDE DEF f
    <3>2. SumFunctionOnSet(f, FeeOrders) = 0
      BY <3>1, BookSets, SumOfZeros
    <3> QED
      BY <1>3, <3>2 DEF f
  <2> QED
    BY <1>3, <2>1 DEF AllocationsAddUp
<1>7. AccountBalance = 0
  <2>1. Unstatemented = {}
    BY DEF Unstatemented, Posted
  <2>2. Total({}) = 0
    BY SumEmpty DEF Total
  <2>3. \A o \in FeeOrders : Prepaid[o] = 0
    BY <1>3 DEF Prepaid
  <2>4. \A w \in Weeks : Owed[w] = 0
    BY <1>3 DEF Owed
  <2>5. SumFunctionOnSet(Prepaid, FeeOrders) = 0 /\ SumFunctionOnSet(Owed, Weeks) = 0
    BY <2>3, <2>4, BookSets, SumOfZeros
  <2>6. AccountBalance = 0 - 0 + 0
    BY <1>2, <2>1, <2>2, <2>5, BalanceParts
  <2> QED
    BY <2>6
<1>8. Charged = {} /\ Reversed = {} /\ Credited = {} /\ Price = [o \in FeeOrders |-> 0]
  BY <1>3 DEF Charged, Reversed, Credited, Price, Entries
<1> QED
  BY <1>2, <1>4, <1>5, <1>6, <1>7, <1>8 DEF LedgerInvariant, BookRows

LEMMA QuietKeeps ==
  ASSUME LedgerInvariant, QuietSteps PROVE LedgerInvariant' /\ account' = account
<1>1. TypeOK /\ BookRows /\ FreezeWaits /\ CreditsOnce /\ CapturedWereAsked
  BY DEF LedgerInvariant, BookRows
<1>2. /\ SameRows /\ TypeOK' /\ FreezeWaits'
      /\ captured' \in {captured} \cup {captured \cup {o} : o \in {p \in FeeOrders : pay[p].status # "none"}}
  BY <1>1, QuietStepsTouch
<1>3. BookRows' /\ account' = account
  BY <1>1, <1>2, SameRowsKeep
<1>4. CapturedWereAsked'
  BY <1>1, <1>2 DEF SameRows, CapturedWereAsked, TypeOK
<1> QED
  BY <1>2, <1>3, <1>4 DEF LedgerInvariant

(* Every step is one of the balance's or leaves the account alone.            *)
AccountMoves ==
  \/ account' = account
  \/ \E j \in Prints :
       /\ j \notin Charged /\ Charged' = Charged \cup {j}
       /\ AccountBalance' = AccountBalance + Commission[j]
       /\ Reversed' = Reversed /\ Price' = Price /\ Credited' = Credited
  \/ \E j \in Prints :
       /\ j \in Charged \ Reversed /\ Reversed' = Reversed \cup {j}
       /\ AccountBalance' = AccountBalance - Commission[j]
       /\ Charged' = Charged /\ Price' = Price /\ Credited' = Credited
  \/ \E o \in FeeOrders :
       /\ Price[o] = 0
       /\ \E due \in Nat \ {0} : Price' = [Price EXCEPT ![o] = due]
       /\ AccountBalance' = AccountBalance
       /\ Charged' = Charged /\ Reversed' = Reversed /\ Credited' = Credited
  \/ \E o \in FeeOrders :
       /\ Price[o] # 0 /\ o \notin Credited /\ Credited' = Credited \cup {o}
       /\ AccountBalance' = AccountBalance - Price[o]
       /\ Charged' = Charged /\ Reversed' = Reversed /\ Price' = Price

LEMMA LedgerStep ==
  ASSUME LedgerInvariant, [Next]_vars PROVE LedgerInvariant' /\ AccountMoves
<1>1. CASE UNCHANGED vars
  <2>1. TypeOK' /\ BookRows /\ CapturedWereAsked' /\ FreezeWaits'
    BY <1>1 DEF vars, LedgerInvariant, TypeOK, CapturedWereAsked, FreezeWaits
  <2>2. SameRows
    BY <1>1 DEF vars, SameRows
  <2> QED
    BY <2>1, <2>2, SameRowsKeep DEF LedgerInvariant, AccountMoves
<1>2. ASSUME NEW o \in FeeOrders, SettleFromWebhook(o) \/ SettleFromCallback(o) \/ Reconcile(o)
      PROVE  LedgerInvariant' /\ AccountMoves
  <2>1. Settled(o) /\ UNCHANGED <<posted, line, captured, week, enabled, switches>>
    BY <1>2 DEF SettleFromWebhook, SettleFromCallback, Reconcile
  <2> QED
    BY <2>1, SettledKeeps DEF AccountMoves
<1>3. CASE QuietSteps
  BY <1>3, QuietKeeps DEF AccountMoves
<1>4. CASE Freeze
  BY <1>4, FreezeKeeps DEF AccountMoves
<1>5. ASSUME NEW j \in Prints, freeze = None, PostCommission(j) \/ ConfirmCounterRefund(j)
      PROVE  LedgerInvariant' /\ AccountMoves
  BY <1>5, PostCommissionKeeps, RefundKeeps DEF AccountMoves
<1>6. CASE freeze = None /\ CreateFeeOrder
  BY <1>6, CreateKeeps DEF AccountMoves
<1> QED
  BY <1>1, <1>2, <1>3, <1>4, <1>5, <1>6 DEF Next, QuietSteps, IdleSteps

(* The books of a shop, for every number of prints, weeks and orders: types,  *)
(* the numbering and pricing of orders (createFeeOrder), one credit per        *)
(* payment (settleFeePayment), no statement overpaid, what a waiting freeze    *)
(* counts on (freezeWeeklyCommissionStatement), and allocations that add up.   *)
THEOREM LedgerInvariantHolds == Spec => []LedgerInvariant
<1>1. Init => LedgerInvariant
  BY LedgerStarts
<1>2. LedgerInvariant /\ [Next]_vars => LedgerInvariant'
  BY LedgerStep
<1> QED
  BY <1>1, <1>2, PTL DEF Spec

(* The allocations of a payment and what is left of it are the payment, and   *)
(* the allocations to a statement are what it shows as paid                   *)
(* (settleFeePayment, applyPrepaidToStatement).                                *)
THEOREM AllocationsAddUpHolds == Spec => []AllocationsAddUp
<1>1. LedgerInvariant => AllocationsAddUp
  BY DEF LedgerInvariant, BookRows
<1> QED
  BY <1>1, LedgerInvariantHolds, PTL

(* The ledger implements the balance: the account, spread over entries,       *)
(* statements and prepaid amounts, moves by a verified print, its refund and   *)
(* a captured payment alone, each of them once (computeFeeAccount).            *)
THEOREM BooksBalanceHolds == Spec => BooksBalance
<1>1. Init => Balance!Init
  BY LedgerStarts DEF Balance!Init, Charged, Reversed, Credited, Price
<1>2. LedgerInvariant /\ [Next]_vars => [Balance!Next]_(Balance!vars)
  <2> SUFFICES ASSUME LedgerInvariant, [Next]_vars PROVE [Balance!Next]_(Balance!vars)
    OBVIOUS
  <2>1. AccountMoves
    BY LedgerStep
  <2>2. CASE account' = account
    BY <2>2 DEF account, Balance!vars, Charged, Reversed, Credited, Price
  <2>3. ASSUME NEW j \in Prints, j \notin Charged, Charged' = Charged \cup {j},
               AccountBalance' = AccountBalance + Commission[j],
               Reversed' = Reversed, Price' = Price, Credited' = Credited
        PROVE  Balance!Charge(j)
    BY <2>3 DEF Balance!Charge, Charged, Reversed, Credited, Price
  <2>4. ASSUME NEW j \in Prints, j \in Charged \ Reversed, Reversed' = Reversed \cup {j},
               AccountBalance' = AccountBalance - Commission[j],
               Charged' = Charged, Price' = Price, Credited' = Credited
        PROVE  Balance!Reverse(j)
    BY <2>4 DEF Balance!Reverse, Charged, Reversed, Credited, Price
  <2>5. ASSUME NEW o \in FeeOrders, Price[o] = 0,
               NEW due \in Nat \ {0}, Price' = [Price EXCEPT ![o] = due],
               AccountBalance' = AccountBalance,
               Charged' = Charged, Reversed' = Reversed, Credited' = Credited
        PROVE  Balance!Ask(o)
    <3>1. Price'[o] = due
      BY <2>5 DEF Price
    <3>2. Price[o] = 0 /\ Price'[o] \in Nat \ {0} /\ Price' = [Price EXCEPT ![o] = Price'[o]]
      BY <2>5, <3>1
    <3> QED
      BY <2>5, <3>2 DEF Balance!Ask, Charged, Reversed, Credited, Price
  <2>6. ASSUME NEW o \in FeeOrders, Price[o] # 0, o \notin Credited,
               Credited' = Credited \cup {o}, AccountBalance' = AccountBalance - Price[o],
               Charged' = Charged, Reversed' = Reversed, Price' = Price
        PROVE  Balance!Credit(o)
    BY <2>6 DEF Balance!Credit, Charged, Reversed, Credited, Price
  <2> QED
    BY <2>1, <2>2, <2>3, <2>4, <2>5, <2>6 DEF AccountMoves, Balance!Next
<1> QED
  BY <1>1, <1>2, LedgerInvariantHolds, PTL DEF Spec, BooksBalance, Balance!Spec
================================================================================
