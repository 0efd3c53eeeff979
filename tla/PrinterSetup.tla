----------------------------- MODULE PrinterSetup -----------------------------
(***************************************************************************)
(* The computers and printers of one shop.  The desktop app starts its     *)
(* print engine again and again; the engine reports the printers its       *)
(* computer sees; the owner adds, links, tests and removes printers and    *)
(* computers.  Which computer reaches which printer is a list on the       *)
(* computer's row, which reports and link calls read and write back.       *)
(* Every engine sees all the Windows printers of the shop.                 *)
(***************************************************************************)
EXTENDS Naturals, Sequences, FiniteSets

CONSTANTS
  Printers,    \* printer profiles, each named after its own Windows printer
  Computers,   \* rows of Agent, each with its token
  Engines,     \* numbers of processes of the desktop app's computer
  Tests,       \* test pages, numbered as they are asked for
  MaxSetup,    \* bound: requests of the owner and the staff
  MaxTrouble,  \* bound: crashes, dropped sockets and lost requests
  Nothing

ASSUME SetupAssumption ==
  /\ Engines \subseteq Nat /\ Tests \subseteq Nat /\ 0 \notin Tests
  /\ Computers # {} /\ Printers # {} /\ Nothing \notin Computers \cup Printers \cup Engines
  /\ MaxSetup \in Nat /\ MaxTrouble \in Nat

VARIABLES
  printer,   \* Printer: its row, osPrinterName, status and last test
  computer,  \* Agent: its row, status, detectedPrinters, connectedPrinterIds
  report,    \* POST /agent/printers of each computer
  linkCall,  \* connectPrinterToDetectingAgents for each printer
  removal,   \* DELETE /printers/:id: "counted" when no active job was found
  order,     \* one order: status and assignedPrinterId
  app,       \* the desktop app: stored token, starts under way, engine, timer
  engine,    \* the processes: whose token they hold, whether connected
  late,      \* computers to be marked offline: their socket closed, or they
             \* were found silent
  fresh,     \* a computer registered but not configured yet
  page,      \* test pages at an engine
  result,    \* results of test pages on their way
  spooled,   \* history: tests whose page a spooler took
  crossed,   \* history: an order was assigned to a printer being removed
  acts, trouble

server == <<printer, computer, report, linkCall, removal, order, late, crossed>>
desktop == <<app, engine, fresh>>
testing == <<page, result, spooled>>
setupVars == <<server, desktop, testing, acts, trouble>>

Act == acts < MaxSetup /\ acts' = acts + 1
Trouble == trouble < MaxTrouble /\ trouble' = trouble + 1

-----------------------------------------------------------------------------
TestRows == [id: Tests \cup {0}, by: Computers \cup {Nothing},
             status: {"none", "requested", "spool_accepted", "failed"}]
PrinterRows == [there: BOOLEAN, linked: BOOLEAN, online: BOOLEAN, test: TestRows]
ComputerRows == [there: BOOLEAN, online: BOOLEAN, detected: BOOLEAN, connected: SUBSET Printers]

NoTest == [id |-> 0, by |-> Nothing, status |-> "none"]
Absent == [there |-> FALSE, linked |-> FALSE, online |-> FALSE, test |-> NoTest]
Added(linked) == [there |-> TRUE, linked |-> linked, online |-> TRUE, test |-> NoTest]

Unregistered == [there |-> FALSE, online |-> FALSE, detected |-> FALSE, connected |-> {}]
Registered == [Unregistered EXCEPT !.there = TRUE]

Tokens == Computers \cup {Nothing}

AppRows ==
  {x \in [token: Tokens, starts: Seq(Tokens), engine: Engines \cup {Nothing}, timer: BOOLEAN] :
     x.timer \/ x.engine # Nothing => x.token # Nothing}
EngineRows == {e \in [token: Tokens, connected: BOOLEAN] : e.connected => e.token # Nothing}
Stopped == [token |-> Nothing, connected |-> FALSE]

NoReport == [step |-> "idle", list |-> {}]

(* todo: computers to write to, with the list read of each. *)
NoCall == [step |-> "idle", todo |-> <<>>]
Asked == [step |-> "asked", todo |-> <<>>]
LinkCalls == [step: {"idle", "asked", "writing"},
              todo: {<<>>} \cup UNION {[S -> SUBSET Printers] : S \in SUBSET Computers}]

ActiveOrder == {"released", "printing"}

(* The app with the token it holds and the starts under way, and the printers *)
(* that were added.                                                           *)
Found(token, starts, added) ==
  /\ printer = [p \in Printers |-> IF p \in added THEN Added(TRUE) ELSE Absent]
  /\ computer = [a \in Computers |-> IF a = token THEN Registered ELSE Unregistered]
  /\ report = [a \in Computers |-> NoReport]
  /\ linkCall = [p \in Printers |-> NoCall] /\ removal = [p \in Printers |-> "idle"]
  /\ order = [status |-> "queued", printer |-> Nothing]
  /\ app = [token |-> token, starts |-> starts, engine |-> Nothing, timer |-> FALSE]
  /\ engine = [e \in Engines |-> Stopped]
  /\ late = {} /\ fresh = Nothing
  /\ page = {} /\ result = {} /\ spooled = {} /\ crossed = FALSE
  /\ acts = 0 /\ trouble = 0

(* The app is not running. *)
SetupRest == Found(Nothing, <<>>, {})

(* The app is launched: in a new shop, or where a computer and a printer were *)
(* set up before.                                                             *)
Launched(token, added) == Found(token, <<token>>, added)

SetupInit ==
  \/ Launched(Nothing, {})
  \/ Launched(CHOOSE a \in Computers : TRUE, {CHOOSE p \in Printers : TRUE})

-----------------------------------------------------------------------------
(* The desktop app. *)

(* A process is gone: the server hears of its socket later, its pages are lost. *)
Gone(e) ==
  /\ engine' = [engine EXCEPT ![e] = Stopped]
  /\ late' = IF engine[e].connected THEN late \cup {engine[e].token} ELSE late
  /\ page' = {g \in page : g.engine # e}

StopEngine ==
  IF app.engine = Nothing THEN UNCHANGED <<engine, late, page>> ELSE Gone(app.engine)

(* startAgent up to its await: the timer is cancelled, the engine stopped.    *)
Starting(token) ==
  /\ Len(app.starts) < 2
  /\ app' = [token |-> token, starts |-> Append(app.starts, token),
             engine |-> Nothing, timer |-> FALSE]
  /\ StopEngine

(* The button, the tray menu. *)
RestartEngine ==
  /\ app.token # Nothing
  /\ Act
  /\ Starting(app.token)
  /\ UNCHANGED <<printer, computer, report, linkCall, removal, order, crossed,
                 fresh, result, spooled, trouble>>

RestartTimerFires ==
  /\ app.timer
  /\ Starting(app.token)
  /\ UNCHANGED <<printer, computer, report, linkCall, removal, order, crossed,
                 fresh, result, spooled, acts, trouble>>

(* ... and after it, with the token stored before or meanwhile, if any.  The  *)
(* process replaces whichever a start that overlapped this one has spawned.   *)
SetupRequired ==
  /\ app.starts # <<>> /\ Head(app.starts) = Nothing
  /\ app' = [app EXCEPT !.starts = Tail(@)]
  /\ UNCHANGED <<server, engine, fresh, testing, acts, trouble>>

Spawn ==
  /\ app.starts # <<>> /\ app.token # Nothing
  /\ \E e \in Engines, token \in {Head(app.starts), app.token} \ {Nothing} :
       /\ engine[e] = Stopped /\ \A f \in Engines : f < e => engine[f] # Stopped
       /\ engine' = [engine EXCEPT ![e].token = token]
       /\ app' = [app EXCEPT !.starts = Tail(@), !.engine = e]
  /\ UNCHANGED <<server, fresh, testing, acts, trouble>>

(* scheduleRestart, for the process the app knows as its engine. *)
EngineCrashes(e) ==
  /\ engine[e] # Stopped
  /\ Trouble
  /\ Gone(e)
  /\ app' = IF app.engine = e THEN [app EXCEPT !.engine = Nothing, !.timer = TRUE] ELSE app
  /\ UNCHANGED <<printer, computer, report, linkCall, removal, order, crossed,
                 fresh, result, spooled, acts>>

(* The engine's socket connects when its token is known. *)
Connect(e) ==
  LET a == engine[e].token IN
  /\ a # Nothing /\ ~engine[e].connected
  /\ computer[a].there
  /\ engine' = [engine EXCEPT ![e].connected = TRUE]
  /\ computer' = [computer EXCEPT ![a].online = TRUE]
  /\ UNCHANGED <<printer, report, linkCall, removal, order, late, crossed, app,
                 fresh, testing, acts, trouble>>

SocketDrops(e) ==
  /\ engine[e].connected
  /\ Trouble
  /\ engine' = [engine EXCEPT ![e].connected = FALSE]
  /\ late' = late \cup {engine[e].token}
  /\ UNCHANGED <<printer, computer, report, linkCall, removal, order, crossed, app,
                 fresh, testing, acts>>

Running(a) == \E e \in Engines : engine[e].token = a

Heartbeat(a) ==
  /\ Running(a) /\ computer[a].there
  /\ computer' = [computer EXCEPT ![a].online = TRUE]
  /\ UNCHANGED <<printer, report, linkCall, removal, order, late, crossed, desktop,
                 testing, acts, trouble>>

(* detectStaleAgents lists the computer, also one that runs but is cut off for *)
(* STALE_AGENT_MS; the disconnect handler of a socket may run after the next   *)
(* connection: neither looks again when it writes.                             *)
FindSilent(a) ==
  /\ computer[a].there /\ computer[a].online
  /\ late' = late \cup {a}
  /\ IF Running(a) THEN Trouble ELSE UNCHANGED trouble
  /\ UNCHANGED <<printer, computer, report, linkCall, removal, order, crossed, desktop,
                 testing, acts>>

MarkOffline(a) ==
  /\ a \in late
  /\ late' = late \ {a}
  /\ computer' = [computer EXCEPT ![a].online = FALSE]
  /\ UNCHANGED <<printer, report, linkCall, removal, order, crossed, desktop, testing, acts,
                 trouble>>

-----------------------------------------------------------------------------
(* Which computer reaches which printer. *)

(* Fault: only the owner's link calls add to the list. *)
KnownOnly(a) == computer[a].connected

(* The list of the computer and every printer linked to a name it sees. *)
Reached(a) ==
  computer[a].connected \cup {p \in Printers : printer[p].there /\ printer[p].linked}

(* requireAgent reads the row, the handler the printers ... *)
ReportArrives(a) ==
  /\ report[a].step = "idle"
  /\ Running(a) /\ computer[a].there
  /\ report' = [report EXCEPT ![a] = [step |-> "read", list |-> Reached(a)]]
  /\ UNCHANGED <<printer, computer, linkCall, removal, order, late, crossed, desktop,
                 testing, acts, trouble>>

(* ... and writes both as they were then. *)
ReportWrites(a) ==
  /\ report[a].step = "read"
  /\ report' = [report EXCEPT ![a] = NoReport]
  /\ computer' = IF computer[a].there
                 THEN [computer EXCEPT ![a].detected = TRUE, ![a].connected = report[a].list]
                 ELSE computer
  /\ UNCHANGED <<printer, linkCall, removal, order, late, crossed, desktop,
                 testing, acts, trouble>>

(* connectPrinterToDetectingAgents reads every computer, then writes to those *)
(* that see the printer and do not list it, each what it read and the printer.*)
LinkReads(p) ==
  /\ linkCall[p].step = "asked"
  /\ LET todo == {a \in Computers : computer[a].there /\ computer[a].detected
                                    /\ p \notin computer[a].connected}
     IN linkCall' = [linkCall EXCEPT ![p] =
          [step |-> IF todo = {} THEN "idle" ELSE "writing",
           todo |-> [a \in todo |-> computer[a].connected]]]
  /\ UNCHANGED <<printer, computer, report, removal, order, late, crossed, desktop,
                 testing, acts, trouble>>

(* A computer removed meanwhile makes the request fail. *)
LinkWrites(p, a) ==
  /\ linkCall[p].step = "writing" /\ a \in DOMAIN linkCall[p].todo
  /\ LET rest == DOMAIN linkCall[p].todo \ {a} IN
       linkCall' = [linkCall EXCEPT ![p] =
         IF rest = {} \/ ~computer[a].there THEN NoCall
         ELSE [@ EXCEPT !.todo = [b \in rest |-> linkCall[p].todo[b]]]]
  /\ computer' = IF computer[a].there
                 THEN [computer EXCEPT ![a].connected = linkCall[p].todo[a] \cup {p}]
                 ELSE computer
  /\ UNCHANGED <<printer, report, removal, order, late, crossed, desktop,
                 testing, acts, trouble>>

-----------------------------------------------------------------------------
(* The owner's requests. *)

(* A Windows printer that a computer of the shop sees and no profile names.   *)
UnlinkedDetected(p) ==
  /\ ~printer[p].linked
  /\ \E a \in Computers : computer[a].there /\ computer[a].detected

(* POST /printers. *)
Created(p, linked) ==
  /\ printer' = [printer EXCEPT ![p] = Added(linked)]
  /\ linkCall' = IF linked THEN [linkCall EXCEPT ![p] = Asked] ELSE linkCall

(* From the detected printers, linked, or by hand, not linked. *)
AddPrinter(p, linked) ==
  /\ ~printer[p].there /\ linkCall[p] = NoCall
  /\ linked => UnlinkedDetected(p)
  /\ Act
  /\ Created(p, linked)
  /\ UNCHANGED <<computer, report, removal, order, late, crossed, desktop, testing,
                 trouble>>

(* PATCH /printers/:id: a linked printer is connected again by any change.    *)
Patched(p, row) ==
  /\ printer' = [printer EXCEPT ![p] = row]
  /\ linkCall' = IF row.linked THEN [linkCall EXCEPT ![p] = Asked] ELSE linkCall

(* The picker offers detected printers to a profile that is not linked. *)
LinkPrinter(p) ==
  /\ printer[p].there /\ UnlinkedDetected(p) /\ linkCall[p] = NoCall
  /\ Act
  /\ Patched(p, [printer[p] EXCEPT !.linked = TRUE])
  /\ UNCHANGED <<computer, report, removal, order, late, crossed, desktop, testing,
                 trouble>>

SetStatus(p) ==
  /\ printer[p].there /\ linkCall[p] = NoCall
  /\ Act
  /\ Patched(p, [printer[p] EXCEPT !.online = ~@])
  /\ UNCHANGED <<computer, report, removal, order, late, crossed, desktop, testing,
                 trouble>>

ActiveOn(p) == order.printer = p /\ order.status \in ActiveOrder

(* DELETE /printers/:id: the count, then the delete, which clears the printer *)
(* of its orders and leaves its id in the lists of the computers.             *)
CountActive(p) ==
  /\ printer[p].there /\ removal[p] = "idle"
  /\ ~ActiveOn(p)
  /\ Act
  /\ removal' = [removal EXCEPT ![p] = "counted"]
  /\ UNCHANGED <<printer, computer, report, linkCall, order, late, crossed, desktop,
                 testing, trouble>>

DeletePrinter(p) ==
  /\ removal[p] = "counted"
  /\ removal' = [removal EXCEPT ![p] = "idle"]
  /\ printer' = [printer EXCEPT ![p] = Absent]
  /\ order' = IF order.printer = p THEN [order EXCEPT !.printer = Nothing] ELSE order
  /\ UNCHANGED <<computer, report, linkCall, late, crossed, desktop, testing, acts,
                 trouble>>

(* PATCH /agents/:id: the owner's own list, of printers there are. *)
SetConnected(a, list) ==
  /\ computer[a].there /\ \A p \in list : printer[p].there
  /\ list # computer[a].connected
  /\ Act
  /\ computer' = [computer EXCEPT ![a].connected = list]
  /\ UNCHANGED <<printer, report, linkCall, removal, order, late, crossed, desktop,
                 testing, trouble>>

(* DELETE /agents/:id: nothing tells the engine that holds its token. *)
Unregister(a) ==
  /\ computer' = [computer EXCEPT ![a] = Unregistered]
  /\ late' = late \ {a}

(* Connect this computer: the row is created, then the app configured with    *)
(* its token and started; when that fails, the row is deleted again, unless   *)
(* that request is lost.                                                      *)
RegisterComputer(a) ==
  /\ ~computer[a].there /\ fresh = Nothing /\ a # app.token
  /\ Act
  /\ computer' = [computer EXCEPT ![a] = Registered]
  /\ fresh' = a
  /\ UNCHANGED <<printer, report, linkCall, removal, order, late, crossed, app,
                 engine, testing, trouble>>

Configure ==
  /\ fresh # Nothing
  /\ Starting(fresh)
  /\ fresh' = Nothing
  /\ UNCHANGED <<printer, computer, report, linkCall, removal, order, crossed,
                 result, spooled, acts, trouble>>

ConfigureFails ==
  /\ fresh # Nothing
  /\ Trouble
  /\ Unregister(fresh) \/ UNCHANGED <<computer, late>>
  /\ fresh' = Nothing
  /\ UNCHANGED <<printer, report, linkCall, removal, order, crossed, app, engine, testing,
                 acts>>

RemoveComputer(a) ==
  /\ computer[a].there
  /\ Act
  /\ Unregister(a)
  /\ UNCHANGED <<printer, report, linkCall, removal, order, crossed, desktop, testing,
                 trouble>>

-----------------------------------------------------------------------------
(* One order.  The printer a release or a staff assignment picked was read    *)
(* before; the write only needs it to exist.                                  *)
Assign(p) ==
  /\ order.status = "queued" \/ (order.status = "released" /\ order.printer = Nothing)
  /\ printer[p].there
  /\ Act
  /\ order' = [status |-> "released", printer |-> p]
  /\ crossed' = (crossed \/ removal[p] = "counted")
  /\ UNCHANGED <<printer, computer, report, linkCall, removal, late, desktop,
                 testing, trouble>>

PrintOrder ==
  /\ order.status \in ActiveOrder /\ order.printer # Nothing
  /\ order' = [order EXCEPT !.status = IF @ = "released" THEN "printing" ELSE "done"]
  /\ UNCHANGED <<printer, computer, report, linkCall, removal, late, crossed, desktop,
                 testing, acts, trouble>>

-----------------------------------------------------------------------------
(* Test pages. *)

(* Test pages have ids of their own: none that anything still knows of.      *)
NextTest ==
  {t \in Tests : /\ \A p \in Printers : printer[p].test.id < t
                 /\ \A x \in page \cup result : x.test < t
                 /\ \A u \in spooled : u < t}

(* selectPrinterTestAgent: the computers a page can be sent to; of several    *)
(* the staff choose one.                                                      *)
TestAgents(p) ==
  {a \in Computers : computer[a].there /\ computer[a].online /\ p \in computer[a].connected}

(* Every process connected with the token of the computer gets the page.      *)
TestPrinter(p, a, t) ==
  /\ printer[p].there /\ printer[p].online /\ printer[p].linked
  /\ a \in TestAgents(p)
  /\ t \in NextTest /\ \A u \in NextTest : t <= u
  /\ Act
  /\ printer' = [printer EXCEPT ![p].test = [id |-> t, by |-> a, status |-> "requested"]]
  /\ page' = page \cup
       {[engine |-> e, test |-> t, printer |-> p, by |-> a] :
          e \in {f \in Engines : engine[f].token = a /\ engine[f].connected}}
  /\ UNCHANGED <<computer, report, linkCall, removal, order, late, crossed, desktop,
                 result, spooled, trouble>>

Result(g, status) == [test |-> g.test, printer |-> g.printer, by |-> g.by, status |-> status]

PrintPage(g) ==
  /\ g \in page
  /\ page' = page \ {g}
  /\ \/ /\ spooled' = spooled \cup {g.test}
        /\ result' = result \cup {Result(g, "spool_accepted")}
     \/ /\ result' = result \cup {Result(g, "failed")}
        /\ UNCHANGED spooled
  /\ UNCHANGED <<server, desktop, acts, trouble>>

(* An answer that never comes is taken for a failure of the page. *)
ResultLost(r) ==
  /\ r \in result /\ r.status = "spool_accepted"
  /\ Trouble
  /\ result' = (result \ {r}) \cup {[r EXCEPT !.status = "failed"]}
  /\ UNCHANGED <<server, desktop, page, spooled, acts>>

(* Fault: the printer is enough to find the test. *)
TestOfPrinter(r) == printer[r.printer].there /\ printer[r.printer].test.by = r.by

IsCurrent(r) ==
  /\ printer[r.printer].there
  /\ printer[r.printer].test.id = r.test /\ printer[r.printer].test.by = r.by

(* A test that is no longer current gets a conflict. *)
RecordResult(r) ==
  /\ r \in result
  /\ result' = result \ {r}
  /\ printer' = IF computer[r.by].there /\ IsCurrent(r)
                THEN [printer EXCEPT ![r.printer].test.status = r.status] ELSE printer
  /\ UNCHANGED <<computer, report, linkCall, removal, order, late, crossed, desktop,
                 page, spooled, acts, trouble>>

-----------------------------------------------------------------------------
Reporting(a) == ReportArrives(a) \/ ReportWrites(a)

Requests ==
  \/ RestartEngine
  \/ \E p \in Printers :
       \/ \E linked \in BOOLEAN : AddPrinter(p, linked)
       \/ LinkPrinter(p) \/ SetStatus(p) \/ CountActive(p) \/ Assign(p)
       \/ \E a \in Computers, t \in Tests : TestPrinter(p, a, t)
  \/ \E a \in Computers :
       \/ RegisterComputer(a) \/ RemoveComputer(a)
       \/ \E list \in SUBSET Printers : SetConnected(a, list)

Troubles ==
  \/ \E e \in Engines : EngineCrashes(e) \/ SocketDrops(e)
  \/ ConfigureFails
  \/ \E r \in result : ResultLost(r)

SetupNext ==
  \/ Requests \/ Troubles
  \/ RestartTimerFires \/ SetupRequired \/ Spawn \/ Configure \/ PrintOrder
  \/ \E e \in Engines : Connect(e)
  \/ \E a \in Computers :
       Heartbeat(a) \/ FindSilent(a) \/ MarkOffline(a) \/ Reporting(a)
  \/ \E p \in Printers :
       LinkReads(p) \/ DeletePrinter(p) \/ \E a \in Computers : LinkWrites(p, a)
  \/ \E g \in page : PrintPage(g)
  \/ \E r \in result : RecordResult(r)

SetupSpec == SetupInit /\ [][SetupNext]_setupVars

(* The app's own continuations, the engine's 30 s interval, and the handlers  *)
(* of requests the server has taken.                                          *)
SetupFairness ==
  /\ WF_setupVars(RestartTimerFires) /\ WF_setupVars(SetupRequired \/ Spawn)
  /\ \A a \in Computers :
       /\ WF_setupVars(Heartbeat(a)) /\ WF_setupVars(Reporting(a))
       /\ WF_setupVars(MarkOffline(a))
  /\ \A p \in Printers : WF_setupVars(LinkReads(p) \/ \E a \in Computers : LinkWrites(p, a))

-----------------------------------------------------------------------------
SetupTypeOK ==
  /\ printer \in [Printers -> PrinterRows]
  /\ computer \in [Computers -> ComputerRows]
  /\ report \in [Computers -> [step: {"idle", "read"}, list: SUBSET Printers]]
  /\ linkCall \in [Printers -> LinkCalls] /\ removal \in [Printers -> {"idle", "counted"}]
  /\ order \in [status: {"queued", "released", "printing", "done"}, printer: Printers \cup {Nothing}]
  /\ app \in AppRows
  /\ engine \in [Engines -> EngineRows]
  /\ late \subseteq Computers /\ fresh \in Tokens
  /\ page \subseteq [engine: Engines, test: Tests, printer: Printers, by: Computers]
  /\ result \subseteq [test: Tests, printer: Printers, by: Computers,
                       status: {"spool_accepted", "failed"}]
  /\ spooled \subseteq Tests /\ crossed \in BOOLEAN
  /\ acts \in 0 .. MaxSetup /\ trouble \in 0 .. MaxTrouble

(* A printer linked to one the shop's computer sees becomes and stays         *)
(* reachable, whatever crashes, lost updates of the list, late disconnects    *)
(* and stale sweeps came before (availability.ts:47-66, agents/routes.ts:80,  *)
(* desktop.ts:84-92).                                                         *)
LinkedPrinterIsReached ==
  \A a \in Computers, p \in Printers :
    <>[](app.token = a /\ computer[a].there /\ printer[p].there /\ printer[p].linked)
      => <>[](computer[a].online /\ p \in computer[a].connected)

(* A printer is never taken from under an order that was released to it, but  *)
(* for an order assigned between the count and the delete                     *)
(* (shops/routes.ts:1283-1287).                                               *)
ReleasedOrderHasPrinter ==
  order.status \in ActiveOrder /\ ~crossed => order.printer # Nothing

(* "Spool accepted" is about the page that was asked for last: a spooler took *)
(* just that one, whatever results of earlier pages come late                 *)
(* (agents/routes.ts:252-257).                                                *)
AcceptedTestWasPrinted ==
  \A p \in Printers : printer[p].test.status = "spool_accepted" => printer[p].test.id \in spooled
===============================================================================
