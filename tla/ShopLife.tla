------------------------------ MODULE ShopLife ------------------------------
(***************************************************************************)
(* How a shop comes before students and leaves again: owner edits and the  *)
(* review they reset, submission and the decisions of administrators, the  *)
(* shop that publishes itself when its counter computer is ready, the      *)
(* printer path that makes it open, and the students who asked to be told  *)
(* when it opens.  A handler reads, awaits and writes later, so it is a    *)
(* list of steps still to do, with what it read.                           *)
(***************************************************************************)
EXTENDS Naturals, FiniteSets, Sequences

CONSTANTS
  Facts,        \* who and where a shop can be; 0 while it has no location
  Students,     \* students who may ask to be told
  FcmEnabled,   \* messages go through the outbox of FCM, otherwise by Web Push
  MaxEdits,     \* bound: edits, submissions and switches by the owner's side
  MaxDecisions, \* bound: decisions of administrators
  MaxOutages,   \* bound: failures: the computer stops, handlers die, fee blocks
  MaxActs,      \* bound: all of these together
  MaxFlight     \* bound: requests of people in flight at once

ASSUME ShopAssumption ==
  /\ {0, 1} \subseteq Facts /\ Facts \subseteq Nat /\ FcmEnabled \in BOOLEAN
  /\ {MaxEdits, MaxDecisions, MaxOutages, MaxActs, MaxFlight} \subseteq Nat

VARIABLES
  autoLive,   \* the shop was registered under the auto-go-live rule
  shop,       \* columns of the shop row
  printer,    \* its printer profile
  agent,      \* its counter computer: the row, and whether the process runs
  interest,   \* rows of ShopOpenInterest: the students to be told
  noticed,    \* students with an outbox row of the key shop-reopened:<shop>
  lastAction, \* the latest decision in the audit trail
  flight,     \* handlers under way
  spent,      \* counters of the bounds
  reviewed,   \* history: the facts an administrator verified
  overtaken,  \* history: kinds of unguarded writes that landed on a row they had not read
  waiting     \* history: students promised a message and not told yet

people == <<interest, noticed, waiting>>
review == <<lastAction, reviewed, overtaken>>
vars == <<autoLive, shop, printer, agent, flight, spent, people, review>>

-----------------------------------------------------------------------------
ShopRows == [status: {"draft", "submitted", "verified", "rejected"}, published: BOOLEAN,
             facts: Facts, accepting: BOOLEAN, blocked: BOOLEAN]
PrinterRows == [linked: BOOLEAN, online: BOOLEAN]
AgentRows == [status: {"online", "offline"}, connected: BOOLEAN, runs: BOOLEAN]

(* todo: the steps a handler still has to take; was, saw: the facts and the   *)
(* status it read; to: the facts it was asked to save; who: the students it   *)
(* read and, once messages are sent, those of them that got none again.       *)
Steps == {"edit", "submit", "verify", "reject", "publish", "unpublish", "check", "golive",
          "ring", "tell", "forget", "register"}
Handlers == [by: {"people", "heartbeat", "report"}, todo: Seq(Steps) \ {<<>>},
             was: Facts, to: Facts,
             saw: {"draft", "submitted", "verified", "rejected", "-"}, who: SUBSET Students]
Handler(by, todo) ==
  [by |-> by, todo |-> todo, was |-> 0, to |-> 0, saw |-> "-", who |-> {}]

Located == shop.facts # 0
Linked == printer.linked
Reaches == agent.status = "online" /\ agent.connected /\ printer.online

Operational == shop.accepting /\ ~shop.blocked /\ Located /\ Reaches
Listed == shop.status = "verified" /\ shop.published
Ready == Located /\ Linked /\ Reaches

(* Fault: only a draft counts. *)
StillDraft == shop.status = "draft"

NeverReviewed == shop.status \in {"draft", "submitted"}

At(h, step) == h \in flight /\ Head(h.todo) = step

(* The handler after its step; it remembers what it read while it needs it.   *)
After(h, todo) ==
  IF todo = <<>> THEN {}
  ELSE LET next == [h EXCEPT !.todo = todo, !.was = 0, !.to = 0]
       IN  {[next EXCEPT !.saw = IF todo[Len(todo)] = "submit" THEN @ ELSE "-",
                         !.who = IF Head(todo) = "forget" THEN @ ELSE {}]}
Rest(h) == After(h, Tail(h.todo))
Finish(h) == flight' = (flight \ {h}) \cup Rest(h)
Drop(h) == flight' = flight \ {h}

Room == Cardinality({h \in flight : h.by = "people"}) < MaxFlight
Start(h) == Room /\ flight' = flight \cup {h}
Spend(kind) == spent' = [spent EXCEPT ![kind] = @ + 1]
May(kind) ==
  /\ spent.edits + spent.decisions + spent.outages < MaxActs
  /\ spent[kind] < [edits |-> MaxEdits, decisions |-> MaxDecisions, outages |-> MaxOutages][kind]

Init ==
  /\ autoLive \in BOOLEAN
  /\ shop \in [status: {"draft", "submitted"}, published: {FALSE}, facts: {0, 1},
               accepting: {TRUE}, blocked: {FALSE}]
  /\ printer \in [linked: BOOLEAN, online: {TRUE}]
  /\ agent = [status |-> "offline", connected |-> FALSE, runs |-> TRUE]
  /\ interest = {} /\ flight = {}
  /\ lastAction = "none" /\ reviewed = 0 /\ overtaken = {}
  /\ waiting = {} /\ noticed = {}
  /\ spent = [edits |-> 0, decisions |-> 0, outages |-> 0]
  /\ shop.status = "submitted" => shop.facts # 0 /\ printer.linked

-----------------------------------------------------------------------------
(* The owner's side. *)

(* PATCH /me: the handler compares the form with the row it reads.            *)
EditRead(to) ==
  /\ May("edits") /\ Spend("edits")
  /\ Start([Handler("people", <<"edit", "check">>) EXCEPT !.was = shop.facts, !.to = to])
  /\ UNCHANGED <<autoLive, shop, printer, agent, people, review>>

(* Fault: a material edit of a verified shop is saved like any other.         *)
SavedWithoutReview(h) == [shop EXCEPT !.facts = h.to]

(* The row after the save: a material change of a shop that is reviewed by    *)
(* hand throws the review away.                                               *)
Saved(h) ==
  IF ~autoLive /\ h.to # h.was
  THEN [shop EXCEPT !.facts = h.to, !.status = "draft", !.published = FALSE]
  ELSE [shop EXCEPT !.facts = h.to]

EditWrite(h) ==
  /\ At(h, "edit")
  /\ shop' = Saved(h)
  /\ overtaken' = overtaken \cup IF h.was = shop.facts THEN {} ELSE {"save"}
  /\ Finish(h)
  /\ UNCHANGED <<autoLive, printer, agent, spent, people, lastAction, reviewed>>

(* POST /verification/submit: publish at once if possible; otherwise park the *)
(* shop for review by what the first read said.                               *)
SubmitRead ==
  /\ May("edits") /\ Spend("edits")
  /\ ~(autoLive /\ shop.status = "rejected")
  /\ Located /\ Linked
  /\ Start([Handler("people", <<"check", "submit">>) EXCEPT !.saw = shop.status])
  /\ UNCHANGED <<autoLive, shop, printer, agent, people, review>>

StaysAsItIs(h) == (autoLive /\ h.saw = "draft") \/ h.saw = "verified"

SubmitWrite(h) ==
  /\ At(h, "submit")
  /\ IF StaysAsItIs(h)
     THEN UNCHANGED <<shop, overtaken>>
     ELSE /\ shop' = [shop EXCEPT !.status = "submitted", !.published = FALSE]
          /\ overtaken' = overtaken \cup IF h.saw = shop.status THEN {} ELSE {"submission"}
  /\ Finish(h)
  /\ UNCHANGED <<autoLive, printer, agent, spent, people, lastAction, reviewed>>

(* PATCH /availability. *)
SetAccepting(b) ==
  /\ May("edits") /\ Spend("edits")
  /\ shop.accepting # b
  /\ shop' = [shop EXCEPT !.accepting = b]
  /\ IF b THEN Start(Handler("people", <<"ring">>)) ELSE Room /\ UNCHANGED flight
  /\ UNCHANGED <<autoLive, printer, agent, people, review>>

(* PATCH /printers/:id: link the profile to the computer's printer, or switch *)
(* it; a linked profile is connected to every computer that detects it.       *)
SetPrinter(linked, online) ==
  /\ May("edits") /\ Spend("edits")
  /\ printer # [linked |-> linked, online |-> online]
  /\ printer' = [linked |-> linked, online |-> online]
  /\ agent' = [agent EXCEPT !.connected = @ \/ linked]
  /\ LET back == IF online /\ ~printer.online THEN <<"ring">> ELSE <<>>
         path == IF linked THEN <<"check", "ring">> ELSE <<>>
     IN  IF back \o path = <<>> THEN Room /\ UNCHANGED flight
         ELSE Start(Handler("people", back \o path))
  /\ UNCHANGED <<autoLive, shop, people, review>>

(* PATCH /agents/:id: the owner takes the printer from the computer's list.   *)
Disconnect ==
  /\ May("edits") /\ Spend("edits")
  /\ agent.connected
  /\ agent' = [agent EXCEPT !.connected = FALSE]
  /\ UNCHANGED <<autoLive, shop, printer, flight, people, review>>

-----------------------------------------------------------------------------
(* publishIfReady, called by every handler after which a shop may be ready.   *)

CheckReady(h) ==
  /\ At(h, "check")
  /\ IF autoLive /\ ~shop.published /\ NeverReviewed /\ Ready
     THEN flight' = (flight \ {h}) \cup After(h, <<"golive">> \o Tail(h.todo))
     ELSE Finish(h)
  /\ UNCHANGED <<autoLive, shop, printer, agent, spent, people, review>>

(* Fault: the update trusts what the check read. *)
PublishableAsRead == TRUE

Publishable == autoLive /\ ~shop.published /\ NeverReviewed

(* The submit handler answers at once when the shop was published.            *)
GoLive(h) ==
  /\ At(h, "golive")
  /\ IF Publishable
     THEN /\ shop' = [shop EXCEPT !.status = "verified", !.published = TRUE]
          /\ IF h.todo = <<"golive", "submit">> THEN Drop(h) ELSE Finish(h)
     ELSE Finish(h) /\ UNCHANGED shop
  /\ UNCHANGED <<autoLive, printer, agent, spent, people, review>>

(* GET /setup-status asks for it too. *)
AskSetupStatus ==
  /\ May("edits") /\ Spend("edits")
  /\ Start(Handler("people", <<"check">>))
  /\ UNCHANGED <<autoLive, shop, printer, agent, people, review>>

-----------------------------------------------------------------------------
(* Administrators: a decision reads the row, then updates it by id together   *)
(* with its audit event.                                                      *)
Decide(h, row) ==
  /\ May("decisions") /\ Spend("decisions")
  /\ row
  /\ Start(h)
  /\ UNCHANGED <<autoLive, shop, printer, agent, people, review>>

VerifyRead == Decide(Handler("people", <<"verify">>), shop.status = "submitted" /\ Located)
RejectRead == Decide(Handler("people", <<"reject">>), shop.status # "draft")
PublishRead == Decide(Handler("people", <<"publish">>), shop.status = "verified")

UnpublishRead == Decide(Handler("people", <<"unpublish">>), TRUE)

VerifyWrite(h) ==
  /\ At(h, "verify")
  /\ shop' = [shop EXCEPT !.status = "verified", !.published = FALSE]
  /\ lastAction' = "verified" /\ reviewed' = shop.facts
  /\ Finish(h)
  /\ UNCHANGED <<autoLive, printer, agent, spent, people, overtaken>>

RejectWrite(h) ==
  /\ At(h, "reject")
  /\ shop' = [shop EXCEPT !.status = "rejected", !.published = FALSE]
  /\ lastAction' = "rejected"
  /\ Finish(h)
  /\ UNCHANGED <<autoLive, printer, agent, spent, people, reviewed, overtaken>>

PublishWrite(h) ==
  /\ At(h, "publish")
  /\ shop' = [shop EXCEPT !.published = TRUE]
  /\ lastAction' = "published"
  /\ Finish(h)
  /\ UNCHANGED <<autoLive, printer, agent, spent, people, reviewed, overtaken>>

(* It counts as a decision only if it took the shop out of the students'      *)
(* sight: the console offers it for a shop that it shows as live.             *)
UnpublishWrite(h) ==
  /\ At(h, "unpublish")
  /\ shop' = [shop EXCEPT !.published = FALSE]
  /\ lastAction' = IF Listed THEN "unpublished" ELSE lastAction
  /\ Finish(h)
  /\ UNCHANGED <<autoLive, printer, agent, spent, people, reviewed, overtaken>>

-----------------------------------------------------------------------------
(* The counter computer, and the fee block. *)

Busy(by) == \E h \in flight : h.by = by

Heartbeat ==
  /\ agent.runs /\ ~Busy("heartbeat")
  /\ agent' = [agent EXCEPT !.status = "online"]
  /\ flight' = flight \cup {Handler("heartbeat", <<"check">>)}
  /\ UNCHANGED <<autoLive, shop, printer, spent, people, review>>

(* POST /agent/printers: the list of reachable printers only grows.           *)
ReportPrinters ==
  /\ agent.runs /\ ~Busy("report")
  /\ agent' = [agent EXCEPT !.connected = @ \/ Linked]
  /\ flight' = flight \cup {Handler("report", <<"ring", "check">>)}
  /\ UNCHANGED <<autoLive, shop, printer, spent, people, review>>

(* The socket of a computer that starts; advances the queue and rings.        *)
Connect ==
  /\ ~agent.runs
  /\ agent' = [agent EXCEPT !.runs = TRUE, !.status = "online"]
  /\ Start(Handler("people", <<"ring">>))
  /\ UNCHANGED <<autoLive, shop, printer, spent, people, review>>

Stop ==
  /\ agent.runs /\ May("outages") /\ Spend("outages")
  /\ agent' = [agent EXCEPT !.runs = FALSE]
  /\ UNCHANGED <<autoLive, shop, printer, flight, people, review>>

(* The disconnect of its socket, or detectStaleAgents. *)
MarkOffline ==
  /\ ~agent.runs /\ agent.status = "online"
  /\ agent' = [agent EXCEPT !.status = "offline"]
  /\ UNCHANGED <<autoLive, shop, printer, flight, spent, people, review>>

FeeBlock ==
  /\ ~shop.blocked /\ May("outages") /\ Spend("outages")
  /\ shop' = [shop EXCEPT !.blocked = TRUE]
  /\ UNCHANGED <<autoLive, printer, agent, flight, people, review>>

FeeUnblock ==
  /\ shop.blocked
  /\ shop' = [shop EXCEPT !.blocked = FALSE]
  /\ Start(Handler("people", <<"ring">>))
  /\ UNCHANGED <<autoLive, printer, agent, spent, people, review>>

-----------------------------------------------------------------------------
(* Students who want to be told, and notifyShopReopened. *)

RegisterRead(s) ==
  /\ Listed /\ ~Operational
  /\ s \notin waiting
  /\ \A h \in flight : s \notin h.who \/ ~At(h, "register")
  /\ Start([Handler("people", <<"register">>) EXCEPT !.who = {s}])
  /\ UNCHANGED <<autoLive, shop, printer, agent, spent, people, review>>

RegisterWrite(h) ==
  /\ At(h, "register")
  /\ interest' = interest \cup h.who
  /\ waiting' = waiting \cup h.who
  /\ Finish(h)
  /\ UNCHANGED <<autoLive, shop, printer, agent, spent, noticed, review>>

Ring(h) ==
  /\ At(h, "ring")
  /\ IF Operational /\ interest # {}
     THEN flight' = (flight \ {h}) \cup
                     {[h EXCEPT !.todo = <<"tell", "forget">> \o Tail(@), !.who = interest]}
     ELSE Finish(h)
  /\ UNCHANGED <<autoLive, shop, printer, agent, spent, people, review>>

(* Fault: the requests are deleted before anybody is told, and nobody is. *)
ForgetFirst(h) ==
  /\ At(h, "tell")
  /\ interest' = {}
  /\ Finish(h)
  /\ UNCHANGED <<autoLive, shop, printer, agent, spent, noticed, waiting, review>>

(* notifyStudent swallows its failures.  FCM upserts an outbox row by student *)
(* and event key, and leaves a row that is there as it is: who was told of a  *)
(* reopening once gets no message of a later one.                             *)
Tell(h) ==
  /\ At(h, "tell")
  /\ \E failed \in SUBSET h.who :
       LET reached == h.who \ failed
           told == reached \ noticed
       IN  /\ IF failed = {} THEN UNCHANGED spent ELSE May("outages") /\ Spend("outages")
           /\ noticed' = IF FcmEnabled THEN noticed \cup reached ELSE noticed
           /\ waiting' = waiting \ told
           /\ flight' = (flight \ {h}) \cup Rest([h EXCEPT !.who = (reached \ told) \cap waiting])
  /\ UNCHANGED <<autoLive, shop, printer, agent, interest, review>>

(* Every request of the shop is deleted: also one whose message failed, and   *)
(* one that came after the read.  They are given up.                          *)
Forget(h) ==
  /\ At(h, "forget")
  /\ interest' = {}
  /\ waiting' = waiting \ (interest \ h.who)
  /\ Finish(h)
  /\ UNCHANGED <<autoLive, shop, printer, agent, spent, noticed, review>>

(* A query fails or the process dies: the handler ends where it stands.       *)
HandlerDies(h) ==
  /\ h \in flight
  /\ May("outages") /\ Spend("outages")
  /\ Drop(h)
  /\ UNCHANGED <<autoLive, shop, printer, agent, people, review>>

-----------------------------------------------------------------------------
OwnerActs ==
  \/ \E to \in Facts : EditRead(to)
  \/ SubmitRead \/ Disconnect \/ AskSetupStatus
  \/ \E b \in BOOLEAN : SetAccepting(b)
  \/ \E linked, online \in BOOLEAN : SetPrinter(linked, online)
AdminActs == VerifyRead \/ RejectRead \/ PublishRead \/ UnpublishRead
ComputerActs == Heartbeat \/ ReportPrinters \/ Connect \/ Stop \/ MarkOffline
FeesAct == FeeBlock \/ FeeUnblock

HandlerStep(h) ==
  \/ EditWrite(h) \/ SubmitWrite(h)
  \/ VerifyWrite(h) \/ RejectWrite(h) \/ PublishWrite(h) \/ UnpublishWrite(h)
  \/ CheckReady(h) \/ GoLive(h) \/ Ring(h) \/ Tell(h) \/ Forget(h) \/ RegisterWrite(h)

StepOf(by) == \E h \in flight : h.by = by /\ HandlerStep(h)

Next ==
  \/ OwnerActs \/ AdminActs \/ ComputerActs \/ FeesAct
  \/ \E s \in Students : RegisterRead(s)
  \/ \E by \in {"people", "heartbeat", "report"} : StepOf(by)
  \/ \E h \in flight : HandlerDies(h)

Spec == Init /\ [][Next]_vars

(* A computer that runs repeats its heartbeat and its printer report, a call  *)
(* it made is carried out, and the sweep of stale computers repeats.          *)
LifeFairness ==
  /\ WF_vars(Heartbeat) /\ WF_vars(ReportPrinters) /\ WF_vars(MarkOffline)
  /\ WF_vars(StepOf("heartbeat")) /\ WF_vars(StepOf("report"))

-----------------------------------------------------------------------------
(* Properties. *)

TypeOK ==
  /\ autoLive \in BOOLEAN /\ shop \in ShopRows
  /\ printer \in PrinterRows /\ agent \in AgentRows
  /\ flight \subseteq Handlers
  /\ interest \subseteq Students /\ noticed \subseteq Students /\ waiting \subseteq Students
  /\ lastAction \in {"none", "verified", "rejected", "published", "unpublished"}
  /\ reviewed \in Facts /\ overtaken \subseteq {"submission", "save"}
  /\ spent \in [edits: 0 .. MaxEdits, decisions: 0 .. MaxDecisions, outages: 0 .. MaxOutages]

(* A shop that an administrator rejected or unpublished stays out of the       *)
(* students' sight until an administrator acts again, whatever publishIfReady  *)
(* and the owner do; only a submission that had read the shop before the       *)
(* decision can undo a rejection (autoLive.ts, admin/routes.ts).               *)
AdminDecisionStands ==
  Listed /\ lastAction \in {"rejected", "unpublished"} => "submission" \in overtaken

(* A shop that is reviewed by hand shows students the name and place that were *)
(* on the row when it was verified, unless a save decided on an older row that *)
(* it changed nothing (PATCH /shop/me).                                        *)
ReviewedFactsShown ==
  ~autoLive /\ Listed => shop.facts = reviewed \/ "save" \in overtaken

(* An auto-live shop that is ready goes live although no owner looks at it:    *)
(* the heartbeats of its computer publish it (publishIfReady).                 *)
ReadyShopGoesLive ==
  autoLive /\ shop.status \in {"draft", "submitted"} /\ ~shop.published /\ Ready
    ~> shop.published \/ ~Ready \/ shop.status \notin {"draft", "submitted"}

(* While a shop stays open, a student who asked for it is told, unless his     *)
(* message failed, the deletion after a round of messages swept his later      *)
(* request away, or he had been told of a reopening before                     *)
(* (notifyShopReopened).                                                       *)
WaitingStudentIsTold ==
  \A s \in Students :
    s \in waiting \ noticed /\ Operational ~> s \notin waiting \/ ~Operational

(* What the comments of notifyShopReopened and of its route say                *)
(* (availability.ts:68, public/routes.ts:237): a student who asked is told     *)
(* when the shop reopens, hence on the list for as long as he waits; those who *)
(* were given up after a failure do not count.                                 *)
WaitingStudentIsListed == waiting \subseteq interest
=============================================================================
