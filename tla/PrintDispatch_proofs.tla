------------------------ MODULE PrintDispatch_proofs ------------------------
(***************************************************************************)
(* For every number of orders, computers and printers: PrintInvariant is   *)
(* inductive, and with it TypeOK, OneOutcome, PrintBudget and              *)
(* SettledForGood hold of PrintDispatch, which implements JobStateMachine. *)
(* ClaimIsSafe is inductive beside it and gives WorkingComputerKeepsJob.   *)
(***************************************************************************)
EXTENDS PrintDispatchProps, FiniteSetTheorems, TLAPS

USE DispatchAssumption

-----------------------------------------------------------------------------
(* Types. *)

(* What an agent sends as its session is a session. *)
LEMMA SidType == ASSUME NEW a, NEW n \in Sessions PROVE Sid(a, n) \in Sessions
  BY DEF Sid, Sessions

(* Writing one column keeps the type of a row; writes of several columns are   *)
(* chains of these.                                                            *)
LEMMA RowWrite ==
  /\ \A row \in JobRows, x \in Statuses : [row EXCEPT !.status = x] \in JobRows
  /\ \A row \in JobRows, x \in {"due", "paid", "refunded"} : [row EXCEPT !.payment = x] \in JobRows
  /\ \A row \in JobRows, x \in Printers : [row EXCEPT !.printer = x] \in JobRows
  /\ \A row \in JobRows, x \in Agents \cup {None} : [row EXCEPT !.claimant = x] \in JobRows
  /\ \A row \in JobRows, x \in Sessions : [row EXCEPT !.session = x] \in JobRows
  /\ \A row \in JobRows, x \in Errors : [row EXCEPT !.error = x] \in JobRows
  /\ \A row \in JobRows, x \in 0 .. MaxAttempts : [row EXCEPT !.attempts = x] \in JobRows
  /\ \A row \in JobRows, x \in 0 .. MaxAttempts : [row EXCEPT !.spool = x] \in JobRows
  /\ \A row \in JobRows, x \in BOOLEAN : [row EXCEPT !.spoolOld = x] \in JobRows
  /\ \A row \in JobRows, x \in 0 .. 2 : [row EXCEPT !.age = x] \in JobRows
  BY DEF JobRows

(* Writing one column keeps the type of an agent's row.                       *)
LEMMA AgentWrite ==
  /\ \A row \in AgentRows, x \in BOOLEAN : [row EXCEPT !.present = x] \in AgentRows
  /\ \A row \in AgentRows, x \in BOOLEAN : [row EXCEPT !.online = x] \in AgentRows
  /\ \A row \in AgentRows, x \in Sessions : [row EXCEPT !.session = x] \in AgentRows
  /\ \A row \in AgentRows, x \in 0 .. 2 : [row EXCEPT !.quiet = x] \in AgentRows
  BY DEF AgentRows

(* Filling in one field keeps the type of a handler's record.                 *)
LEMMA RequestWrite ==
  /\ \A r \in Requests, x \in Agents \cup {None} : [r EXCEPT !.by = x] \in Requests
  /\ \A r \in Requests, x \in Sessions : [r EXCEPT !.process = x] \in Requests
  /\ \A r \in Requests, x \in Agents \cup {None} : [r EXCEPT !.seen = x] \in Requests
  /\ \A r \in Requests, x \in Errors : [r EXCEPT !.reason = x] \in Requests
  /\ \A r \in Requests, x \in {"none", "retry", "return"} : [r EXCEPT !.next = x] \in Requests
  BY DEF Requests

(* The values the columns are written with.                                    *)
LEMMA Values ==
  /\ 0 \in Sessions /\ 1 \in Sessions
  /\ 0 \in 0 .. MaxAttempts
  /\ 0 \in 0 .. 2
  /\ TRUE \in BOOLEAN /\ FALSE \in BOOLEAN
  /\ None \in Agents \cup {None}
  /\ {"none", "retryable", "agent_offline", "agent_restarted"} \subseteq Errors
  /\ {"queued", "otp_verified", "printing", "finishing", "ready_for_pickup",
      "completed", "cancelled"} = Statuses
  BY DEF Sessions, Errors, StaffDecisionErrors, Statuses

(* A handler that has read only the order is a typed record.                  *)
LEMMA RequestType ==
  ASSUME NEW op \in Ops, NEW j \in Jobs PROVE Request(op, j) \in Requests
  BY DEF Request, Requests, Sessions, Errors

(* What a request of a computer carries into its handler is typed.            *)
LEMMA AgentRequestType ==
  ASSUME TypeOK, NEW op \in Ops, NEW j \in Jobs, NEW a \in Agents
  PROVE  AgentRequest(op, j, a) \in Requests
<1>1. process[a] \in Sessions /\ a \in Agents \cup {None}
  BY DEF TypeOK, Sessions
<1> QED
  BY <1>1, RequestType, RequestWrite, Zenon DEF AgentRequest

(* What the sweep or staff carry from finding a print lost is typed.          *)
LEMMA LoseRequestType ==
  ASSUME TypeOK, NEW op \in Ops, NEW j \in Jobs, NEW why \in Errors,
         NEW then \in {"none", "retry", "return"}
  PROVE  LoseRequest(op, j, why, then) \in Requests
<1>1. job[j].claimant \in Agents \cup {None}
  BY DEF TypeOK, JobRows
<1> QED
  BY <1>1, RequestType, RequestWrite, Zenon DEF LoseRequest

(* Heartbeat reconciliation produces typed records.                           *)
LEMMA ReconcileType ==
  ASSUME TypeOK, NEW a, NEW sid, NEW missing PROVE Reconcile(a, sid, missing) \subseteq Requests
<1>1. \A j \in Jobs : LoseRequest("lose", j, "agent_restarted", "none") \in Requests
  BY LoseRequestType DEF Ops, Errors, StaffDecisionErrors
<1> QED
  BY <1>1 DEF Reconcile, LostJobs

(* An answer to a computer leaves its progress typed.                         *)
LEMMA ReplyType ==
  ASSUME TypeOK, NEW r, NEW from, NEW to \in Phases, Reply(r, from, to)
  PROVE  work' \in [Agents -> [Jobs -> Phases]]
  BY DEF Reply, TypeOK

(* A guarded transition leaves the orders typed.                              *)
LEMMA ApplyType ==
  ASSUME TypeOK, NEW j \in Jobs, NEW from, NEW to \in Statuses, NEW row \in JobRows,
         ApplyTransition(j, from, to, row)
  PROVE  job' \in [Jobs -> JobRows]
<1>1. [row EXCEPT !.status = to, !.age = 0] \in JobRows
  BY RowWrite, Values, Zenon
<1> QED
  BY <1>1 DEF ApplyTransition, TypeOK

(* Clearing the claim keeps the type of a row.                                *)
LEMMA UnclaimedType == ASSUME NEW row \in JobRows PROVE Unclaimed(row) \in JobRows
  BY RowWrite, Values, Zenon DEF Unclaimed

(* The initial state is typed.                                                *)
LEMMA TypeInit == Init => TypeOK
<1> SUFFICES ASSUME Init PROVE TypeOK
  OBVIOUS
<1>1. job \in [Jobs -> JobRows]
  <2>1. \A p \in Printers :
          [status |-> "queued", payment |-> "due", printer |-> p, claimant |-> None,
           session |-> 0, error |-> "none", attempts |-> 0, spool |-> 0,
           spoolOld |-> FALSE, age |-> 0] \in JobRows
    BY DEF JobRows, Statuses, Errors, Sessions
  <2> QED
    BY <2>1 DEF Init
<1>2. agent \in [Agents -> AgentRows]
  <2>1. \A a \in Agents : Sid(a, 1) \in Sessions
    BY SidType DEF Sessions
  <2> QED
    BY <2>1 DEF Init, AgentRows
<1> QED
  BY <1>1, <1>2 DEF Init, TypeOK, Phases

(* A handler at its write holds values of the right types.                    *)
LEMMA WriteType ==
  ASSUME TypeOK, NEW r \in pending, r.op # "beat"
  PROVE  /\ r \in Requests /\ r.job \in Jobs /\ r.by \in Agents \cup {None}
         /\ r.reason \in Errors /\ r.next \in {"none", "retry", "return"}
         /\ job[r.job] \in JobRows
<1>1. r \in Requests
  BY DEF TypeOK, Beats
<1> QED
  BY <1>1 DEF Requests, TypeOK

(* A handler that starts keeps the set of handlers typed.                     *)
LEMMA SubmitType ==
  ASSUME TypeOK, NEW r \in Requests \cup Beats, Submit(r)
  PROVE  pending' \subseteq Requests \cup Beats
  BY DEF TypeOK, Submit

(* A handler that ends keeps the set of handlers typed.                       *)
LEMMA FinishType ==
  ASSUME TypeOK, NEW r, Finish(r) PROVE pending' \subseteq Requests \cup Beats
  BY DEF TypeOK, Finish

(* Hearing from a computer keeps the agents' rows typed.                      *)
LEMMA HeardFromType ==
  ASSUME TypeOK, NEW a \in Agents, NEW sid \in Sessions, HeardFrom(a, sid)
  PROVE  agent' \in [Agents -> AgentRows]
<1>1. agent[a] \in AgentRows /\ agent[a].session \in Sessions
  BY DEF TypeOK, AgentRows
<1> DEFINE s == IF sid = 0 THEN agent[a].session ELSE sid
<1>2. s \in Sessions
  BY <1>1
<1>3. [agent[a] EXCEPT !.online = TRUE, !.quiet = 0, !.session = s] \in AgentRows
  <2> HIDE DEF s
  <2> QED
    BY <1>1, <1>2, AgentWrite, Values, Zenon
<1>4. agent' = [agent EXCEPT ![a] = [agent[a] EXCEPT !.online = TRUE, !.quiet = 0, !.session = s]]
  BY DEF HeardFrom
<1> QED
  BY <1>3, <1>4 DEF TypeOK

(* Steps of a computer's connection keep the types.                           *)
LEMMA TypeAgent ==
  ASSUME TypeOK, NEW a \in Agents, AgentStep(a), steady' \in [Jobs -> BOOLEAN]
  PROVE  TypeOK'
<1>1. process[a] \in Sessions /\ agent[a] \in AgentRows
  BY DEF TypeOK, Sessions
<1>2. CASE Connect(a)
  BY <1>1, <1>2, SidType, HeardFromType, ReconcileType DEF Connect, TypeOK
<1>3. CASE ReportPrinters(a)
  <2>1. agent' \in [Agents -> AgentRows]
    BY <1>1, <1>3, AgentWrite DEF ReportPrinters, TypeOK
  <2> QED
    BY <1>1, <1>3, <2>1, ReconcileType DEF ReportPrinters, TypeOK
<1>4. CASE SendBeat(a)
  <2> DEFINE b == [op |-> "beat", by |-> a, process |-> process[a],
                   flight |-> {j \in Jobs : work[a][j] # "none"}]
  <2>1. b \in Beats
    BY <1>1 DEF Beats
  <2>2. pending' = pending \cup {b}
    BY <1>4 DEF SendBeat
  <2> HIDE DEF b
  <2>3. pending' \subseteq Requests \cup Beats
    BY <2>1, <2>2 DEF TypeOK
  <2> QED
    BY <1>4, <2>3 DEF SendBeat, TypeOK
<1>5. CASE Quieten(a)
  <2>1. agent[a].quiet + 1 \in 0 .. 2
    BY <1>1, <1>5 DEF Quieten, AgentRows
  <2>2. agent' \in [Agents -> AgentRows]
    BY <1>1, <1>5, <2>1, AgentWrite DEF Quieten, TypeOK
  <2> QED
    BY <1>5, <2>2 DEF Quieten, TypeOK
<1>6. CASE GoesOffline(a)
  <2>1. agent' \in [Agents -> AgentRows]
    BY <1>1, <1>6, AgentWrite DEF GoesOffline, TypeOK
  <2> QED
    BY <1>6, <2>1 DEF GoesOffline, TypeOK
<1>7. CASE Restart(a)
  BY <1>7 DEF Restart, TypeOK, Phases
<1>8. CASE DeleteAgent(a)
  <2>1. [agent[a] EXCEPT !.present = FALSE, !.online = FALSE] \in AgentRows
    BY <1>1, AgentWrite, Values, Zenon
  <2>2. agent' = [agent EXCEPT ![a] = [agent[a] EXCEPT !.present = FALSE, !.online = FALSE]]
    BY <1>8 DEF DeleteAgent, TypeOK
  <2> QED
    BY <1>8, <2>1, <2>2 DEF DeleteAgent, TypeOK
<1> QED
  BY <1>2, <1>3, <1>4, <1>5, <1>6, <1>7, <1>8 DEF AgentStep

(* Steps of a computer's work on an order keep the types.                     *)
LEMMA TypeWork ==
  ASSUME TypeOK, NEW a \in Agents, NEW j \in Jobs, WorkStep(a, j), steady' \in [Jobs -> BOOLEAN]
  PROVE  TypeOK'
<1>1. process[a] \in Sessions /\ job[j] \in JobRows /\ a \in Agents \cup {None}
  BY DEF TypeOK, Sessions
<1>2. CASE ClaimStart(a, j)
  <2>1. [job[j] EXCEPT !.claimant = a, !.session = Sid(a, process[a]), !.age = 0] \in JobRows
    BY <1>1, SidType, RowWrite, Values, Zenon
  <2>2. AgentRequest("start", j, a) \in Requests
    BY AgentRequestType DEF Ops
  <2>3. pending' \subseteq Requests \cup Beats
    BY <1>2, <2>2, SubmitType DEF ClaimStart
  <2> QED
    BY <1>2, <2>1, <2>3 DEF ClaimStart, TypeOK, Phases
<1>3. CASE Download(a, j)
  BY <1>3 DEF Download, TypeOK, Phases
<1>4. CASE SendToPrinter(a, j)
  BY <1>4 DEF SendToPrinter, TypeOK, Phases
<1>5. CASE ReportComplete(a, j)
  <2>1. \A op \in {"spool", "simulate"} : AgentRequest(op, j, a) \in Requests
    BY AgentRequestType DEF Ops
  <2>2. PICK op \in {"spool", "simulate"} : Submit(AgentRequest(op, j, a))
    BY <1>5 DEF ReportComplete
  <2>3. pending' \subseteq Requests \cup Beats
    BY <2>1, <2>2, SubmitType
  <2> QED
    BY <1>5, <2>3 DEF ReportComplete, TypeOK, Phases
<1>6. CASE AlreadyConfirmed(a, j)
  BY <1>6 DEF AlreadyConfirmed, TypeOK, Phases
<1>7. CASE AgentError(a, j)
  <2>1. PICK to \in Phases : work' = [work EXCEPT ![a][j] = to]
    BY <1>7 DEF AgentError, Phases
  <2> QED
    BY <1>7, <2>1 DEF AgentError, TypeOK
<1>8. CASE ReportFailure(a, j)
  <2>1. AgentRequest("fail", j, a) \in Requests
    BY AgentRequestType DEF Ops
  <2>2. pending' \subseteq Requests \cup Beats
    BY <1>8, <2>1, SubmitType DEF ReportFailure
  <2> QED
    BY <1>8, <2>2 DEF ReportFailure, TypeOK
<1> QED
  BY <1>2, <1>3, <1>4, <1>5, <1>6, <1>7, <1>8 DEF WorkStep

(* The reason a print counts as lost is an error code or none.                *)
LEMMA LostReasonType == ASSUME NEW j, NEW gone PROVE LostReason(j, gone) \in Errors
  BY DEF LostReason, Errors, StaffDecisionErrors

(* Staff's retry and counter-payment return keep the types.                   *)
LEMMA StaffRequestType ==
  ASSUME TypeOK, NEW j \in Jobs, NEW then \in {"retry", "return"}, StaffRequest(j, then),
         steady' \in [Jobs -> BOOLEAN]
  PROVE  TypeOK'
<1>1. Request(then, j) \in Requests
  BY RequestType DEF Ops
<1>2. LoseRequest("lose", j, "agent_offline", then) \in Requests
  BY LoseRequestType, Values DEF Ops
<1>3. pending' \subseteq Requests \cup Beats
  BY <1>1, <1>2, SubmitType DEF StaffRequest
<1> QED
  BY <1>3 DEF StaffRequest, TypeOK

(* Steps of one order, its timers and its staff keep the types.               *)
LEMMA TypeJob ==
  ASSUME TypeOK, NEW j \in Jobs, JobStep(j), steady' \in [Jobs -> BOOLEAN]
  PROVE  TypeOK'
<1>1. job[j] \in JobRows /\ job[j].age \in 0 .. 2
  BY DEF TypeOK, JobRows
<1>2. CASE Release(j)
  <2>1. PICK p \in Printers :
          /\ ApplyTransition(j, "queued", "otp_verified",
               [Unclaimed(job[j]) EXCEPT !.printer = p, !.error = "none", !.payment = "paid"])
          /\ UNCHANGED <<agent, process, work, pending, credit, slips>>
    BY <1>2 DEF Release
  <2>2. "none" \in Errors /\ "paid" \in {"due", "paid", "refunded"}
    BY Values
  <2>3. [Unclaimed(job[j]) EXCEPT !.printer = p, !.error = "none", !.payment = "paid"] \in JobRows
    BY <1>1, <2>2, UnclaimedType, RowWrite, Zenon
  <2>4. job' \in [Jobs -> JobRows]
    BY <2>1, <2>3, ApplyType, Values
  <2> QED
    BY <2>1, <2>4 DEF TypeOK
<1>3. CASE StaffRetry(j)
  BY <1>3, StaffRequestType DEF StaffRetry
<1>4. CASE StaffReturn(j)
  BY <1>4, StaffRequestType DEF StaffReturn
<1>5. CASE StaffConfirm(j)
  <2>1. pending' \subseteq Requests \cup Beats
    BY <1>5, RequestType, SubmitType DEF StaffConfirm, Ops
  <2> QED
    BY <1>5, <2>1 DEF StaffConfirm, TypeOK
<1>6. CASE FinishingComplete(j)
  <2>1. job' \in [Jobs -> JobRows]
    BY <1>1, <1>6, ApplyType, Values DEF FinishingComplete
  <2> QED
    BY <1>6, <2>1 DEF FinishingComplete, TypeOK
<1>7. CASE Handover(j)
  <2>1. job' \in [Jobs -> JobRows]
    BY <1>1, <1>7, ApplyType, Values DEF Handover
  <2> QED
    BY <1>7, <2>1 DEF Handover, TypeOK
<1>8. CASE Sweep(j)
  <2>1. LoseRequest("sweep", j, LostReason(j, LeaseExpired(j)), "none") \in Requests
    BY LoseRequestType, LostReasonType DEF Ops
  <2> QED
    BY <1>8, <2>1 DEF Sweep, TypeOK
<1>9. CASE JobAges(j)
  <2>1. job[j].age + 1 \in 0 .. 2
    BY <1>1, <1>9 DEF JobAges
  <2>2. job' \in [Jobs -> JobRows]
    BY <1>1, <1>9, <2>1, RowWrite DEF JobAges, TypeOK
  <2> QED
    BY <1>9, <2>2 DEF JobAges, TypeOK
<1>10. CASE SpoolAges(j)
  <2>1. job' \in [Jobs -> JobRows]
    BY <1>1, <1>10, RowWrite DEF SpoolAges, TypeOK
  <2> QED
    BY <1>10, <2>1 DEF SpoolAges, TypeOK
<1> QED
  BY <1>2, <1>3, <1>4, <1>5, <1>6, <1>7, <1>8, <1>9, <1>10 DEF JobStep

(* The writes of the handlers keep the types.                                 *)
LEMMA TypeWrite ==
  ASSUME TypeOK, NEW r \in pending, Write(r), steady' \in [Jobs -> BOOLEAN]
  PROVE  TypeOK'
<1>1. r.op # "beat" =>
        /\ r \in Requests /\ r.job \in Jobs /\ r.reason \in Errors
        /\ r.next \in {"none", "retry", "return"} /\ job[r.job] \in JobRows
  BY WriteType
<1>2. CASE ClaimCommit(r)
  <2>1. r.op # "beat" /\ job[r.job].attempts + 1 \in 0 .. MaxAttempts
    BY <1>1, <1>2 DEF ClaimCommit, JobRows
  <2>2. [job[r.job] EXCEPT !.error = "none", !.attempts = job[r.job].attempts + 1] \in JobRows
    <3>1. "none" \in Errors
      BY Values
    <3> QED
      BY <1>1, <2>1, <3>1, RowWrite, Zenon
  <2>3. job' \in [Jobs -> JobRows]
    BY <1>1, <1>2, <2>1, <2>2, ApplyType, Values DEF ClaimCommit
  <2>4. work' \in [Agents -> [Jobs -> Phases]]
    BY <1>2, ReplyType DEF ClaimCommit, Phases
  <2> QED
    BY <1>2, <2>3, <2>4, FinishType DEF ClaimCommit, TypeOK
<1>3. CASE SpoolWrite(r)
  <2>1. r.op # "beat" /\ job[r.job].attempts \in 0 .. MaxAttempts
    BY <1>1, <1>3 DEF SpoolWrite, JobRows
  <2>2. [job[r.job] EXCEPT !.spool = job[r.job].attempts, !.spoolOld = FALSE,
                           !.error = "none", !.age = 0] \in JobRows
    <3>1. "none" \in Errors
      BY Values
    <3> QED
      BY <1>1, <2>1, <3>1, RowWrite, Values, Zenon
  <2>3. job' \in [Jobs -> JobRows]
    BY <1>1, <1>3, <2>1, <2>2 DEF SpoolWrite, TypeOK
  <2>4. work' \in [Agents -> [Jobs -> Phases]]
    BY <1>3, ReplyType DEF SpoolWrite, Phases
  <2> QED
    BY <1>3, <2>3, <2>4, FinishType DEF SpoolWrite, TypeOK
<1>4. CASE FailWrite(r)
  <2>1. r.op # "beat" /\ "retryable" \in Errors
    BY <1>4, Values DEF FailWrite
  <2>2. [Unclaimed(job[r.job]) EXCEPT !.error = "retryable"] \in JobRows
    BY <1>1, <2>1, UnclaimedType, RowWrite, Zenon
  <2>3. job' \in [Jobs -> JobRows]
    BY <1>1, <1>4, <2>1, <2>2, ApplyType, Values DEF FailWrite
  <2>4. work' \in [Agents -> [Jobs -> Phases]]
    BY <1>4, ReplyType DEF FailWrite, Phases
  <2>5. credit' \in [Jobs -> Int]
    <3>1. credit[r.job] + 1 \in Int
      BY <1>1, <2>1 DEF TypeOK
    <3> QED
      BY <1>4, <3>1 DEF FailWrite, TypeOK
  <2> QED
    BY <1>4, <2>3, <2>4, <2>5, FinishType DEF FailWrite, TypeOK
<1>5. CASE LoseWrite(r)
  <2>1. r.op # "beat"
    BY <1>5 DEF LoseWrite
  <2>2. [Unclaimed(job[r.job]) EXCEPT !.error = r.reason] \in JobRows
    BY <1>1, <2>1, UnclaimedType, RowWrite, Zenon
  <2>3. job' \in [Jobs -> JobRows]
    BY <1>1, <1>5, <2>1, <2>2, ApplyType, Values DEF LoseWrite
  <2>4. r.next # "none" => Request(r.next, r.job) \in Requests
    BY <1>1, <2>1, RequestType DEF Ops
  <2>5. pending' \subseteq Requests \cup Beats
    BY <1>5, <2>4 DEF LoseWrite, TypeOK
  <2> QED
    BY <1>5, <2>3, <2>5 DEF LoseWrite, TypeOK
<1>6. CASE RetryWrite(r)
  <2>1. r.op # "beat" /\ "none" \in Errors
    BY <1>6, Values DEF RetryWrite
  <2>2. PICK p \in Printers :
          job' = [job EXCEPT ![r.job] =
                   [Unclaimed(job[r.job]) EXCEPT !.printer = p, !.error = "none", !.age = 0]]
    BY <1>1, <1>6, <2>1 DEF RetryWrite, TypeOK
  <2>3. [Unclaimed(job[r.job]) EXCEPT !.printer = p, !.error = "none", !.age = 0] \in JobRows
    BY <1>1, <2>1, UnclaimedType, RowWrite, Values, Zenon
  <2>4. job' \in [Jobs -> JobRows]
    BY <2>2, <2>3 DEF TypeOK
  <2>5. Request("dispatch", r.job) \in Requests
    BY <1>1, <2>1, RequestType DEF Ops
  <2>6. pending' \subseteq Requests \cup Beats
    BY <1>6, <2>5 DEF RetryWrite, TypeOK
  <2> QED
    BY <1>6, <2>4, <2>6 DEF RetryWrite, TypeOK
<1>7. CASE Dispatch(r)
  <2>1. Request("noagent", r.job) \in Requests
    BY <1>1, <1>7, RequestType DEF Dispatch, Ops
  <2> QED
    BY <1>7, <2>1 DEF Dispatch, TypeOK
<1>8. CASE NoAgentWrite(r)
  <2>1. r.op # "beat" /\ "retryable" \in Errors
    BY <1>8, Values DEF NoAgentWrite
  <2>2. [job[r.job] EXCEPT !.error = "retryable", !.age = 0] \in JobRows
    BY <1>1, <2>1, RowWrite, Values, Zenon
  <2>3. job' \in [Jobs -> JobRows]
    BY <1>8, <2>2 DEF NoAgentWrite, TypeOK
  <2>4. slips' \in [Jobs -> Nat]
    <3>1. slips[r.job] + 1 \in Nat
      BY <1>1, <2>1 DEF TypeOK
    <3> QED
      BY <1>8, <3>1 DEF NoAgentWrite, TypeOK
  <2> QED
    BY <1>8, <2>3, <2>4, FinishType DEF NoAgentWrite, TypeOK
<1>9. CASE ReturnWrite(r)
  <2>1. r.op # "beat" /\ "none" \in Errors /\ "refunded" \in {"due", "paid", "refunded"}
    BY <1>9, Values DEF ReturnWrite
  <2>2. [Unclaimed(job[r.job]) EXCEPT !.payment = "refunded", !.error = "none"] \in JobRows
    BY <1>1, <2>1, UnclaimedType, RowWrite, Zenon
  <2>3. job' \in [Jobs -> JobRows]
    BY <1>1, <1>9, <2>1, <2>2, ApplyType, Values DEF ReturnWrite
  <2> QED
    BY <1>9, <2>3, FinishType DEF ReturnWrite, TypeOK
<1>10. CASE ConfirmWrite(r)
  <2> DEFINE s == IF job[r.job].spool = 0 THEN job[r.job].attempts ELSE job[r.job].spool
             to == IF r.job \in BindingJobs THEN "finishing" ELSE "ready_for_pickup"
  <2>1. r.op # "beat" /\ "none" \in Errors
    BY <1>10, Values DEF ConfirmWrite
  <2>2. s \in 0 .. MaxAttempts /\ to \in Statuses
    BY <1>1, <2>1 DEF JobRows, Statuses
  <2>3. ApplyTransition(r.job, "printing", to, [job[r.job] EXCEPT !.error = "none", !.spool = s])
    BY <1>10 DEF ConfirmWrite
  <2>4. job' \in [Jobs -> JobRows]
    <3> HIDE DEF s, to
    <3>1. [job[r.job] EXCEPT !.error = "none", !.spool = s] \in JobRows
      BY <1>1, <2>1, <2>2, RowWrite, Zenon
    <3> QED
      BY <1>1, <2>1, <2>2, <2>3, <3>1, ApplyType
  <2>5. work' \in [Agents -> [Jobs -> Phases]]
    BY <1>10, ReplyType DEF ConfirmWrite, Phases, TypeOK
  <2> QED
    BY <1>10, <2>4, <2>5, FinishType DEF ConfirmWrite, TypeOK
<1>11. CASE BeatArrives(r)
  <2>1. r \in Beats
    BY <1>11 DEF BeatArrives, TypeOK, Requests, Ops
  <2>2. r.by \in Agents /\ r.process \in Sessions
    BY <2>1 DEF Beats
  <2>3. agent' \in [Agents -> AgentRows]
    BY <1>11, <2>2, SidType, HeardFromType DEF BeatArrives
  <2>4. pending' \subseteq Requests \cup Beats
    BY <1>11, ReconcileType DEF BeatArrives, TypeOK
  <2> QED
    BY <1>11, <2>3, <2>4 DEF BeatArrives, TypeOK
<1>12. CASE Drop(r)
  BY <1>12, FinishType DEF Drop, TypeOK
<1> QED
  BY <1>2, <1>3, <1>4, <1>5, <1>6, <1>7, <1>8, <1>9, <1>10, <1>11, <1>12 DEF Write

(* TypeOK is inductive.                                                       *)
LEMMA TypeNext == TypeOK /\ [Next]_vars => TypeOK'
<1>1. ASSUME TypeOK, Next PROVE TypeOK'
  <2>1. steady' \in [Jobs -> BOOLEAN]
    BY <1>1 DEF Next, KeepSteady, Attended
  <2>2. CASE \E a \in Agents : AgentStep(a)
    BY <1>1, <2>1, <2>2, TypeAgent
  <2>3. CASE \E a \in Agents, j \in Jobs : WorkStep(a, j)
    BY <1>1, <2>1, <2>3, TypeWork
  <2>4. CASE \E j \in Jobs : JobStep(j)
    BY <1>1, <2>1, <2>4, TypeJob
  <2>5. CASE \E r \in pending : Write(r)
    BY <1>1, <2>1, <2>5, TypeWrite
  <2> QED
    BY <1>1, <2>2, <2>3, <2>4, <2>5 DEF Next, Step
<1>2. ASSUME TypeOK, UNCHANGED vars PROVE TypeOK'
  BY <1>2 DEF vars, TypeOK
<1> QED
  BY <1>1, <1>2

(* Every column, process and handler keeps its type, however many orders,      *)
(* computers and printers there are and whatever fails.                        *)
THEOREM TypeCorrect == Spec => []TypeOK
  BY TypeInit, TypeNext, PTL DEF Spec

-----------------------------------------------------------------------------
(* What a write does to the row of its job. *)

(* What a guarded update does to its order, and that it touches no other. *)
LEMMA ApplyEffect ==
  ASSUME TypeOK, NEW j \in Jobs, NEW from, NEW to \in Statuses, NEW row \in JobRows,
         ApplyTransition(j, from, to, row)
  PROVE  /\ job[j].status = from /\ job'[j].status = to
         /\ job'[j].payment = row.payment /\ job'[j].claimant = row.claimant
         /\ job'[j].error = row.error
         /\ \A i \in Jobs : i # j => job'[i] = job[i]
<1>1. job' = [job EXCEPT ![j] = [row EXCEPT !.status = to, !.age = 0]] /\ job[j].status = from
  BY DEF ApplyTransition
<1>2. job'[j] = [row EXCEPT !.status = to, !.age = 0] /\ \A i \in Jobs : i # j => job'[i] = job[i]
  BY <1>1 DEF TypeOK
<1> DEFINE new == [row EXCEPT !.status = to, !.age = 0]
<1>3. /\ new.status = to /\ new.payment = row.payment
      /\ new.claimant = row.claimant /\ new.error = row.error
  BY DEF JobRows
<1> HIDE DEF new
<1> QED
  BY <1>1, <1>2, <1>3 DEF new

(* Clearing the claim touches neither payment, status nor error.              *)
LEMMA UnclaimedEffect ==
  ASSUME NEW row \in JobRows
  PROVE  /\ Unclaimed(row).claimant = None /\ Unclaimed(row).payment = row.payment
         /\ Unclaimed(row).status = row.status /\ Unclaimed(row).error = row.error
        /\ Unclaimed(row).attempts = row.attempts
  BY DEF Unclaimed, JobRows

-----------------------------------------------------------------------------
(* The computers that have a document in hand. *)

(* Finitely many computers have a document in hand. *)
LEMMA HandFinite ==
  ASSUME NEW j PROVE IsFiniteSet(InHand(j)) /\ Cardinality(InHand(j)) \in Nat
<1>1. InHand(j) \subseteq Agents
  BY DEF InHand
<1> QED
  BY <1>1, FS_Subset, FS_CardinalityType

(* If nobody fetches the document, no more copies of it are in hand.          *)
LEMMA HandKept ==
  ASSUME NEW j, \A a \in Agents : work'[a][j] = "fetched" => work[a][j] = "fetched"
  PROVE  /\ Cardinality(InHand(j)') <= Cardinality(InHand(j))
         /\ Cardinality(InHand(j)) \in Nat /\ Cardinality(InHand(j)') \in Nat
<1>1. InHand(j)' \in SUBSET InHand(j)
  BY DEF InHand
<1>2. IsFiniteSet(InHand(j)) /\ Cardinality(InHand(j)) \in Nat
  BY HandFinite
<1> QED
  BY <1>1, <1>2, FS_Subset, FS_CardinalityType

(* A download adds one copy in hand.                                          *)
LEMMA HandTaken ==
  ASSUME TypeOK, NEW j \in Jobs, NEW a \in Agents, work[a][j] # "fetched",
         work' = [work EXCEPT ![a][j] = "fetched"]
  PROVE  Cardinality(InHand(j)') = Cardinality(InHand(j)) + 1
<1>1. InHand(j)' = InHand(j) \cup {a} /\ a \notin InHand(j)
  BY DEF InHand, TypeOK
<1> QED
  BY <1>1, HandFinite, FS_AddElement

(* A print uses up one copy in hand.                                          *)
LEMMA HandGiven ==
  ASSUME TypeOK, NEW j \in Jobs, NEW a \in Agents, work[a][j] = "fetched",
         work' = [work EXCEPT ![a][j] = "printed"]
  PROVE  Cardinality(InHand(j)') = Cardinality(InHand(j)) - 1
<1>1. InHand(j)' = InHand(j) \ {a} /\ a \in InHand(j)
  BY DEF InHand, TypeOK
<1> QED
  BY <1>1, HandFinite, FS_RemoveElement

-----------------------------------------------------------------------------
(* The inductive invariant. *)

(* An action on one job leaves the rules of every other alone.                 *)
LEMMA OtherJobs ==
  ASSUME NEW i \in Jobs, PrintRules(i), job'[i] = job[i],
         \A a \in Agents : work'[a][i] = work[a][i],
         job[i].claimant \in Agents \cup {None},
         credit'[i] = credit[i], slips'[i] = slips[i]
  PROVE  PrintRules(i)'
<1>1. InHand(i)' = InHand(i)
  BY DEF InHand
<1>2. Obtainable(i)' = Obtainable(i) /\ StaffHeld(i)' = StaffHeld(i)
  BY DEF Obtainable, StaffHeld
<1> QED
  BY <1>1, <1>2 DEF PrintRules, PaymentFollowsStatus, ClaimsAreFresh, BudgetCovered

(* A step outside the orders and their documents keeps their rules.           *)
LEMMA RulesUntouched ==
  ASSUME PrintInvariant, UNCHANGED <<job, work, credit, slips>>
  PROVE  \A i \in Jobs : PrintRules(i)'
<1> TAKE i \in Jobs
<1>1. job[i].claimant \in Agents \cup {None}
  BY DEF PrintInvariant, TypeOK, JobRows
<1> QED
  BY <1>1, OtherJobs DEF PrintInvariant

(* The rules hold at first.                                                   *)
LEMMA InitRules ==
  ASSUME Init, NEW j \in Jobs PROVE PrintRules(j)
<1>1. job[j].status = "queued" /\ job[j].payment = "due" /\ job[j].error = "none"
  BY DEF Init
<1>2. InHand(j) = {}
  BY DEF Init, InHand
<1>3. Cardinality(InHand(j)) = 0 /\ credit[j] = 1 /\ slips[j] = 0
  BY <1>2, FS_EmptySet DEF Init
<1> QED
  BY <1>1, <1>3 DEF PrintRules, PaymentFollowsStatus, ClaimsAreFresh, BudgetCovered,
                    StaffHeld, StaffDecisionErrors

(* So an action on job j has to keep the rules of j alone.                     *)
LEMMA RulesOfOneJob ==
  ASSUME PrintInvariant, NEW j \in Jobs, PrintRules(j)',
         \A i \in Jobs : i # j =>
           /\ job'[i] = job[i] /\ credit'[i] = credit[i] /\ slips'[i] = slips[i]
           /\ \A a \in Agents : work'[a][i] = work[a][i]
  PROVE  \A i \in Jobs : PrintRules(i)'
<1> TAKE i \in Jobs
<1>1. CASE i = j
  BY <1>1
<1>2. CASE i # j
  <2>1. job[i].claimant \in Agents \cup {None}
    BY DEF PrintInvariant, TypeOK, JobRows
  <2> QED
    BY <1>2, <2>1, OtherJobs DEF PrintInvariant
<1> QED
  BY <1>1, <1>2

(* An answer moves the progress of its own order only, and to one phase.      *)
LEMMA ReplyEffect ==
  ASSUME TypeOK, NEW r, NEW from, NEW to, Reply(r, from, to), NEW a \in Agents, NEW j \in Jobs
  PROVE  work'[a][j] = work[a][j] \/ (work'[a][j] = to /\ j = r.job)
  BY DEF Reply, TypeOK

(* The rules of a job none of whose documents changes hands: the budget is     *)
(* kept when the permissions grow by at least what becomes obtainable.         *)
LEMMA RulesByFields ==
  ASSUME TypeOK, NEW j \in Jobs, PrintRules(j),
         PaymentFollowsStatus(j)', ClaimsAreFresh(j)',
         credit'[j] \in Int, slips'[j] \in Nat,
         \A a \in Agents : work'[a][j] = "fetched" => work[a][j] = "fetched",
         \/ credit'[j] + slips'[j] >= credit[j] + slips[j] + 1
         \/ /\ credit'[j] + slips'[j] >= credit[j] + slips[j]
            /\ Obtainable(j)' => Obtainable(j)
  PROVE  PrintRules(j)'
<1> DEFINE h == Cardinality(InHand(j))
           g == Cardinality(InHand(j)')
           n == IF Obtainable(j) THEN 1 ELSE 0
           m == IF Obtainable(j)' THEN 1 ELSE 0
<1>1. h \in Nat /\ g \in Nat /\ g <= h
  BY HandKept
<1>2. credit[j] \in Int /\ slips[j] \in Nat /\ credit[j] + slips[j] >= h + n
  BY DEF TypeOK, PrintRules, BudgetCovered
<1>3. n \in 0 .. 1 /\ m \in 0 .. 1
  OBVIOUS
<1>4. \/ credit'[j] + slips'[j] >= credit[j] + slips[j] + 1
      \/ credit'[j] + slips'[j] >= credit[j] + slips[j] /\ m <= n
  OBVIOUS
<1>5. credit'[j] + slips'[j] >= g + m
  <2> HIDE DEF h, g, n, m
  <2> QED
    BY <1>1, <1>2, <1>3, <1>4
<1> QED
  BY <1>5 DEF PrintRules, BudgetCovered

(* Steps of a computer's work keep the rules of every order.                  *)
LEMMA RulesWork ==
  ASSUME PrintInvariant, TypeOK', NEW a \in Agents, NEW j \in Jobs, WorkStep(a, j)
  PROVE  \A i \in Jobs : PrintRules(i)'
<1>1. TypeOK /\ PrintRules(j) /\ job[j] \in JobRows /\ work[a] \in [Jobs -> Phases]
  BY DEF PrintInvariant, TypeOK
<1>2. credit'[j] \in Int /\ slips'[j] \in Nat /\ credit[j] \in Int /\ slips[j] \in Nat
  BY <1>1 DEF TypeOK
<1>3. CASE ClaimStart(a, j)
  <2>1. /\ job'[j].status = job[j].status /\ job'[j].payment = job[j].payment
        /\ job'[j].error = job[j].error
        /\ \A i \in Jobs : i # j => job'[i] = job[i]
    BY <1>1, <1>3 DEF ClaimStart, TypeOK, JobRows
  <2>2. job'[j].claimant = a /\ job[j].status = "otp_verified" /\ ~StaffHeld(j)
    BY <1>1, <1>3 DEF ClaimStart, TypeOK, JobRows
  <2>3. work' = [work EXCEPT ![a][j] = "claiming"]
    BY <1>3 DEF ClaimStart
  <2>4. PaymentFollowsStatus(j)' /\ ClaimsAreFresh(j)'
    BY <1>1, <2>1, <2>2, <2>3
    DEF PrintRules, PaymentFollowsStatus, ClaimsAreFresh, StaffHeld, TypeOK
  <2>5. \A b \in Agents : work'[b][j] = "fetched" => work[b][j] = "fetched"
    BY <1>1, <2>3 DEF TypeOK
  <2>6. PrintRules(j)'
    <3>1. Obtainable(j)
      BY <2>2 DEF Obtainable
    <3>2. credit'[j] + slips'[j] >= credit[j] + slips[j]
      BY <1>2, <1>3 DEF ClaimStart
    <3> QED
      BY <1>1, <1>2, <2>4, <2>5, <3>1, <3>2, RulesByFields
  <2> QED
    BY <1>1, <1>3, <2>1, <2>3, <2>6, RulesOfOneJob DEF ClaimStart, TypeOK
<1>4. CASE Download(a, j)
  <2>1. /\ work' = [work EXCEPT ![a][j] = "fetched"] /\ work[a][j] = "claimed"
        /\ job[j].claimant = a /\ job[j].status = "printing"
    BY <1>1, <1>4 DEF Download, PrintRules, ClaimsAreFresh
  <2>2. Obtainable(j) /\ ~Obtainable(j)'
    BY <1>1, <1>4, <2>1 DEF Obtainable, Download, TypeOK
  <2>3. Cardinality(InHand(j)') = Cardinality(InHand(j)) + 1 /\ Cardinality(InHand(j)) \in Nat
    BY <1>1, <2>1, HandTaken, HandFinite
  <2>4. BudgetCovered(j)'
    BY <1>1, <1>2, <1>4, <2>2, <2>3 DEF PrintRules, BudgetCovered, Download
  <2>5. PaymentFollowsStatus(j)' /\ ClaimsAreFresh(j)'
    BY <1>1, <1>4, <2>1
    DEF PrintRules, PaymentFollowsStatus, ClaimsAreFresh, StaffHeld, Download
  <2> QED
    BY <1>1, <1>4, <2>1, <2>4, <2>5, RulesOfOneJob DEF Download, TypeOK, PrintRules
<1>5. CASE SendToPrinter(a, j)
  <2>1. work' = [work EXCEPT ![a][j] = "printed"] /\ work[a][j] = "fetched"
    BY <1>5 DEF SendToPrinter
  <2>2. Cardinality(InHand(j)') = Cardinality(InHand(j)) - 1 /\ Cardinality(InHand(j)) \in Nat
    BY <1>1, <2>1, HandGiven, HandFinite
  <2>3. \A b \in Agents : work'[b][j] = "claimed" => work[b][j] = "claimed"
    BY <1>1, <2>1 DEF TypeOK
  <2>4. Obtainable(j)' => Obtainable(j)
    <3>1. job[j].claimant \in Agents \cup {None}
      BY <1>1 DEF JobRows
    <3> QED
      BY <1>5, <2>3, <3>1 DEF Obtainable, SendToPrinter, StaffHeld
  <2>5. credit'[j] = credit[j] - 1 /\ slips'[j] = slips[j]
    BY <1>1, <1>5 DEF SendToPrinter, TypeOK
  <2>6. BudgetCovered(j)'
    BY <1>1, <1>2, <2>2, <2>4, <2>5 DEF PrintRules, BudgetCovered
  <2>7. PaymentFollowsStatus(j)' /\ ClaimsAreFresh(j)'
    BY <1>1, <1>5, <2>3
    DEF PrintRules, PaymentFollowsStatus, ClaimsAreFresh, StaffHeld, SendToPrinter
  <2> QED
    BY <1>1, <1>5, <2>1, <2>6, <2>7, RulesOfOneJob DEF SendToPrinter, TypeOK, PrintRules
<1>6. CASE ReportComplete(a, j) \/ AlreadyConfirmed(a, j) \/ AgentError(a, j)
  <2>1. PICK to \in {"reporting", "none", "failing"} : work' = [work EXCEPT ![a][j] = to]
    BY <1>6 DEF ReportComplete, AlreadyConfirmed, AgentError
  <2>2. UNCHANGED <<job, credit, slips>>
    BY <1>6 DEF ReportComplete, AlreadyConfirmed, AgentError
  <2>3. /\ \A b \in Agents : work'[b][j] = "claimed" => work[b][j] = "claimed"
        /\ \A b \in Agents : work'[b][j] = "fetched" => work[b][j] = "fetched"
    BY <1>1, <2>1 DEF TypeOK
  <2>4. Obtainable(j)' => Obtainable(j)
    <3>1. job[j].claimant \in Agents \cup {None}
      BY <1>1 DEF JobRows
    <3> QED
      BY <2>2, <2>3, <3>1 DEF Obtainable, StaffHeld
  <2>5. PaymentFollowsStatus(j)' /\ ClaimsAreFresh(j)'
    BY <1>1, <2>2, <2>3 DEF PrintRules, PaymentFollowsStatus, ClaimsAreFresh, StaffHeld
  <2>6. PrintRules(j)'
    <3>1. credit'[j] + slips'[j] >= credit[j] + slips[j]
      BY <1>2, <2>2
    <3> QED
      BY <1>1, <1>2, <2>3, <2>4, <2>5, <3>1, RulesByFields
  <2> QED
    BY <1>1, <2>1, <2>2, <2>6, RulesOfOneJob DEF TypeOK
<1>7. CASE ReportFailure(a, j)
  BY <1>7, RulesUntouched DEF ReportFailure
<1> QED
  BY <1>3, <1>4, <1>5, <1>6, <1>7 DEF WorkStep

(* A job whose documents and permissions stay as they are, while its row moves *)
(* on: the rules hold of the new row if nothing more is obtainable from it.    *)
LEMMA RulesOfRow ==
  ASSUME PrintInvariant, TypeOK', NEW j \in Jobs, UNCHANGED <<work, credit, slips>>,
         \A i \in Jobs : i # j => job'[i] = job[i],
         PaymentFollowsStatus(j)', ClaimsAreFresh(j)', Obtainable(j)' => Obtainable(j)
  PROVE  \A i \in Jobs : PrintRules(i)'
<1>1. TypeOK /\ PrintRules(j)
  BY DEF PrintInvariant
<1>2. credit'[j] \in Int /\ slips'[j] \in Nat /\ credit'[j] + slips'[j] >= credit[j] + slips[j]
  BY <1>1 DEF TypeOK
<1>3. PrintRules(j)'
  BY <1>1, <1>2, RulesByFields
<1> QED
  BY <1>3, RulesOfOneJob

(* Steps of timers and staff keep the rules of every order.                   *)
LEMMA RulesJob ==
  ASSUME PrintInvariant, TypeOK', NEW j \in Jobs, JobStep(j)
  PROVE  \A i \in Jobs : PrintRules(i)'
<1>1. TypeOK /\ PrintRules(j) /\ job[j] \in JobRows
  BY DEF PrintInvariant, TypeOK
<1>2. CASE Release(j)
  <2>1. PICK p \in Printers :
          /\ ApplyTransition(j, "queued", "otp_verified",
               [Unclaimed(job[j]) EXCEPT !.printer = p, !.error = "none", !.payment = "paid"])
          /\ UNCHANGED <<agent, process, work, pending, credit, slips>>
    BY <1>2 DEF Release
  <2> DEFINE row == [Unclaimed(job[j]) EXCEPT !.printer = p, !.error = "none", !.payment = "paid"]
  <2>2. "none" \in Errors /\ "paid" \in {"due", "paid", "refunded"} /\ "otp_verified" \in Statuses
    BY Values
  <2>3. row \in JobRows
    BY <1>1, <2>2, UnclaimedType, RowWrite, Zenon
  <2>4. row.error = "none" /\ row.payment = "paid" /\ row.claimant = None
    BY <1>1, UnclaimedType, UnclaimedEffect DEF JobRows
  <2>5. ApplyTransition(j, "queued", "otp_verified", row)
    BY <2>1
  <2> HIDE DEF row
  <2>6. /\ job[j].status = "queued" /\ job'[j].status = "otp_verified"
        /\ job'[j].payment = "paid" /\ job'[j].claimant = None /\ job'[j].error = "none"
        /\ \A i \in Jobs : i # j => job'[i] = job[i]
    <3>1. /\ job[j].status = "queued" /\ job'[j].status = "otp_verified"
          /\ job'[j].payment = row.payment /\ job'[j].claimant = row.claimant
          /\ job'[j].error = row.error
          /\ \A i \in Jobs : i # j => job'[i] = job[i]
      BY <1>1, <2>2, <2>3, <2>5, ApplyEffect
    <3> QED
      BY <2>4, <3>1
  <2>7. PaymentFollowsStatus(j)' /\ ClaimsAreFresh(j)' /\ Obtainable(j)
    BY <2>6 DEF PaymentFollowsStatus, ClaimsAreFresh, StaffHeld, StaffDecisionErrors, Obtainable
  <2> QED
    BY <2>1, <2>6, <2>7, RulesOfRow
<1>3. CASE FinishingComplete(j) \/ Handover(j)
  <2>1. PICK from \in {"finishing", "ready_for_pickup"}, to \in {"ready_for_pickup", "completed"} :
          ApplyTransition(j, from, to, job[j])
    BY <1>3 DEF FinishingComplete, Handover
  <2>2. to \in Statuses
    BY Values
  <2>3. /\ job[j].status = from /\ job'[j].status = to
        /\ job'[j].payment = job[j].payment /\ job'[j].claimant = job[j].claimant
        /\ job'[j].error = job[j].error
        /\ \A i \in Jobs : i # j => job'[i] = job[i]
    BY <1>1, <2>1, <2>2, ApplyEffect
  <2>4. PaymentFollowsStatus(j)' /\ ClaimsAreFresh(j)' /\ ~Obtainable(j)'
    BY <1>1, <2>1, <2>3
    DEF PrintRules, PaymentFollowsStatus, ClaimsAreFresh, StaffHeld, Obtainable
  <2> QED
    BY <1>3, <2>3, <2>4, RulesOfRow DEF FinishingComplete, Handover
<1>4. CASE JobAges(j) \/ SpoolAges(j)
  <2>1. /\ job'[j].status = job[j].status /\ job'[j].payment = job[j].payment
        /\ job'[j].claimant = job[j].claimant /\ job'[j].error = job[j].error
        /\ \A i \in Jobs : i # j => job'[i] = job[i]
    BY <1>1, <1>4 DEF JobAges, SpoolAges, TypeOK, JobRows
  <2>2. UNCHANGED <<work, credit, slips>>
    BY <1>4 DEF JobAges, SpoolAges
  <2>3. PaymentFollowsStatus(j)' /\ ClaimsAreFresh(j)' /\ (Obtainable(j)' => Obtainable(j))
    BY <1>1, <2>1, <2>2
    DEF PrintRules, PaymentFollowsStatus, ClaimsAreFresh, StaffHeld, Obtainable
  <2> QED
    BY <2>1, <2>2, <2>3, RulesOfRow
<1>5. CASE StaffRetry(j) \/ StaffReturn(j) \/ StaffConfirm(j) \/ Sweep(j)
  BY <1>5, RulesUntouched DEF StaffRetry, StaffReturn, StaffRequest, StaffConfirm, Sweep
<1> QED
  BY <1>2, <1>3, <1>4, <1>5 DEF JobStep

(* A failure: the job goes back to the counter, with a new permission when its *)
(* own computer reported it.                                                   *)
LEMMA RulesFail ==
  ASSUME PrintInvariant, TypeOK', NEW r \in pending, FailWrite(r)
  PROVE  \A i \in Jobs : PrintRules(i)'
<1> DEFINE j == r.job
           row == [Unclaimed(job[j]) EXCEPT !.error = "retryable"]
<1>1. TypeOK /\ r.op # "beat"
  BY DEF PrintInvariant, FailWrite
<1>2. j \in Jobs /\ job[j] \in JobRows
  BY <1>1, WriteType
<1>3. PrintRules(j)
  BY <1>2 DEF PrintInvariant
<1>4. "retryable" \in Errors /\ "otp_verified" \in Statuses
  BY Values
<1>5. row \in JobRows
  BY <1>2, <1>4, UnclaimedType, RowWrite, Zenon
<1>6. row.error = "retryable" /\ row.payment = job[j].payment /\ row.claimant = None
  BY <1>2, UnclaimedType, UnclaimedEffect DEF JobRows
<1>7. ApplyTransition(j, "printing", "otp_verified", row)
  BY DEF FailWrite
<1>8. Reply(r, "failing", "none") /\ credit' = [credit EXCEPT ![j] = @ + 1] /\ slips' = slips
  BY DEF FailWrite
<1>9. \A a \in Agents, i \in Jobs :
        work'[a][i] = work[a][i] \/ (work'[a][i] = "none" /\ i = j)
  BY <1>1, <1>8, ReplyEffect
<1> HIDE DEF j, row
<1>10. /\ job[j].status = "printing" /\ job'[j].status = "otp_verified"
       /\ job'[j].payment = job[j].payment /\ job'[j].claimant = None
       /\ job'[j].error = "retryable"
       /\ \A i \in Jobs : i # j => job'[i] = job[i]
  <2>1. /\ job[j].status = "printing" /\ job'[j].status = "otp_verified"
        /\ job'[j].payment = row.payment /\ job'[j].claimant = row.claimant
        /\ job'[j].error = row.error
        /\ \A i \in Jobs : i # j => job'[i] = job[i]
    BY <1>1, <1>2, <1>4, <1>5, <1>7, ApplyEffect
  <2> QED
    BY <1>6, <2>1
<1>11. PaymentFollowsStatus(j)' /\ ClaimsAreFresh(j)'
  <2>1. "retryable" \notin StaffDecisionErrors /\ None \notin Agents
    BY DEF StaffDecisionErrors
  <2> QED
    BY <1>3, <1>10, <2>1 DEF PrintRules, PaymentFollowsStatus, ClaimsAreFresh, StaffHeld
<1>12. /\ credit'[j] \in Int /\ slips'[j] \in Nat
       /\ credit'[j] + slips'[j] >= credit[j] + slips[j] + 1
  BY <1>1, <1>2, <1>8 DEF TypeOK
<1>13. \A a \in Agents : work'[a][j] = "fetched" => work[a][j] = "fetched"
  BY <1>2, <1>9
<1>14. PrintRules(j)'
  BY <1>1, <1>2, <1>3, <1>11, <1>12, <1>13, RulesByFields
<1> QED
  BY <1>1, <1>2, <1>8, <1>9, <1>10, <1>14, RulesOfOneJob DEF TypeOK

(* A lost print: it waits for staff, and nobody can download it.               *)
LEMMA RulesLose ==
  ASSUME PrintInvariant, TypeOK', NEW r \in pending, LoseWrite(r)
  PROVE  \A i \in Jobs : PrintRules(i)'
<1> DEFINE j == r.job
           row == [Unclaimed(job[j]) EXCEPT !.error = r.reason]
<1>1. TypeOK /\ r.op # "beat"
  BY DEF PrintInvariant, LoseWrite
<1>2. j \in Jobs /\ job[j] \in JobRows /\ r.reason \in Errors
  BY <1>1, WriteType
<1>3. PrintRules(j) /\ r.reason \in StaffDecisionErrors
  BY <1>2 DEF PrintInvariant, LossesWaitForStaff, LoseWrite
<1>4. row \in JobRows /\ "otp_verified" \in Statuses
  BY <1>2, UnclaimedType, RowWrite, Values, Zenon
<1>5. row.payment = job[j].payment /\ row.claimant = None /\ row.error = r.reason
  BY <1>2, UnclaimedType, UnclaimedEffect DEF JobRows
<1>6. ApplyTransition(j, "printing", "otp_verified", row) /\ UNCHANGED <<work, credit, slips>>
  BY DEF LoseWrite
<1> HIDE DEF j, row
<1>7. /\ job[j].status = "printing" /\ job'[j].status = "otp_verified"
      /\ job'[j].payment = job[j].payment /\ job'[j].claimant = None
      /\ job'[j].error = r.reason
      /\ \A i \in Jobs : i # j => job'[i] = job[i]
  <2>1. /\ job[j].status = "printing" /\ job'[j].status = "otp_verified"
        /\ job'[j].payment = row.payment /\ job'[j].claimant = row.claimant
        /\ job'[j].error = row.error
        /\ \A i \in Jobs : i # j => job'[i] = job[i]
    BY <1>1, <1>2, <1>4, <1>6, ApplyEffect
  <2> QED
    BY <1>5, <2>1
<1>8. PaymentFollowsStatus(j)' /\ ClaimsAreFresh(j)' /\ ~Obtainable(j)'
  BY <1>3, <1>7
  DEF PrintRules, PaymentFollowsStatus, ClaimsAreFresh, StaffHeld, Obtainable
<1> QED
  BY <1>2, <1>6, <1>7, <1>8, RulesOfRow

(* The second statement of a claim keeps the rules: it changes who may fetch  *)
(* the document only for a claim already counted.                             *)
LEMMA RulesClaimCommit ==
  ASSUME PrintInvariant, TypeOK', NEW r \in pending, ClaimCommit(r)
  PROVE  \A i \in Jobs : PrintRules(i)'
<1> DEFINE j == r.job
           row == [job[j] EXCEPT !.error = "none", !.attempts = job[j].attempts + 1]
<1>1. TypeOK /\ r.op # "beat"
  BY DEF PrintInvariant, ClaimCommit
<1>2. j \in Jobs /\ job[j] \in JobRows
  BY <1>1, WriteType
<1>3. PrintRules(j)
  BY <1>2 DEF PrintInvariant
<1>4. row \in JobRows /\ "printing" \in Statuses
  <2>1. job[j].attempts + 1 \in 0 .. MaxAttempts /\ "none" \in Errors
    BY <1>2, Values DEF ClaimCommit, JobRows
  <2> QED
    BY <1>2, <2>1, RowWrite, Values, Zenon
<1>5. row.error = "none" /\ row.payment = job[j].payment /\ row.claimant = job[j].claimant
  BY <1>2 DEF JobRows
<1>6. ApplyTransition(j, "otp_verified", "printing", row)
  BY DEF ClaimCommit
<1>7. Reply(r, "claiming", "claimed") /\ UNCHANGED <<credit, slips>>
  BY DEF ClaimCommit
<1>8. \A a \in Agents, i \in Jobs :
        work'[a][i] = work[a][i] \/ (work'[a][i] = "claimed" /\ i = j)
  BY <1>1, <1>7, ReplyEffect
<1> HIDE DEF j, row
<1>9. /\ job[j].status = "otp_verified" /\ job'[j].status = "printing"
      /\ job'[j].payment = job[j].payment /\ job'[j].claimant = job[j].claimant
      /\ job'[j].error = "none"
      /\ \A i \in Jobs : i # j => job'[i] = job[i]
  <2>1. /\ job[j].status = "otp_verified" /\ job'[j].status = "printing"
        /\ job'[j].payment = row.payment /\ job'[j].claimant = row.claimant
        /\ job'[j].error = row.error
        /\ \A i \in Jobs : i # j => job'[i] = job[i]
    BY <1>1, <1>2, <1>4, <1>6, ApplyEffect
  <2> QED
    BY <1>5, <2>1
<1>10. PaymentFollowsStatus(j)' /\ ClaimsAreFresh(j)'
  BY <1>3, <1>9
  DEF PrintRules, PaymentFollowsStatus, ClaimsAreFresh, StaffHeld, StaffDecisionErrors
<1>11. Obtainable(j)' => Obtainable(j)
  <2>1. SUFFICES ASSUME Obtainable(j)' PROVE ~StaffHeld(j)
    BY <1>9 DEF Obtainable
  <2>2. job[j].claimant # None
    BY <1>9, <2>1 DEF Obtainable
  <2> QED
    BY <1>3, <2>2 DEF PrintRules, ClaimsAreFresh
<1>12. \A a \in Agents : work'[a][j] = "fetched" => work[a][j] = "fetched"
  BY <1>2, <1>8
<1>13. /\ credit'[j] \in Int /\ slips'[j] \in Nat
       /\ credit'[j] + slips'[j] >= credit[j] + slips[j]
  BY <1>1, <1>2, <1>7 DEF TypeOK
<1>14. PrintRules(j)'
  BY <1>1, <1>2, <1>3, <1>10, <1>11, <1>12, <1>13, RulesByFields
<1> QED
  BY <1>2, <1>7, <1>8, <1>9, <1>14, RulesOfOneJob

(* The spooler's acknowledgement keeps the rules.                             *)
LEMMA RulesSpool ==
  ASSUME PrintInvariant, TypeOK', NEW r \in pending, SpoolWrite(r)
  PROVE  \A i \in Jobs : PrintRules(i)'
<1> DEFINE j == r.job
           row == [job[j] EXCEPT !.spool = job[j].attempts, !.spoolOld = FALSE,
                                 !.error = "none", !.age = 0]
<1>1. TypeOK /\ r.op # "beat"
  BY DEF PrintInvariant, SpoolWrite
<1>2. j \in Jobs /\ job[j] \in JobRows
  BY <1>1, WriteType
<1>3. PrintRules(j)
  BY <1>2 DEF PrintInvariant
<1>4. /\ row.error = "none" /\ row.payment = job[j].payment
      /\ row.claimant = job[j].claimant /\ row.status = job[j].status
  BY <1>2 DEF JobRows
<1>5. \/ job' = [job EXCEPT ![j] = row] /\ job[j].status = "printing"
      \/ job' = job
  BY <1>1, <1>2 DEF SpoolWrite, TypeOK
<1>6. Reply(r, "reporting", "none") /\ UNCHANGED <<credit, slips>>
  BY DEF SpoolWrite
<1>7. \A a \in Agents, i \in Jobs :
        work'[a][i] = work[a][i] \/ (work'[a][i] = "none" /\ i = j)
  BY <1>1, <1>6, ReplyEffect
<1> HIDE DEF j, row
<1>8. /\ job'[j].status = job[j].status /\ job'[j].payment = job[j].payment
      /\ job'[j].claimant = job[j].claimant
      /\ job'[j].error = job[j].error \/ job'[j].error = "none"
      /\ \A i \in Jobs : i # j => job'[i] = job[i]
  BY <1>1, <1>2, <1>4, <1>5 DEF TypeOK
<1>9. PaymentFollowsStatus(j)' /\ ClaimsAreFresh(j)'
  BY <1>2, <1>3, <1>7, <1>8
  DEF PrintRules, PaymentFollowsStatus, ClaimsAreFresh, StaffHeld, StaffDecisionErrors
<1>10. Obtainable(j)' => Obtainable(j)
  <2>1. job[j].claimant \in Agents \cup {None}
    BY <1>2 DEF JobRows
  <2>2. job[j].status = "otp_verified" => job'[j].error = job[j].error
    BY <1>5
  <2> QED
    BY <1>2, <1>7, <1>8, <2>1, <2>2 DEF Obtainable, StaffHeld
<1>11. \A a \in Agents : work'[a][j] = "fetched" => work[a][j] = "fetched"
  BY <1>2, <1>7
<1>12. /\ credit'[j] \in Int /\ slips'[j] \in Nat
       /\ credit'[j] + slips'[j] >= credit[j] + slips[j]
  BY <1>1, <1>2, <1>6 DEF TypeOK
<1>13. PrintRules(j)'
  BY <1>1, <1>2, <1>3, <1>9, <1>10, <1>11, <1>12, RulesByFields
<1> QED
  BY <1>2, <1>6, <1>7, <1>8, <1>13, RulesOfOneJob

(* The writes of staff requests: retry, the no-agent mark, return.             *)
LEMMA RulesRetry ==
  ASSUME PrintInvariant, TypeOK', NEW r \in pending, RetryWrite(r)
  PROVE  \A i \in Jobs : PrintRules(i)'
<1>1. TypeOK /\ r.op # "beat"
  BY DEF PrintInvariant, RetryWrite
<1>2. r.job \in Jobs /\ job[r.job] \in JobRows /\ Unclaimed(job[r.job]) \in JobRows
  BY <1>1, WriteType, UnclaimedType
<1>3. PrintRules(r.job)
  BY <1>2 DEF PrintInvariant
<1>4. PICK p \in Printers :
        job' = [job EXCEPT ![r.job] =
                 [Unclaimed(job[r.job]) EXCEPT !.printer = p, !.error = "none", !.age = 0]]
  BY <1>1, <1>2 DEF RetryWrite, TypeOK
<1> DEFINE j == r.job
           row == [Unclaimed(job[j]) EXCEPT !.printer = p, !.error = "none", !.age = 0]
<1>5. /\ row.error = "none" /\ row.payment = job[j].payment /\ row.claimant = None
      /\ row.status = job[j].status
  BY <1>2, UnclaimedEffect DEF JobRows
<1>6. job' = [job EXCEPT ![j] = row] /\ UNCHANGED <<work, slips>>
  BY <1>4 DEF RetryWrite
<1>7. credit' = [credit EXCEPT ![j] = @ + 1]
  BY DEF RetryWrite
<1> HIDE DEF row
<1>8. /\ job'[j].status = job[j].status /\ job'[j].payment = job[j].payment
      /\ job'[j].claimant = None /\ job'[j].error = "none"
      /\ \A i \in Jobs : i # j => job'[i] = job[i]
  BY <1>1, <1>2, <1>5, <1>6 DEF TypeOK
<1>9. PaymentFollowsStatus(j)' /\ ClaimsAreFresh(j)'
  BY <1>3, <1>8
  DEF PrintRules, PaymentFollowsStatus, ClaimsAreFresh, StaffHeld, StaffDecisionErrors
<1>10. /\ credit'[j] \in Int /\ slips'[j] \in Nat
       /\ credit'[j] + slips'[j] >= credit[j] + slips[j] + 1
  BY <1>1, <1>2, <1>6, <1>7 DEF TypeOK
<1>11. PrintRules(j)'
  BY <1>1, <1>2, <1>3, <1>6, <1>9, <1>10, RulesByFields
<1> QED
  BY <1>1, <1>2, <1>6, <1>7, <1>8, <1>11, RulesOfOneJob DEF TypeOK

(* The mark of an order no computer can print keeps the rules.                *)
LEMMA RulesNoAgent ==
  ASSUME PrintInvariant, TypeOK', NEW r \in pending, NoAgentWrite(r)
  PROVE  \A i \in Jobs : PrintRules(i)'
<1> DEFINE j == r.job
<1>1. TypeOK /\ r.op # "beat"
  BY DEF PrintInvariant, NoAgentWrite
<1>2. j \in Jobs /\ job[j] \in JobRows
  BY <1>1, WriteType
<1>3. PrintRules(j)
  BY <1>2 DEF PrintInvariant
<1>4. /\ job[j].status = "otp_verified" /\ UNCHANGED <<work, credit>>
      /\ slips' = IF StaffHeld(j) THEN [slips EXCEPT ![j] = @ + 1] ELSE slips
  BY DEF NoAgentWrite
<1>5. /\ job'[j].status = job[j].status /\ job'[j].payment = job[j].payment
      /\ job'[j].claimant = job[j].claimant /\ job'[j].error = "retryable"
      /\ \A i \in Jobs : i # j => job'[i] = job[i]
  BY <1>1, <1>2 DEF NoAgentWrite, TypeOK, JobRows
<1>6. PaymentFollowsStatus(j)' /\ ClaimsAreFresh(j)'
  BY <1>3, <1>4, <1>5
  DEF PrintRules, PaymentFollowsStatus, ClaimsAreFresh, StaffHeld, StaffDecisionErrors
<1>7. credit'[j] \in Int /\ slips'[j] \in Nat
  BY <1>1, <1>2, <1>4 DEF TypeOK
<1>8. \/ credit'[j] + slips'[j] >= credit[j] + slips[j] + 1
      \/ credit'[j] + slips'[j] >= credit[j] + slips[j] /\ Obtainable(j)
  BY <1>1, <1>2, <1>4 DEF TypeOK, Obtainable
<1>9. PrintRules(j)'
  BY <1>1, <1>2, <1>3, <1>4, <1>6, <1>7, <1>8, RulesByFields
<1> QED
  BY <1>1, <1>2, <1>4, <1>5, <1>9, RulesOfOneJob DEF TypeOK

(* The return of a counter payment keeps the rules.                           *)
LEMMA RulesReturn ==
  ASSUME PrintInvariant, TypeOK', NEW r \in pending, ReturnWrite(r)
  PROVE  \A i \in Jobs : PrintRules(i)'
<1> DEFINE j == r.job
           row == [Unclaimed(job[j]) EXCEPT !.payment = "refunded", !.error = "none"]
<1>1. TypeOK /\ r.op # "beat"
  BY DEF PrintInvariant, ReturnWrite
<1>2. j \in Jobs /\ job[j] \in JobRows
  BY <1>1, WriteType
<1>3. row \in JobRows /\ "cancelled" \in Statuses
  <2>1. "none" \in Errors /\ "refunded" \in {"due", "paid", "refunded"}
    BY Values
  <2> QED
    BY <1>2, <2>1, UnclaimedType, RowWrite, Values, Zenon
<1>4. row.error = "none" /\ row.payment = "refunded"
  BY <1>2, UnclaimedType DEF JobRows
<1>5. ApplyTransition(j, "otp_verified", "cancelled", row) /\ UNCHANGED <<work, credit, slips>>
  BY DEF ReturnWrite
<1> HIDE DEF j, row
<1>6. /\ job'[j].status = "cancelled" /\ job'[j].payment = "refunded" /\ job'[j].error = "none"
      /\ \A i \in Jobs : i # j => job'[i] = job[i]
  <2>1. /\ job'[j].status = "cancelled" /\ job'[j].payment = row.payment
        /\ job'[j].error = row.error
        /\ \A i \in Jobs : i # j => job'[i] = job[i]
    BY <1>1, <1>2, <1>3, <1>5, ApplyEffect
  <2> QED
    BY <1>4, <2>1
<1>7. PaymentFollowsStatus(j)' /\ ClaimsAreFresh(j)' /\ ~Obtainable(j)'
  BY <1>6 DEF PaymentFollowsStatus, ClaimsAreFresh, StaffHeld, StaffDecisionErrors, Obtainable
<1> QED
  BY <1>2, <1>5, <1>6, <1>7, RulesOfRow

(* Staff's confirmation keeps the rules.                                      *)
LEMMA RulesConfirm ==
  ASSUME PrintInvariant, TypeOK', NEW r \in pending, ConfirmWrite(r)
  PROVE  \A i \in Jobs : PrintRules(i)'
<1> DEFINE j == r.job
           s == IF job[j].spool = 0 THEN job[j].attempts ELSE job[j].spool
           to == IF j \in BindingJobs THEN "finishing" ELSE "ready_for_pickup"
           row == [job[j] EXCEPT !.error = "none", !.spool = s]
<1>1. TypeOK /\ r.op # "beat"
  BY DEF PrintInvariant, ConfirmWrite
<1>2. j \in Jobs /\ job[j] \in JobRows
  BY <1>1, WriteType
<1>3. PrintRules(j)
  BY <1>2 DEF PrintInvariant
<1>4. to \in {"finishing", "ready_for_pickup"} /\ to \in Statuses
  BY Values
<1>5. ApplyTransition(j, "printing", to, row) /\ UNCHANGED <<credit, slips>>
  BY DEF ConfirmWrite
<1>6. s \in 0 .. MaxAttempts
  BY <1>2 DEF JobRows
<1>7. \A a \in Agents, i \in Jobs :
        work'[a][i] = work[a][i] \/ (work'[a][i] = "none" /\ i = j)
  BY <1>1, ReplyEffect DEF ConfirmWrite
<1> HIDE DEF j, s, to
<1>8. /\ row \in JobRows /\ row.error = "none" /\ row.payment = job[j].payment
      /\ row.claimant = job[j].claimant
  <2>1. "none" \in Errors
    BY Values
  <2>2. row \in JobRows
    BY <1>2, <1>6, <2>1, RowWrite, Zenon
  <2> QED
    BY <1>2, <2>2 DEF JobRows
<1> HIDE DEF row
<1>9. /\ job[j].status = "printing" /\ job'[j].status = to
      /\ job'[j].payment = job[j].payment /\ job'[j].error = "none"
      /\ \A i \in Jobs : i # j => job'[i] = job[i]
  <2>1. /\ job[j].status = "printing" /\ job'[j].status = to
        /\ job'[j].payment = row.payment /\ job'[j].error = row.error
        /\ \A i \in Jobs : i # j => job'[i] = job[i]
    <3>1. TypeOK /\ j \in Jobs /\ to \in Statuses /\ row \in JobRows
      BY <1>1, <1>2, <1>4, <1>8
    <3>2. ApplyTransition(j, "printing", to, row)
      BY <1>5
    <3> QED
      BY <3>1, <3>2, ApplyEffect
  <2> QED
    BY <1>8, <2>1
<1>10. PaymentFollowsStatus(j)' /\ ClaimsAreFresh(j)' /\ ~Obtainable(j)'
  BY <1>3, <1>4, <1>9
  DEF PrintRules, PaymentFollowsStatus, ClaimsAreFresh, StaffHeld, StaffDecisionErrors, Obtainable
<1>11. \A a \in Agents : work'[a][j] = "fetched" => work[a][j] = "fetched"
  BY <1>2, <1>7
<1>12. /\ credit'[j] \in Int /\ slips'[j] \in Nat
       /\ credit'[j] + slips'[j] >= credit[j] + slips[j]
  BY <1>1, <1>2, <1>5 DEF TypeOK
<1>13. PrintRules(j)'
  BY <1>1, <1>2, <1>3, <1>10, <1>11, <1>12, RulesByFields
<1> QED
  BY <1>2, <1>5, <1>7, <1>9, <1>13, RulesOfOneJob

-----------------------------------------------------------------------------
(* The reasons of the losses in transit. *)

(* The fields of a handler's record are those it was made with. *)
LEMMA RequestFields ==
  ASSUME NEW op, NEW j, NEW a, NEW why, NEW then
  PROVE  /\ Request(op, j).op = op /\ AgentRequest(op, j, a).op = op
         /\ LoseRequest(op, j, why, then).op = op
         /\ LoseRequest(op, j, why, then).reason = why
  BY DEF Request, AgentRequest, LoseRequest

(* New loss handlers that carry a staff decision keep LossesWaitForStaff.     *)
LEMMA LossesGrow ==
  ASSUME LossesWaitForStaff,
         \A r \in pending' : \/ r \in pending \/ r.op \notin {"lose", "sweep"}
                             \/ r.reason \in StaffDecisionErrors
  PROVE  LossesWaitForStaff'
  BY DEF LossesWaitForStaff

(* What reconciliation finds lost waits for staff.                            *)
LEMMA ReconcileLosses ==
  ASSUME NEW a, NEW sid, NEW missing
  PROVE  \A r \in Reconcile(a, sid, missing) : r.reason \in StaffDecisionErrors
  BY RequestFields DEF Reconcile, StaffDecisionErrors

(* Steps of a computer's connection keep LossesWaitForStaff.                  *)
LEMMA LossesAgent ==
  ASSUME LossesWaitForStaff, NEW a \in Agents, AgentStep(a)
  PROVE  LossesWaitForStaff'
<1>1. CASE Connect(a) \/ ReportPrinters(a)
  <2>1. PICK sid : pending' = pending \cup Reconcile(a, sid, {})
    BY <1>1 DEF Connect, ReportPrinters
  <2> QED
    BY <2>1, ReconcileLosses, LossesGrow
<1>2. CASE SendBeat(a)
  BY <1>2, LossesGrow DEF SendBeat
<1>3. CASE Quieten(a) \/ GoesOffline(a) \/ Restart(a) \/ DeleteAgent(a)
  BY <1>3, LossesGrow DEF Quieten, GoesOffline, Restart, DeleteAgent
<1> QED
  BY <1>1, <1>2, <1>3 DEF AgentStep

(* Steps of a computer's work keep LossesWaitForStaff.                        *)
LEMMA LossesWork ==
  ASSUME LossesWaitForStaff, NEW a \in Agents, NEW j \in Jobs, WorkStep(a, j)
  PROVE  LossesWaitForStaff'
<1>1. \A op : AgentRequest(op, j, a).op = op
  BY RequestFields
<1>2. \/ pending' = pending
      \/ \E op \in {"start", "spool", "simulate", "fail"} :
           pending' = pending \cup {AgentRequest(op, j, a)}
  BY DEF WorkStep, ClaimStart, Download, SendToPrinter, ReportComplete, AlreadyConfirmed,
         AgentError, ReportFailure, Submit
<1> QED
  BY <1>1, <1>2, LossesGrow

(* Steps of timers and staff keep LossesWaitForStaff.                         *)
LEMMA LossesJob ==
  ASSUME LossesWaitForStaff, NEW j \in Jobs, JobStep(j)
  PROVE  LossesWaitForStaff'
<1>1. \A op, why, then :
        /\ Request(op, j).op = op
        /\ LoseRequest(op, j, why, then).reason = why
  BY RequestFields
<1>2. CASE StaffRetry(j) \/ StaffReturn(j)
  <2>1. PICK then \in {"retry", "return"} : StaffRequest(j, then)
    BY <1>2 DEF StaffRetry, StaffReturn
  <2>2. pending' \in {pending \cup {Request(then, j)},
                      pending \cup {LoseRequest("lose", j, "agent_offline", then)}}
    BY <2>1 DEF StaffRequest, Submit
  <2> QED
    BY <1>1, <2>2, LossesGrow DEF StaffDecisionErrors
<1>3. CASE StaffConfirm(j)
  BY <1>1, <1>3, LossesGrow DEF StaffConfirm, Submit
<1>4. CASE Sweep(j)
  <2>1. LostReason(j, LeaseExpired(j)) \in StaffDecisionErrors
    BY <1>4 DEF Sweep, LostReason, StaffDecisionErrors
  <2>2. pending' = pending \cup {LoseRequest("sweep", j, LostReason(j, LeaseExpired(j)), "none")}
    BY <1>4 DEF Sweep
  <2> QED
    BY <1>1, <2>1, <2>2, LossesGrow
<1>5. CASE Release(j) \/ FinishingComplete(j) \/ Handover(j) \/ JobAges(j) \/ SpoolAges(j)
  BY <1>5, LossesGrow DEF Release, FinishingComplete, Handover, JobAges, SpoolAges
<1> QED
  BY <1>2, <1>3, <1>4, <1>5 DEF JobStep

(* The writes of the handlers keep LossesWaitForStaff.                        *)
LEMMA LossesWrite ==
  ASSUME TypeOK, LossesWaitForStaff, NEW r \in pending, Write(r)
  PROVE  LossesWaitForStaff'
<1>1. \A op : Request(op, r.job).op = op
  BY RequestFields
<1>2. CASE LoseWrite(r)
  <2>1. r.next \in {"none", "retry", "return"}
    BY <1>2, WriteType DEF LoseWrite
  <2>2. pending' \subseteq pending \cup {Request("retry", r.job), Request("return", r.job)}
    BY <1>2, <2>1 DEF LoseWrite
  <2> QED
    BY <1>1, <2>2, LossesGrow
<1>3. CASE RetryWrite(r) \/ Dispatch(r)
  <2>1. pending' \subseteq pending \cup {Request("dispatch", r.job), Request("noagent", r.job)}
    BY <1>3 DEF RetryWrite, Dispatch
  <2> QED
    BY <1>1, <2>1, LossesGrow
<1>4. CASE BeatArrives(r)
  <2>1. PICK sid : pending' = (pending \ {r}) \cup Reconcile(r.by, sid, Jobs \ r.flight)
    BY <1>4 DEF BeatArrives
  <2> QED
    BY <2>1, ReconcileLosses, LossesGrow
<1>5. CASE ~(LoseWrite(r) \/ RetryWrite(r) \/ Dispatch(r) \/ BeatArrives(r))
  <2>1. pending' \subseteq pending
    BY <1>5 DEF Write, ClaimCommit, SpoolWrite, FailWrite, NoAgentWrite, ReturnWrite,
                ConfirmWrite, Drop, Finish
  <2> QED
    BY <2>1, LossesGrow
<1> QED
  BY <1>2, <1>3, <1>4, <1>5

-----------------------------------------------------------------------------
(* The theorems. *)

(* Steps of a computer keep the rules of every order. *)
LEMMA RulesAgent ==
  ASSUME PrintInvariant, TypeOK', NEW a \in Agents, AgentStep(a)
  PROVE  \A j \in Jobs : PrintRules(j)'
<1>1. CASE Restart(a)
  <2> TAKE j \in Jobs
  <2>1. TypeOK /\ PrintRules(j) /\ job[j].claimant \in Agents \cup {None}
    BY DEF PrintInvariant, TypeOK, JobRows
  <2>2. UNCHANGED <<job, credit, slips>>
    BY <1>1 DEF Restart
  <2>3. \A b \in Agents : work'[b][j] = work[b][j] \/ work'[b][j] = "none"
    BY <1>1, <2>1 DEF Restart, TypeOK
  <2>4. PaymentFollowsStatus(j)' /\ ClaimsAreFresh(j)'
    BY <2>1, <2>2, <2>3 DEF PrintRules, PaymentFollowsStatus, ClaimsAreFresh, StaffHeld
  <2>5. Obtainable(j)' => Obtainable(j)
    BY <2>1, <2>2, <2>3 DEF Obtainable, StaffHeld
  <2>6. credit'[j] \in Int /\ slips'[j] \in Nat /\ credit'[j] + slips'[j] >= credit[j] + slips[j]
    BY <2>1, <2>2 DEF TypeOK
  <2>7. \A b \in Agents : work'[b][j] = "fetched" => work[b][j] = "fetched"
    BY <2>3
  <2> QED
    BY <2>1, <2>4, <2>5, <2>6, <2>7, RulesByFields
<1>2. CASE ~Restart(a)
  <2>1. UNCHANGED <<job, work, credit, slips>>
    BY <1>2 DEF AgentStep, Connect, ReportPrinters, SendBeat, Quieten, GoesOffline, DeleteAgent
  <2> QED
    BY <2>1, RulesUntouched
<1> QED
  BY <1>1, <1>2

(* The writes of the handlers keep the rules of every order.                  *)
LEMMA RulesWrite ==
  ASSUME PrintInvariant, TypeOK', NEW r \in pending, Write(r)
  PROVE  \A j \in Jobs : PrintRules(j)'
<1>1. CASE Dispatch(r) \/ BeatArrives(r) \/ Drop(r)
  BY <1>1, RulesUntouched DEF Dispatch, BeatArrives, Drop
<1> QED
  BY <1>1, RulesClaimCommit, RulesSpool, RulesFail, RulesLose, RulesRetry, RulesNoAgent,
     RulesReturn, RulesConfirm DEF Write

(* PrintInvariant holds at first.                                             *)
LEMMA InvariantInit == Init => PrintInvariant
  BY TypeInit, InitRules DEF Init, PrintInvariant, LossesWaitForStaff

(* PrintInvariant is inductive.                                               *)
LEMMA InvariantNext == PrintInvariant /\ [Next]_vars => PrintInvariant'
<1>1. ASSUME PrintInvariant, Next PROVE PrintInvariant'
  <2>1. TypeOK /\ LossesWaitForStaff /\ TypeOK'
    BY <1>1, TypeNext DEF PrintInvariant
  <2>2. CASE \E a \in Agents : AgentStep(a)
    BY <1>1, <2>1, <2>2, LossesAgent, RulesAgent DEF PrintInvariant
  <2>3. CASE \E a \in Agents, j \in Jobs : WorkStep(a, j)
    BY <1>1, <2>1, <2>3, LossesWork, RulesWork DEF PrintInvariant
  <2>4. CASE \E j \in Jobs : JobStep(j)
    BY <1>1, <2>1, <2>4, LossesJob, RulesJob DEF PrintInvariant
  <2>5. CASE \E r \in pending : Write(r)
    BY <1>1, <2>1, <2>5, LossesWrite, RulesWrite DEF PrintInvariant
  <2> QED
    BY <1>1, <2>2, <2>3, <2>4, <2>5 DEF Next, Step
<1>2. ASSUME PrintInvariant, UNCHANGED vars PROVE PrintInvariant'
  <2>1. TypeOK' /\ LossesWaitForStaff'
    BY <1>2, TypeNext DEF PrintInvariant, vars, LossesWaitForStaff
  <2> QED
    BY <1>2, <2>1, RulesUntouched DEF PrintInvariant, vars
<1> QED
  BY <1>1, <1>2

(* The payment, the claim and the print permissions of every order agree in    *)
(* every reachable state (printLease.ts, agents/routes.ts, shops/routes.ts).   *)
THEOREM PrintInvariantHolds == Spec => []PrintInvariant
  BY InvariantInit, InvariantNext, PTL DEF Spec

(* No document reaches a printer without a release, a retry or a failure its   *)
(* own computer reported, except where a "no agent" mark hid a failure that    *)
(* waited for staff (agents/routes.ts:25-28).                                  *)
THEOREM BudgetKept == Spec => []PrintBudget
<1>1. ASSUME PrintInvariant PROVE PrintBudget
  <2> SUFFICES ASSUME NEW j \in Jobs PROVE credit[j] + slips[j] >= 0
    BY DEF PrintBudget
  <2>1. /\ credit[j] \in Int /\ slips[j] \in Nat /\ Cardinality(InHand(j)) \in Nat
        /\ credit[j] + slips[j] >= Cardinality(InHand(j)) + (IF Obtainable(j) THEN 1 ELSE 0)
    BY <1>1, HandFinite DEF PrintInvariant, TypeOK, PrintRules, BudgetCovered
  <2> HIDE DEF InHand, Obtainable
  <2> QED
    BY <2>1
<1> QED
  BY <1>1, PrintInvariantHolds, PTL

(* An order whose payment was returned was never confirmed as printed, and the *)
(* reverse (counter-payment-returned, confirmSuccessfulPrint).                 *)
THEOREM OneOutcomeHolds == Spec => []OneOutcome
<1>1. ASSUME PrintInvariant PROVE OneOutcome
  BY <1>1 DEF PrintInvariant, PrintRules, PaymentFollowsStatus, OneOutcome, Confirmed
<1> QED
  BY <1>1, PrintInvariantHolds, PTL

-----------------------------------------------------------------------------
(* Every step moves at most one order along the table of the state machine.    *)

Moves ==
  {<<"queued", "otp_verified">>, <<"otp_verified", "printing">>,
   <<"printing", "otp_verified">>, <<"printing", "finishing">>,
   <<"printing", "ready_for_pickup">>, <<"finishing", "ready_for_pickup">>,
   <<"ready_for_pickup", "completed">>, <<"otp_verified", "cancelled">>}

Stays(j) == job'[j].status = job[j].status

OneMoves ==
  \/ \A i \in Jobs : Stays(i)
  \/ \E j \in Jobs :
       /\ <<job[j].status, job'[j].status>> \in Moves
       /\ \A i \in Jobs : i # j => Stays(i)

(* A guarded transition along one of the Moves moves one order along it.      *)
LEMMA ApplyMoves ==
  ASSUME TypeOK, TypeOK', NEW j \in Jobs, NEW from, NEW to, NEW row,
         ApplyTransition(j, from, to, row), <<from, to>> \in Moves
  PROVE  OneMoves
<1>1. job[j].status = from /\ job' = [job EXCEPT ![j] = [row EXCEPT !.status = to, !.age = 0]]
  BY DEF ApplyTransition
<1> DEFINE new == [row EXCEPT !.status = to, !.age = 0]
<1>2. new \in JobRows /\ job'[j] = new
  BY <1>1 DEF TypeOK
<1>3. new.status = to
  BY <1>2 DEF JobRows
<1> HIDE DEF new
<1>4. \A i \in Jobs : i # j => Stays(i)
  BY <1>1 DEF TypeOK, Stays
<1> QED
  BY <1>1, <1>2, <1>3, <1>4 DEF OneMoves

(* A computer's work moves at most one order, along one of the Moves.         *)
LEMMA MovesWork ==
  ASSUME TypeOK, NEW a \in Agents, NEW j \in Jobs, WorkStep(a, j)
  PROVE  OneMoves
<1>1. CASE ClaimStart(a, j)
  BY <1>1 DEF ClaimStart, OneMoves, Stays, TypeOK, JobRows
<1>2. CASE ~ClaimStart(a, j)
  <2>1. job' = job
    BY <1>2 DEF WorkStep, Download, SendToPrinter, ReportComplete, AlreadyConfirmed,
                AgentError, ReportFailure
  <2> QED
    BY <2>1 DEF OneMoves, Stays
<1> QED
  BY <1>1, <1>2

(* Timers and staff move at most one order, along one of the Moves.           *)
LEMMA MovesJob ==
  ASSUME TypeOK, TypeOK', NEW j \in Jobs, JobStep(j)
  PROVE  OneMoves
<1>1. CASE Release(j)
  BY <1>1, ApplyMoves DEF Release, Moves
<1>2. CASE FinishingComplete(j) \/ Handover(j)
  BY <1>2, ApplyMoves DEF FinishingComplete, Handover, Moves
<1>3. CASE JobAges(j) \/ SpoolAges(j)
  <2>1. job'[j].status = job[j].status /\ \A i \in Jobs : i # j => job'[i] = job[i]
    BY <1>3 DEF JobAges, SpoolAges, TypeOK, JobRows
  <2> QED
    BY <2>1 DEF OneMoves, Stays
<1>4. CASE StaffRetry(j) \/ StaffReturn(j) \/ StaffConfirm(j) \/ Sweep(j)
  BY <1>4 DEF StaffRetry, StaffReturn, StaffRequest, StaffConfirm, Sweep, OneMoves, Stays
<1> QED
  BY <1>1, <1>2, <1>3, <1>4 DEF JobStep

(* A handler's write moves at most one order, along one of the Moves.         *)
LEMMA MovesWrite ==
  ASSUME TypeOK, TypeOK', NEW r \in pending, Write(r)
  PROVE  OneMoves
<1>1. r.op # "beat" => r.job \in Jobs /\ job[r.job] \in JobRows
  BY WriteType
<1>2. CASE ClaimCommit(r)
  BY <1>1, <1>2, ApplyMoves DEF ClaimCommit, Moves
<1>3. CASE FailWrite(r)
  BY <1>1, <1>3, ApplyMoves DEF FailWrite, Moves
<1>4. CASE LoseWrite(r)
  BY <1>1, <1>4, ApplyMoves DEF LoseWrite, Moves
<1>5. CASE ReturnWrite(r)
  BY <1>1, <1>5, ApplyMoves DEF ReturnWrite, Moves
<1>6. CASE ConfirmWrite(r)
  BY <1>1, <1>6, ApplyMoves DEF ConfirmWrite, Moves
<1>7. CASE SpoolWrite(r) \/ RetryWrite(r) \/ NoAgentWrite(r)
  <2>1. r.job \in Jobs /\ job[r.job] \in JobRows
    BY <1>1, <1>7 DEF SpoolWrite, RetryWrite, NoAgentWrite
  <2>2. \A i \in Jobs : i # r.job => job'[i] = job[i]
    BY <1>7, <2>1 DEF SpoolWrite, RetryWrite, NoAgentWrite, TypeOK
  <2>3. job'[r.job].status = job[r.job].status
    <3>1. CASE SpoolWrite(r)
      <4>1. [job[r.job] EXCEPT !.spool = job[r.job].attempts, !.spoolOld = FALSE,
                               !.error = "none", !.age = 0].status = job[r.job].status
        BY <2>1 DEF JobRows
      <4>2. job'[r.job] \in {job[r.job],
               [job[r.job] EXCEPT !.spool = job[r.job].attempts, !.spoolOld = FALSE,
                                  !.error = "none", !.age = 0]}
        BY <2>1, <3>1 DEF SpoolWrite, TypeOK
      <4> QED
        BY <4>1, <4>2
    <3>2. CASE NoAgentWrite(r)
      BY <2>1, <3>2 DEF NoAgentWrite, TypeOK, JobRows
    <3>3. CASE RetryWrite(r)
      <4>1. PICK p \in Printers :
              job' = [job EXCEPT ![r.job] =
                       [Unclaimed(job[r.job]) EXCEPT !.printer = p, !.error = "none", !.age = 0]]
        BY <2>1, <3>3 DEF RetryWrite, TypeOK
      <4>2. Unclaimed(job[r.job]) \in JobRows /\ Unclaimed(job[r.job]).status = job[r.job].status
        BY <2>1, UnclaimedType, UnclaimedEffect
      <4> QED
        BY <2>1, <4>1, <4>2 DEF TypeOK, JobRows
    <3> QED
      BY <1>7, <3>1, <3>2, <3>3
  <2> QED
    BY <2>2, <2>3 DEF OneMoves, Stays
<1>8. CASE Dispatch(r) \/ BeatArrives(r) \/ Drop(r)
  BY <1>8 DEF Dispatch, BeatArrives, Drop, OneMoves, Stays
<1> QED
  BY <1>2, <1>3, <1>4, <1>5, <1>6, <1>7, <1>8 DEF Write

(* Every step moves at most one order, along one of the Moves.                *)
LEMMA EveryStepMoves == ASSUME TypeOK, [Next]_vars PROVE OneMoves
<1>1. TypeOK'
  BY TypeNext
<1>2. CASE \E a \in Agents : AgentStep(a)
  <2>1. job' = job
    BY <1>2 DEF AgentStep, Connect, ReportPrinters, SendBeat, Quieten, GoesOffline, Restart,
                DeleteAgent
  <2> QED
    BY <2>1 DEF OneMoves, Stays
<1>3. CASE \E a \in Agents, j \in Jobs : WorkStep(a, j)
  BY <1>3, MovesWork
<1>4. CASE \E j \in Jobs : JobStep(j)
  BY <1>1, <1>4, MovesJob
<1>5. CASE \E r \in pending : Write(r)
  BY <1>1, <1>5, MovesWrite
<1>6. CASE UNCHANGED vars
  BY <1>6 DEF vars, OneMoves, Stays
<1> QED
  BY <1>2, <1>3, <1>4, <1>5, <1>6 DEF Next, Step

(* A confirmed or cancelled order is never printed, confirmed or paid for      *)
(* again (packages/shared/src/stateMachine.ts; printCompletion.ts).            *)
THEOREM SettledForGoodHolds == Spec => SettledForGood
<1>1. ASSUME PrintInvariant, PrintInvariant', [Next]_vars
      PROVE  [\A j \in Jobs :
               /\ Confirmed(j) => Confirmed(j)' /\ job'[j].payment = "paid"
               /\ job[j].status = "completed" => job'[j].status = "completed"
               /\ job[j].status = "cancelled" => job'[j].status = "cancelled"]_vars
  <2> SUFFICES ASSUME NEW j \in Jobs
               PROVE  /\ Confirmed(j) => Confirmed(j)' /\ job'[j].payment = "paid"
                      /\ job[j].status = "completed" => job'[j].status = "completed"
                      /\ job[j].status = "cancelled" => job'[j].status = "cancelled"
    OBVIOUS
  <2>1. Stays(j) \/ <<job[j].status, job'[j].status>> \in Moves
    BY <1>1, EveryStepMoves DEF OneMoves, PrintInvariant
  <2>2. PaymentFollowsStatus(j)'
    BY <1>1 DEF PrintInvariant, PrintRules
  <2> QED
    BY <2>1, <2>2 DEF Stays, Moves, Confirmed, PaymentFollowsStatus
<1> QED
  BY <1>1, PrintInvariantHolds, PTL DEF SettledForGood, Spec

(* Each move is the work of an event of the table.                             *)
LEMMA MovesAreEvents == \A m \in Moves : Lifecycle!Leads(m[1], m[2])
<1>1. <<"queued", "COUNTER_RELEASE", "otp_verified">> \in Lifecycle!Transitions
  BY DEF Lifecycle!Transitions, Lifecycle!LiveStatuses
<1>2. <<"otp_verified", "COUNTER_PAYMENT_RETURNED", "cancelled">> \in Lifecycle!Transitions
  BY DEF Lifecycle!Transitions
<1>3. {<<"otp_verified", "PRINT_STARTED", "printing">>,
       <<"printing", "PRINT_FAILED", "otp_verified">>,
       <<"printing", "FINISHING_REQUIRED", "finishing">>,
       <<"printing", "PRINT_COMPLETED", "ready_for_pickup">>,
       <<"finishing", "FINISHING_COMPLETED", "ready_for_pickup">>,
       <<"ready_for_pickup", "HANDED_OVER", "completed">>} \subseteq Lifecycle!Transitions
  BY DEF Lifecycle!Transitions
<1>4. \A from, event, to :
        <<from, event, to>> \in Lifecycle!Transitions => Lifecycle!Leads(from, to)
  BY DEF Lifecycle!Leads
<1>5. /\ Lifecycle!Leads("queued", "otp_verified")
      /\ Lifecycle!Leads("otp_verified", "cancelled")
      /\ Lifecycle!Leads("otp_verified", "printing")
      /\ Lifecycle!Leads("printing", "otp_verified")
      /\ Lifecycle!Leads("printing", "finishing")
      /\ Lifecycle!Leads("printing", "ready_for_pickup")
      /\ Lifecycle!Leads("finishing", "ready_for_pickup")
      /\ Lifecycle!Leads("ready_for_pickup", "completed")
  BY <1>1, <1>2, <1>3, <1>4
<1> QED
  BY <1>5 DEF Moves

(* No handler writes a status that the table of packages/shared does not lead  *)
(* to: PrintDispatch implements JobStateMachine (transitions.ts 145-200).      *)
THEOREM ImplementsStateMachine == Spec => FollowsStateMachine
<1> DEFINE s == [j \in Jobs |-> job[j].status]
<1>1. Init => Lifecycle!Init
  BY DEF Init, Lifecycle!Init, Lifecycle!LiveStatuses
<1>2. ASSUME TypeOK, TypeOK', [Next]_vars PROVE [Lifecycle!Next]_s
  <2>1. OneMoves
    BY <1>2, EveryStepMoves
  <2>2. CASE \A i \in Jobs : Stays(i)
    BY <2>2 DEF Stays
  <2>3. ASSUME NEW j \in Jobs, <<job[j].status, job'[j].status>> \in Moves,
               \A i \in Jobs : i # j => Stays(i)
        PROVE  Lifecycle!Advance(j)
    <3>1. Lifecycle!Leads(job[j].status, job'[j].status)
      BY <2>3, MovesAreEvents DEF Moves
    <3>2. job'[j].status \in Lifecycle!Statuses
      BY <2>3 DEF Lifecycle!Statuses, Lifecycle!LiveStatuses, Moves
    <3>3. s' = [s EXCEPT ![j] = job'[j].status]
      BY <2>3 DEF Stays
    <3> QED
      BY <3>1, <3>2, <3>3 DEF Lifecycle!Advance
  <2> QED
    BY <2>1, <2>2, <2>3 DEF OneMoves, Lifecycle!Next
<1> QED
  BY <1>1, <1>2, TypeCorrect, PTL DEF FollowsStateMachine, Lifecycle!Spec, Spec
-----------------------------------------------------------------------------
(* What a step does to the claim of one order. *)

Commits(j) ==
  /\ job[j].status = "otp_verified" /\ job'[j].status = "printing"
  /\ job'[j].attempts = job[j].attempts + 1 /\ job'[j].age = 0

(* The attempt goes on, or ends. *)
GoesOn(j) ==
  /\ job'[j].attempts = job[j].attempts
  /\ job'[j].status = "printing" =>
       /\ job[j].status = "printing"
       /\ job'[j].claimant \in {job[j].claimant, None}
       /\ job'[j].age \in {0, job[j].age} \/ \A r \in pending' : r.op # "beat"

(* A guarded update writes its row's attempts and makes the order young. *)
LEMMA ApplyColumns ==
  ASSUME TypeOK, NEW j \in Jobs, NEW from, NEW to, NEW row \in JobRows,
         ApplyTransition(j, from, to, row), to \in Statuses
  PROVE  job'[j].attempts = row.attempts /\ job'[j].age = 0
<1> DEFINE new == [row EXCEPT !.status = to, !.age = 0]
<1>1. job'[j] = new
  BY DEF ApplyTransition, TypeOK
<1>2. new.attempts = row.attempts /\ new.age = 0
  BY DEF JobRows
<1> HIDE DEF new
<1> QED
  BY <1>1, <1>2

(* A transition out of printing ends the attempt.                              *)
LEMMA ApplyEnds ==
  ASSUME TypeOK, NEW j \in Jobs, NEW from, NEW to \in Statuses \ {"printing"},
         NEW row \in JobRows, row.attempts = job[j].attempts, ApplyTransition(j, from, to, row)
  PROVE  \A i \in Jobs : GoesOn(i)
<1>1. job'[j].attempts = job[j].attempts /\ job'[j].status # "printing"
  BY ApplyColumns, ApplyEffect
<1>2. \A i \in Jobs : i # j => job'[i] = job[i]
  BY ApplyEffect
<1> QED
  BY <1>1, <1>2 DEF GoesOn

(* Printing and answering at a computer let every claim go on. *)
LEMMA ClaimWork ==
  ASSUME TypeOK, NEW a \in Agents, NEW j \in Jobs, WorkStep(a, j)
  PROVE  \A i \in Jobs : GoesOn(i)
<1>1. CASE ClaimStart(a, j)
  <2>1. /\ job'[j].status = job[j].status /\ job'[j].attempts = job[j].attempts
        /\ job[j].status = "otp_verified"
        /\ \A i \in Jobs : i # j => job'[i] = job[i]
    BY <1>1 DEF ClaimStart, TypeOK, JobRows
  <2> QED
    BY <2>1 DEF GoesOn
<1>2. CASE ~ClaimStart(a, j)
  <2>1. job' = job
    BY <1>2 DEF WorkStep, Download, SendToPrinter, ReportComplete, AlreadyConfirmed,
                AgentError, ReportFailure
  <2> QED
    BY <2>1 DEF GoesOn
<1> QED
  BY <1>1, <1>2

(* Time and staff's reads let every claim go on. *)
LEMMA ClaimJob ==
  ASSUME TypeOK, NEW j \in Jobs, JobStep(j)
  PROVE  \A i \in Jobs : GoesOn(i)
<1>1. job[j] \in JobRows
  BY DEF TypeOK
<1>2. CASE Release(j)
  <2>1. PICK p \in Printers :
          /\ ApplyTransition(j, "queued", "otp_verified",
               [Unclaimed(job[j]) EXCEPT !.printer = p, !.error = "none", !.payment = "paid"])
          /\ UNCHANGED <<agent, process, work, pending, credit, slips>>
    BY <1>2, Zenon DEF Release
  <2> DEFINE row == [Unclaimed(job[j]) EXCEPT !.printer = p, !.error = "none", !.payment = "paid"]
  <2>2. Unclaimed(job[j]) \in JobRows /\ Unclaimed(job[j]).attempts = job[j].attempts
    BY <1>1, UnclaimedType, UnclaimedEffect
  <2>3. row \in JobRows
    BY <2>2, RowWrite, Values, Zenon
  <2>5. row.attempts = job[j].attempts
    BY <2>2 DEF JobRows
  <2> HIDE DEF row
  <2>4. ApplyTransition(j, "queued", "otp_verified", row)
    BY <2>1 DEF row
  <2> QED
    BY <2>3, <2>4, <2>5, ApplyEnds DEF Statuses
<1>3. CASE FinishingComplete(j) \/ Handover(j)
  BY <1>1, <1>3, ApplyEnds DEF FinishingComplete, Handover, Statuses
<1>4. CASE JobAges(j)
  <2>1. /\ job'[j].attempts = job[j].attempts /\ job'[j].claimant = job[j].claimant
        /\ job'[j].status = job[j].status
        /\ \A i \in Jobs : i # j => job'[i] = job[i]
        /\ \A r \in pending' : r.op # "beat"
    BY <1>1, <1>4 DEF JobAges, TypeOK, JobRows
  <2> QED
    BY <2>1 DEF GoesOn
<1>5. CASE SpoolAges(j)
  <2>1. /\ job'[j].attempts = job[j].attempts /\ job'[j].claimant = job[j].claimant
        /\ job'[j].status = job[j].status /\ job'[j].age = job[j].age
        /\ \A i \in Jobs : i # j => job'[i] = job[i]
    BY <1>1, <1>5 DEF SpoolAges, TypeOK, JobRows
  <2> QED
    BY <2>1 DEF GoesOn
<1>6. CASE StaffRetry(j) \/ StaffReturn(j) \/ StaffConfirm(j) \/ Sweep(j)
  <2>1. job' = job
    BY <1>6 DEF StaffRetry, StaffReturn, StaffRequest, StaffConfirm, Sweep
  <2> QED
    BY <2>1 DEF GoesOn
<1> QED
  BY <1>2, <1>3, <1>4, <1>5, <1>6 DEF JobStep

(* The row staff's retry leaves.                                              *)
LEMMA RetryRow ==
  ASSUME NEW r, RetryWrite(r)
  PROVE  \E p \in Printers :
           job' = [job EXCEPT ![r.job] =
                    [Unclaimed(job[r.job]) EXCEPT !.printer = p, !.error = "none", !.age = 0]]
  BY Zenon DEF RetryWrite

(* The other writes to an order leave its status and its attempts.             *)
LEMMA QuietWrites ==
  ASSUME TypeOK, NEW r \in pending, SpoolWrite(r) \/ NoAgentWrite(r) \/ RetryWrite(r)
  PROVE  /\ r.job \in Jobs /\ \A i \in Jobs : i # r.job => job'[i] = job[i]
         /\ job'[r.job].status = job[r.job].status
         /\ job'[r.job].attempts = job[r.job].attempts
         /\ job'[r.job].claimant \in {job[r.job].claimant, None}
         /\ job'[r.job].age \in {0, job[r.job].age}
<1> DEFINE j == r.job
<1>1. j \in Jobs /\ job[j] \in JobRows
  <2>1. r.op \in {"spool", "noagent", "retry"}
    <3>1. SpoolWrite(r) => r.op = "spool"
      BY Zenon DEF SpoolWrite
    <3>2. NoAgentWrite(r) => r.op = "noagent"
      BY Zenon DEF NoAgentWrite
    <3>3. RetryWrite(r) => r.op = "retry"
      BY Zenon DEF RetryWrite
    <3> QED
      BY <3>1, <3>2, <3>3
  <2> QED
    BY <2>1, WriteType
<1> DEFINE free == Unclaimed(job[j])
           retried(p) == [free EXCEPT !.printer = p, !.error = "none", !.age = 0]
<1>4. RetryWrite(r) => \E p \in Printers : job' = [job EXCEPT ![j] = retried(p)]
  BY RetryRow, Zenon
<1> HIDE DEF retried
<1>2. \A i \in Jobs : i # j => job'[i] = job[i]
  <2>1. CASE RetryWrite(r)
    BY <1>1, <1>4, <2>1 DEF TypeOK
  <2>2. CASE SpoolWrite(r)
    BY <1>1, <2>2 DEF SpoolWrite, TypeOK
  <2>3. CASE NoAgentWrite(r)
    BY <1>1, <2>3 DEF NoAgentWrite, TypeOK
  <2> QED
    BY <2>1, <2>2, <2>3
<1>3. /\ job'[j].status = job[j].status /\ job'[j].attempts = job[j].attempts
      /\ job'[j].claimant \in {job[j].claimant, None}
      /\ job'[j].age \in {0, job[j].age}
  <2>1. CASE SpoolWrite(r)
    <3> DEFINE new == [job[j] EXCEPT !.spool = job[j].attempts, !.spoolOld = FALSE,
                                     !.error = "none", !.age = 0]
    <3>1. job'[j] \in {job[j], new}
      BY <1>1, <2>1 DEF SpoolWrite, TypeOK
    <3>2. /\ new.status = job[j].status /\ new.attempts = job[j].attempts
          /\ new.claimant = job[j].claimant /\ new.age = 0
      BY <1>1 DEF JobRows
    <3> HIDE DEF new
    <3> QED
      BY <3>1, <3>2
  <2>2. CASE NoAgentWrite(r)
    BY <1>1, <2>2 DEF NoAgentWrite, TypeOK, JobRows
  <2>3. CASE RetryWrite(r)
    <3>1. PICK p \in Printers : job' = [job EXCEPT ![j] = retried(p)]
      BY <1>4, <2>3
    <3>2. /\ free \in JobRows /\ free.status = job[j].status /\ free.claimant = None
          /\ free.attempts = job[j].attempts
      BY <1>1, UnclaimedType, UnclaimedEffect
    <3> HIDE DEF free
    <3>3. /\ retried(p).status = free.status /\ retried(p).claimant = free.claimant
          /\ retried(p).attempts = free.attempts /\ retried(p).age = 0
      BY <3>2 DEF retried, JobRows
    <3>4. job'[j] = retried(p)
      BY <1>1, <3>1 DEF TypeOK
    <3> QED
      BY <3>2, <3>3, <3>4
  <2> QED
    BY <2>1, <2>2, <2>3
<1> QED
  BY <1>1, <1>2, <1>3

(* A handler's write lets every claim go on, or is the claim itself. *)
LEMMA ClaimWrite ==
  ASSUME TypeOK, NEW r \in pending, Write(r)
  PROVE  \A i \in Jobs : GoesOn(i) \/ Commits(i)
<1> DEFINE j == r.job
<1>1. r.op # "beat" => j \in Jobs /\ job[j] \in JobRows /\ r.reason \in Errors
  BY WriteType
<1>2. CASE ClaimCommit(r)
  <2> DEFINE row == [job[j] EXCEPT !.error = "none", !.attempts = job[j].attempts + 1]
  <2>1. j \in Jobs /\ job[j] \in JobRows /\ job[j].attempts < MaxAttempts
    BY <1>1, <1>2 DEF ClaimCommit
  <2>2. row \in JobRows /\ row.attempts = job[j].attempts + 1
    <3>1. job[j].attempts + 1 \in 0 .. MaxAttempts
      BY <2>1 DEF JobRows
    <3>2. row \in JobRows
      BY <2>1, <3>1, RowWrite, Values, Zenon
    <3>3. row.attempts = job[j].attempts + 1
      BY <2>1 DEF JobRows
    <3> QED
      BY <3>2, <3>3
  <2>3. ApplyTransition(j, "otp_verified", "printing", row)
    BY <1>2 DEF ClaimCommit
  <2> HIDE DEF row
  <2>4. Commits(j)
    <3>1. job'[j].attempts = row.attempts /\ job'[j].age = 0
      BY <2>1, <2>2, <2>3, ApplyColumns DEF Statuses
    <3>2. job[j].status = "otp_verified" /\ job'[j].status = "printing"
      BY <2>1, <2>2, <2>3, ApplyEffect DEF Statuses
    <3> QED
      BY <2>2, <3>1, <3>2 DEF Commits
  <2>5. \A i \in Jobs : i # j => job'[i] = job[i]
    BY <2>1, <2>2, <2>3, ApplyEffect DEF Statuses
  <2> QED
    BY <2>4, <2>5 DEF GoesOn
<1>3. CASE FailWrite(r) \/ LoseWrite(r)
  <2>1. PICK why \in Errors :
          ApplyTransition(j, "printing", "otp_verified",
            [Unclaimed(job[j]) EXCEPT !.error = why])
    BY <1>1, <1>3 DEF FailWrite, LoseWrite, Errors
  <2> DEFINE row == [Unclaimed(job[j]) EXCEPT !.error = why]
  <2>2. j \in Jobs /\ Unclaimed(job[j]) \in JobRows /\ Unclaimed(job[j]).attempts = job[j].attempts
    <3>1. r.op # "beat"
      BY <1>3 DEF FailWrite, LoseWrite
    <3> QED
      BY <1>1, <3>1, UnclaimedType, UnclaimedEffect
  <2>3. row \in JobRows /\ row.attempts = job[j].attempts
    BY <2>2 DEF JobRows
  <2> HIDE DEF row
  <2>4. ApplyTransition(j, "printing", "otp_verified", row)
    BY <2>1 DEF row
  <2> QED
    BY <2>2, <2>3, <2>4, ApplyEnds DEF Statuses
<1>4. CASE ReturnWrite(r)
  <2> DEFINE row == [Unclaimed(job[j]) EXCEPT !.payment = "refunded", !.error = "none"]
  <2>1. j \in Jobs /\ Unclaimed(job[j]) \in JobRows /\ Unclaimed(job[j]).attempts = job[j].attempts
    <3>1. r.op # "beat"
      BY <1>4 DEF ReturnWrite
    <3> QED
      BY <1>1, <3>1, UnclaimedType, UnclaimedEffect
  <2>2. row \in JobRows /\ row.attempts = job[j].attempts
    BY <2>1 DEF JobRows, Errors
  <2>3. ApplyTransition(j, "otp_verified", "cancelled", row)
    BY <1>4 DEF ReturnWrite
  <2> HIDE DEF row
  <2> QED
    BY <2>1, <2>2, <2>3, ApplyEnds DEF Statuses
<1>5. CASE ConfirmWrite(r)
  <2> DEFINE mark == IF job[j].spool = 0 THEN job[j].attempts ELSE job[j].spool
             row == [job[j] EXCEPT !.error = "none", !.spool = mark]
  <2>1. j \in Jobs /\ job[j] \in JobRows
    BY <1>1, <1>5 DEF ConfirmWrite
  <2>2. row \in JobRows /\ row.attempts = job[j].attempts
    BY <2>1 DEF JobRows, Errors
  <2>3. \E to \in {"finishing", "ready_for_pickup"} : ApplyTransition(j, "printing", to, row)
    BY <1>5 DEF ConfirmWrite
  <2> HIDE DEF row
  <2> QED
    BY <2>1, <2>2, <2>3, ApplyEnds DEF Statuses
<1>6. CASE SpoolWrite(r) \/ NoAgentWrite(r) \/ RetryWrite(r)
  BY <1>6, QuietWrites DEF GoesOn
<1>7. CASE Dispatch(r) \/ BeatArrives(r) \/ Drop(r)
  <2>1. job' = job
    BY <1>7 DEF Dispatch, BeatArrives, Drop
  <2> QED
    BY <2>1 DEF GoesOn
<1> QED
  BY <1>2, <1>3, <1>4, <1>5, <1>6, <1>7 DEF Write

(* The attempt of an order begins by a commit, and goes on or ends otherwise.  *)
LEMMA ClaimSteps ==
  ASSUME TypeOK, [Next]_vars
  PROVE  \A i \in Jobs : GoesOn(i) \/ Commits(i)
<1>1. CASE \E a \in Agents : AgentStep(a)
  <2>1. job' = job
    BY <1>1 DEF AgentStep, Connect, ReportPrinters, SendBeat, Quieten, GoesOffline, Restart,
                DeleteAgent
  <2> QED
    BY <2>1 DEF GoesOn
<1>2. CASE UNCHANGED vars
  BY <1>2 DEF vars, GoesOn
<1> QED
  BY <1>1, <1>2, ClaimWork, ClaimJob, ClaimWrite DEF Next, Step
-----------------------------------------------------------------------------
(* Who decides to take an order from its computer. *)

Loses(r, j) == r.op \in {"lose", "sweep"} /\ r.job = j

(* Most writes end their handler and start none.                              *)
LEMMA WritesFinish ==
  ASSUME NEW r
  PROVE  /\ ClaimCommit(r) => Finish(r)
         /\ SpoolWrite(r) => Finish(r)
         /\ FailWrite(r) => Finish(r)
         /\ NoAgentWrite(r) => Finish(r)
         /\ ReturnWrite(r) => Finish(r)
         /\ ConfirmWrite(r) => Finish(r)
         /\ Drop(r) => Finish(r)
  BY Zenon DEF ClaimCommit, SpoolWrite, FailWrite, NoAgentWrite, ReturnWrite, ConfirmWrite, Drop

(* What an attended order looks like to those who look for lost prints.        *)
LEMMA AttendedIsNotLost ==
  ASSUME TypeOK, NEW j \in Jobs, Attended(j)
  PROVE  LostReason(j, LeaseExpired(j)) = "none" /\ ~Orphaned(j)
<1> DEFINE a == job[j].claimant
<1>1. /\ a # None /\ job[j].age # 2 /\ ~(job[j].spool # 0 /\ job[j].spoolOld)
      /\ agent[a].present /\ agent[a].online /\ agent[a].quiet = 0
      /\ agent[a].session = job[j].session
  BY DEF Attended, TypeOK, JobRows
<1>2. ~OtherProcessRuns(j) /\ ~LeaseExpired(j) /\ ~GoneForStaff(a)
  BY <1>1 DEF OtherProcessRuns, LeaseExpired, GoneForStaff
<1>3. \A gone \in BOOLEAN : ~gone => LostReason(j, gone) = "none"
  BY <1>1, <1>2 DEF LostReason
<1> QED
  BY <1>1, <1>2, <1>3 DEF Orphaned, LostReason

(* A session id that is not the claiming process's marks the order as lost;    *)
(* its own marks only orders its heartbeat denies after the grace time.        *)
LEMMA Reconciled ==
  ASSUME TypeOK, NEW a, NEW sid, NEW missing, NEW r \in Reconcile(a, sid, missing),
         NEW j \in Jobs, Loses(r, j)
  PROVE  /\ sid # 0 /\ job[j].status = "printing" /\ job[j].claimant = a
         /\ \/ job[j].session # sid
            \/ j \in missing /\ job[j].age # 0
<1>1. sid # 0 /\ \E i \in LostJobs(a, sid, missing) : r = LoseRequest("lose", i, "agent_restarted", "none")
  BY DEF Reconcile
<1>2. j \in LostJobs(a, sid, missing)
  BY <1>1 DEF LoseRequest, Request, Loses
<1> QED
  BY <1>1, <1>2 DEF LostJobs

(* Only an order that prints is ever decided on ...                           *)
LEMMA LossesStart ==
  ASSUME TypeOK, [Next]_vars, NEW r \in pending', r \notin pending, NEW j \in Jobs, Loses(r, j)
  PROVE  /\ job' = job /\ job[j].status = "printing"
         /\ \/ \E a \in Agents : Connect(a) /\ r \in Reconcile(a, Sid(a, process[a]), {})
            \/ \E a \in Agents : ReportPrinters(a) /\ r \in Reconcile(a, process[a], {})
            \/ \E b \in pending :
                 BeatArrives(b) /\ r \in Reconcile(b.by, Sid(b.by, b.process), Jobs \ b.flight)
            \/ LostReason(j, LeaseExpired(j)) # "none"
            \/ Orphaned(j)
<1>1. ASSUME NEW a \in Agents, AgentStep(a)
      PROVE  /\ job' = job
             /\ \/ Connect(a) /\ r \in Reconcile(a, Sid(a, process[a]), {})
                \/ ReportPrinters(a) /\ r \in Reconcile(a, process[a], {})
  <2>1. ~SendBeat(a)
    BY DEF SendBeat, Loses
  <2>2. Connect(a) \/ ReportPrinters(a)
    BY <1>1, <2>1 DEF AgentStep, Quieten, GoesOffline, Restart, DeleteAgent
  <2>3. CASE Connect(a)
    BY <2>3 DEF Connect
  <2>4. CASE ReportPrinters(a)
    BY <2>4 DEF ReportPrinters
  <2> QED
    BY <2>2, <2>3, <2>4
<1>2. ASSUME NEW a \in Agents, NEW i \in Jobs, WorkStep(a, i) PROVE FALSE
  <2>1. \A op : AgentRequest(op, i, a).op = op
    BY DEF AgentRequest, Request
  <2>2. CASE pending' = pending
    BY <2>2
  <2>3. ASSUME NEW op \in {"start", "spool", "simulate", "fail"}, Submit(AgentRequest(op, i, a))
        PROVE  FALSE
    BY <2>1, <2>3 DEF Submit, Loses
  <2>4. CASE ClaimStart(a, i)
    BY <2>3, <2>4 DEF ClaimStart
  <2>5. CASE ReportComplete(a, i)
    BY <2>3, <2>5 DEF ReportComplete
  <2>6. CASE ReportFailure(a, i)
    BY <2>3, <2>6 DEF ReportFailure
  <2> QED
    BY <1>2, <2>2, <2>4, <2>5, <2>6 DEF WorkStep, Download, SendToPrinter, AlreadyConfirmed, AgentError
<1>3. ASSUME NEW i \in Jobs, JobStep(i)
      PROVE  /\ job' = job /\ job[j].status = "printing"
             /\ LostReason(j, LeaseExpired(j)) # "none" \/ Orphaned(j)
  <2>1. \A op, why, then : LoseRequest(op, i, why, then).job = i
    BY DEF LoseRequest, Request
  <2>2. \A op : Request(op, i).op = op
    BY DEF Request
  <2>3. CASE Sweep(i)
    BY <2>1, <2>3 DEF Sweep, Loses
  <2>4. ASSUME NEW then \in {"retry", "return"}, StaffRequest(i, then)
        PROVE  job' = job /\ job[j].status = "printing" /\ Orphaned(j)
    BY <2>1, <2>2, <2>4 DEF StaffRequest, Submit, Loses
  <2>5. CASE StaffConfirm(i)
    BY <2>2, <2>5 DEF StaffConfirm, Submit, Loses
  <2>6. CASE Release(i)
    <3>1. pending' = pending
      BY <2>6, Zenon DEF Release
    <3> QED
      BY <3>1
  <2>7. CASE FinishingComplete(i) \/ Handover(i) \/ JobAges(i) \/ SpoolAges(i)
    BY <2>7 DEF FinishingComplete, Handover, JobAges, SpoolAges
  <2> QED
    BY <1>3, <2>3, <2>4, <2>5, <2>6, <2>7 DEF JobStep, StaffRetry, StaffReturn
<1>4. ASSUME NEW b \in pending, Write(b)
      PROVE  /\ job' = job /\ BeatArrives(b)
             /\ r \in Reconcile(b.by, Sid(b.by, b.process), Jobs \ b.flight)
  <2>1. \A op, i : Request(op, i).op = op
    BY DEF Request
  <2>2. CASE BeatArrives(b)
    BY <2>2 DEF BeatArrives
  <2>3. CASE LoseWrite(b)
    <3>1. b.next \in {"none", "retry", "return"}
      BY <2>3, WriteType DEF LoseWrite
    <3> QED
      BY <2>1, <2>3, <3>1 DEF LoseWrite, Loses
  <2>4. CASE RetryWrite(b)
    <3>1. pending' = (pending \ {b}) \cup {Request("dispatch", b.job)}
      BY <2>4, Zenon DEF RetryWrite
    <3> QED
      BY <2>1, <3>1 DEF Loses
  <2>5. CASE Dispatch(b)
    BY <2>1, <2>5 DEF Dispatch, Loses
  <2>6. CASE Finish(b)
    BY <2>6 DEF Finish
  <2> QED
    BY <1>4, <2>2, <2>3, <2>4, <2>5, <2>6, WritesFinish DEF Write
<1>5. CASE UNCHANGED vars
  BY <1>5 DEF vars
<1>6. Step \/ UNCHANGED vars
  BY DEF Next
<1>7. CASE \E a \in Agents : AgentStep(a)
  <2>1. PICK a \in Agents : AgentStep(a)
    BY <1>7
  <2>2. job[j].status = "printing"
    BY <1>1, <2>1, Reconciled
  <2> QED
    BY <1>1, <2>1, <2>2
<1>8. CASE \E b \in pending : Write(b)
  <2>1. PICK b \in pending : Write(b)
    BY <1>8
  <2>2. /\ job' = job /\ BeatArrives(b)
        /\ r \in Reconcile(b.by, Sid(b.by, b.process), Jobs \ b.flight)
    BY <1>4, <2>1
  <2>3. job[j].status = "printing"
    BY <2>2, Reconciled
  <2> QED
    BY <2>2, <2>3
<1> QED
  BY <1>2, <1>3, <1>5, <1>6, <1>7, <1>8 DEF Step

(* ... and not while its computer is well and no heartbeat denies it in time.  *)
LEMMA SteadyIsNotLost ==
  ASSUME TypeOK, [Next]_vars, NEW r \in pending', r \notin pending, NEW j \in Jobs, Loses(r, j),
         Attended(j), DeniedInTime(j)
  PROVE  ~Attended(j)'
<1> DEFINE c == job[j].claimant
<1>1. /\ c \in Agents /\ c # None
      /\ job[j].session = Sid(c, process[c]) /\ agent[c].session = job[j].session
  BY DEF Attended, TypeOK, JobRows
<1>2. job' = job
  BY LossesStart
<1>3. ASSUME NEW a \in Agents, Connect(a), r \in Reconcile(a, Sid(a, process[a]), {}) PROVE FALSE
  BY <1>1, <1>3, Reconciled
<1>4. ASSUME NEW a \in Agents, ReportPrinters(a), r \in Reconcile(a, process[a], {}) PROVE FALSE
  <2>1. Sid(a, process[a]) = process[a]
    BY <1>4 DEF ReportPrinters, Sid
  <2> QED
    BY <1>1, <1>4, <2>1, Reconciled
<1>5. ASSUME NEW b \in pending, BeatArrives(b),
             r \in Reconcile(b.by, Sid(b.by, b.process), Jobs \ b.flight)
      PROVE  ~Attended(j)'
  <2> DEFINE sid == Sid(b.by, b.process)
  <2>1. /\ sid # 0 /\ c = b.by
        /\ job[j].session # sid \/ (j \notin b.flight /\ job[j].age # 0)
    BY <1>5, Reconciled
  <2>2. sid = b.process /\ b.by \notin LegacyAgents
    BY <2>1 DEF Sid
  <2>3. CASE job[j].session # sid
    <3>1. agent' = [agent EXCEPT ![c] =
                     [agent[c] EXCEPT !.online = TRUE, !.quiet = 0, !.session = sid]]
      BY <1>5, <2>1 DEF BeatArrives, HeardFrom
    <3>2. agent'[c].session = sid
      BY <1>1, <3>1 DEF TypeOK, AgentRows
    <3> QED
      BY <1>2, <2>3, <3>2 DEF Attended
  <2>4. CASE job[j].session = sid
    <3>1. process[c] = b.process
      BY <1>1, <2>1, <2>2, <2>4 DEF Sid
    <3> QED
      BY <1>5, <2>1, <2>4, <3>1 DEF BeatArrives, DeniedInTime
  <2> QED
    BY <2>3, <2>4
<1> QED
  BY <1>3, <1>4, <1>5, LossesStart, AttendedIsNotLost

-----------------------------------------------------------------------------
(* ClaimIsSafe is inductive. *)

(* A heartbeat leaves a computer with the orders it works on.                  *)
LEMMA BeatsStart ==
  ASSUME TypeOK, [Next]_vars, NEW r \in pending', r \notin pending, r.op = "beat"
  PROVE  job' = job /\ \A j \in Jobs : work[r.by][j] # "none" => j \in r.flight
<1>1. ASSUME NEW a \in Agents, SendBeat(a)
      PROVE  job' = job /\ \A j \in Jobs : work[r.by][j] # "none" => j \in r.flight
  BY <1>1 DEF SendBeat
<1>2. \A op, j : Request(op, j).op = op
  BY DEF Request
<1>3. \A op, j, a : AgentRequest(op, j, a).op = op
  BY DEF AgentRequest, Request
<1>4. \A op, j, why, then : LoseRequest(op, j, why, then).op = op
  BY DEF LoseRequest, Request
<1>5. \A a, sid, missing : r \notin Reconcile(a, sid, missing)
  BY <1>4 DEF Reconcile
<1>6. ASSUME NEW a \in Agents, AgentStep(a) PROVE SendBeat(a)
  BY <1>5, <1>6
     DEF AgentStep, Connect, ReportPrinters, Quieten, GoesOffline, Restart, DeleteAgent
<1>7. ASSUME NEW a \in Agents, NEW i \in Jobs, WorkStep(a, i) PROVE FALSE
  <2>1. ASSUME NEW op \in {"start", "spool", "simulate", "fail"}, Submit(AgentRequest(op, i, a))
        PROVE  FALSE
    BY <1>3, <2>1 DEF Submit
  <2>2. CASE ClaimStart(a, i)
    BY <2>1, <2>2 DEF ClaimStart
  <2>3. CASE ReportComplete(a, i)
    BY <2>1, <2>3 DEF ReportComplete
  <2>4. CASE ReportFailure(a, i)
    BY <2>1, <2>4 DEF ReportFailure
  <2> QED
    BY <1>7, <2>2, <2>3, <2>4 DEF WorkStep, Download, SendToPrinter, AlreadyConfirmed, AgentError
<1>8. ASSUME NEW i \in Jobs, JobStep(i) PROVE FALSE
  <2>1. CASE Release(i)
    <3>1. pending' = pending
      BY <2>1, Zenon DEF Release
    <3> QED
      BY <3>1
  <2>2. ASSUME NEW then \in {"retry", "return"}, StaffRequest(i, then) PROVE FALSE
    BY <1>2, <1>4, <2>2 DEF StaffRequest, Submit
  <2>3. CASE StaffConfirm(i)
    BY <1>2, <2>3 DEF StaffConfirm, Submit
  <2>4. CASE Sweep(i)
    BY <1>4, <2>4 DEF Sweep
  <2>5. CASE FinishingComplete(i) \/ Handover(i) \/ JobAges(i) \/ SpoolAges(i)
    BY <2>5 DEF FinishingComplete, Handover, JobAges, SpoolAges
  <2> QED
    BY <1>8, <2>1, <2>2, <2>3, <2>4, <2>5 DEF JobStep, StaffRetry, StaffReturn
<1>9. ASSUME NEW b \in pending, Write(b) PROVE FALSE
  <2>1. CASE BeatArrives(b)
    BY <1>5, <2>1 DEF BeatArrives
  <2>2. CASE LoseWrite(b)
    <3>1. b.next \in {"none", "retry", "return"}
      BY <2>2, WriteType DEF LoseWrite
    <3> QED
      BY <1>2, <2>2, <3>1 DEF LoseWrite
  <2>3. CASE RetryWrite(b)
    <3>1. pending' = (pending \ {b}) \cup {Request("dispatch", b.job)}
      BY <2>3, Zenon DEF RetryWrite
    <3> QED
      BY <1>2, <3>1
  <2>4. CASE Dispatch(b)
    BY <1>2, <2>4 DEF Dispatch
  <2>5. CASE Finish(b)
    BY <2>5 DEF Finish
  <2> QED
    BY <1>9, <2>1, <2>2, <2>3, <2>4, <2>5, WritesFinish DEF Write
<1>10. CASE UNCHANGED vars
  BY <1>10 DEF vars
<1> QED
  BY <1>1, <1>6, <1>7, <1>8, <1>9, <1>10 DEF Next, Step
(* Whoever attends an order after a step, and claimed it before, runs on.      *)
LEMMA SameProcess ==
  ASSUME TypeOK, [Next]_vars, NEW j \in Jobs, job'[j].claimant = job[j].claimant, Attended(j)'
  PROVE  process'[job[j].claimant] = process[job[j].claimant]
<1> DEFINE c == job[j].claimant
<1>1. c \in Agents /\ work'[c][j] # "none"
  BY DEF Attended, TypeOK, JobRows
<1>2. ASSUME NEW a \in Agents, Restart(a) PROVE process'[c] = process[c]
  BY <1>1, <1>2 DEF Restart, TypeOK
<1>3. ASSUME NEW a \in Agents, AgentStep(a), ~Restart(a) PROVE process' = process
  BY <1>3 DEF AgentStep, Connect, ReportPrinters, SendBeat, Quieten, GoesOffline, DeleteAgent
<1>4. ASSUME NEW a \in Agents, NEW i \in Jobs, WorkStep(a, i) PROVE process' = process
  BY <1>4, Zenon DEF WorkStep, ClaimStart, Download, SendToPrinter, ReportComplete,
     AlreadyConfirmed, AgentError, ReportFailure
<1>5. ASSUME NEW i \in Jobs, JobStep(i) PROVE process' = process
  BY <1>5, Zenon DEF JobStep, Release, StaffRetry, StaffReturn, StaffRequest, StaffConfirm,
     FinishingComplete, Handover, Sweep, JobAges, SpoolAges
<1>6. ASSUME NEW r \in pending, Write(r) PROVE process' = process
  BY <1>6, Zenon DEF Write, ClaimCommit, SpoolWrite, FailWrite, LoseWrite, RetryWrite, Dispatch,
     NoAgentWrite, ReturnWrite, ConfirmWrite, BeatArrives, Drop
<1>7. CASE UNCHANGED vars
  BY <1>7 DEF vars
<1> QED
  BY <1>2, <1>3, <1>4, <1>5, <1>6, <1>7 DEF Next, Step

(* Every step keeps a first claim safe from the lists sent before it. *)
LEMMA SafeStep ==
  ASSUME TypeOK, [Next]_vars, NEW j \in Jobs, ClaimIsSafe(j)
  PROVE  ClaimIsSafe(j)'
<1>1. /\ TypeOK' /\ job[j] \in JobRows /\ job'[j] \in JobRows
      /\ job[j].attempts \in Nat /\ job'[j].attempts \in Nat
  BY TypeNext DEF TypeOK, JobRows
<1>2. GoesOn(j) \/ Commits(j)
  BY ClaimSteps
<1>3. steady'[j] => Attended(j)' /\ (steady[j] \/ job[j].status = "otp_verified")
  <2>1. CASE KeepSteady
    BY <2>1 DEF KeepSteady
  <2>2. CASE UNCHANGED vars
    BY <2>2 DEF vars, ClaimIsSafe, Attended
  <2> QED
    BY <2>1, <2>2 DEF Next
<1>4. Attended(j) => job[j].status = "printing"
  BY DEF Attended
<1>5. Attended(j)' => job'[j].status = "printing" /\ job'[j].claimant # None
  BY DEF Attended
<1>6. Losing(j)' => Losing(j) \/ job[j].status = "printing"
  BY LossesStart DEF Losing, Loses
<1>7. Attended(j) /\ DeniedInTime(j) /\ Losing(j)' => Losing(j) \/ ~Attended(j)'
  BY SteadyIsNotLost DEF Losing, Loses
<1>8. job'[j].status = "printing" => job'[j].attempts # 0
  BY <1>1, <1>2 DEF GoesOn, Commits, ClaimIsSafe
<1>9. job'[j].attempts = 0 => ~Losing(j)'
  BY <1>1, <1>2, <1>6 DEF GoesOn, Commits, ClaimIsSafe
<1>10. steady'[j] /\ job'[j].attempts = 1 => ~Losing(j)'
  <2>1. CASE steady[j]
    BY <1>2, <1>3, <1>4, <1>7, <2>1 DEF GoesOn, Commits, ClaimIsSafe
  <2>2. CASE job[j].status = "otp_verified"
    BY <1>1, <1>2, <1>3, <1>5, <1>6, <2>2 DEF GoesOn, Commits, ClaimIsSafe
  <2> QED
    BY <1>3, <2>1, <2>2
<1>11. ASSUME steady'[j], NEW r \in pending', r.op = "beat", r.by = job'[j].claimant,
              r.process = process'[r.by], j \notin r.flight
       PROVE  job'[j].age = 0
  <2>1. CASE Commits(j)
    BY <2>1 DEF Commits
  <2>2. CASE GoesOn(j)
    <3>1. /\ steady[j] /\ Attended(j) /\ DeniedInTime(j)
          /\ job'[j].claimant = job[j].claimant
          /\ job'[j].age \in {0, job[j].age}
      BY <1>3, <1>5, <1>11, <2>2 DEF GoesOn, ClaimIsSafe
    <3>2. r \in pending
      <4>1. work[job[j].claimant][j] # "none"
        BY <3>1 DEF Attended
      <4> QED
        BY <1>11, <3>1, <4>1, BeatsStart
    <3>3. process'[r.by] = process[r.by]
      BY <1>3, <1>11, <3>1, SameProcess
    <3> QED
      BY <1>11, <3>1, <3>2, <3>3 DEF DeniedInTime
  <2> QED
    BY <1>2, <2>1, <2>2
<1> QED
  BY <1>3, <1>8, <1>9, <1>10, <1>11 DEF ClaimIsSafe, DeniedInTime

(* A guarded transition leaves the orders in other statuses as they are.       *)
LEMMA ApplyOthers ==
  ASSUME TypeOK, NEW i, NEW from, NEW to, NEW row, ApplyTransition(i, from, to, row),
         NEW j \in Jobs, job[j].status # from
  PROVE  job'[j] = job[j]
  BY DEF ApplyTransition, TypeOK

(* A print ends without a confirmation by a failure report or as lost.         *)
LEMMA AttemptsEnd ==
  ASSUME TypeOK, [Next]_vars, NEW j \in Jobs, job[j].status = "printing",
         job'[j].status = "otp_verified"
  PROVE  \E r \in pending : r.job = j /\ (FailWrite(r) \/ LoseWrite(r))
<1>1. CASE \E a \in Agents : AgentStep(a)
  BY <1>1 DEF AgentStep, Connect, ReportPrinters, SendBeat, Quieten, GoesOffline, Restart, DeleteAgent
<1>2. ASSUME NEW a \in Agents, NEW i \in Jobs, WorkStep(a, i) PROVE FALSE
  <2>1. CASE ClaimStart(a, i)
    <3>1. i # j /\ job'[j] = job[j]
      BY <2>1 DEF ClaimStart, TypeOK
    <3> QED
      BY <3>1
  <2> QED
    BY <1>2, <2>1 DEF WorkStep, Download, SendToPrinter, ReportComplete, AlreadyConfirmed,
                      AgentError, ReportFailure
<1>3. ASSUME NEW i \in Jobs, JobStep(i) PROVE FALSE
  <2>1. CASE Release(i)
    <3>1. \E row : ApplyTransition(i, "queued", "otp_verified", row)
      BY <2>1, Zenon DEF Release
    <3> QED
      BY <3>1, ApplyOthers
  <2>2. CASE FinishingComplete(i) \/ Handover(i)
    BY <2>2, ApplyOthers DEF FinishingComplete, Handover
  <2>3. CASE JobAges(i) \/ SpoolAges(i)
    <3>1. job' = [job EXCEPT ![i].age = @ + 1] \/ job' = [job EXCEPT ![i].spoolOld = TRUE]
      BY <2>3 DEF JobAges, SpoolAges
    <3>2. job[j] \in JobRows
      BY DEF TypeOK
    <3>3. CASE i = j
      <4>1. /\ [job[j] EXCEPT !.age = job[j].age + 1].status = job[j].status
            /\ [job[j] EXCEPT !.spoolOld = TRUE].status = job[j].status
        BY <3>2 DEF JobRows
      <4>2. \/ job'[j] = [job[j] EXCEPT !.age = job[j].age + 1]
            \/ job'[j] = [job[j] EXCEPT !.spoolOld = TRUE]
        BY <3>1, <3>3 DEF TypeOK
      <4> QED
        BY <4>1, <4>2
    <3>4. CASE i # j
      BY <3>1, <3>4 DEF TypeOK
    <3> QED
      BY <3>3, <3>4
  <2> QED
    BY <1>3, <2>1, <2>2, <2>3
    DEF JobStep, StaffRetry, StaffReturn, StaffRequest, StaffConfirm, Sweep
<1>4. ASSUME NEW r \in pending, Write(r) PROVE r.job = j /\ (FailWrite(r) \/ LoseWrite(r))
  <2>1. CASE FailWrite(r) \/ LoseWrite(r)
    <3>1. \E row : ApplyTransition(r.job, "printing", "otp_verified", row)
      BY <2>1 DEF FailWrite, LoseWrite
    <3>2. r.job # j => job'[j] = job[j]
      BY <3>1 DEF ApplyTransition, TypeOK
    <3> QED
      BY <2>1, <3>2
  <2>2. CASE ClaimCommit(r)
    BY <2>2, ApplyOthers DEF ClaimCommit
  <2>3. CASE ReturnWrite(r)
    BY <2>3, ApplyOthers DEF ReturnWrite
  <2>4. CASE ConfirmWrite(r)
    <3> DEFINE row == [job[r.job] EXCEPT !.error = "none",
                 !.spool = IF job[r.job].spool = 0 THEN job[r.job].attempts ELSE job[r.job].spool]
               to == IF r.job \in BindingJobs THEN "finishing" ELSE "ready_for_pickup"
    <3>1. ApplyTransition(r.job, "printing", to, row)
      BY <2>4 DEF ConfirmWrite
    <3>2. r.job \in Jobs /\ job[r.job] \in JobRows
      BY <2>4, WriteType DEF ConfirmWrite
    <3>3. row \in JobRows
      BY <3>2 DEF JobRows, Errors
    <3> HIDE DEF row
    <3>4. job'[r.job].status = to /\ \A i \in Jobs : i # r.job => job'[i] = job[i]
      BY <3>1, <3>2, <3>3, ApplyEffect DEF Statuses
    <3> QED
      BY <3>4
  <2>5. CASE SpoolWrite(r) \/ NoAgentWrite(r) \/ RetryWrite(r)
    BY <2>5, QuietWrites
  <2>6. CASE Dispatch(r) \/ BeatArrives(r) \/ Drop(r)
    BY <2>6 DEF Dispatch, BeatArrives, Drop
  <2> QED
    BY <1>4, <2>1, <2>2, <2>3, <2>4, <2>5, <2>6 DEF Write
<1>5. CASE UNCHANGED vars
  BY <1>5 DEF vars
<1> QED
  BY <1>1, <1>2, <1>3, <1>4, <1>5 DEF Next, Step

(* Nothing takes the first attempt from a computer that has worked on it ever  *)
(* since the claim and was heard of in time all along: not the sweep, not      *)
(* staff, not a heartbeat computed before the claim (printLease.ts:31-35,      *)
(* 125-133).                                                                  *)
THEOREM WorkingComputerKeepsJobHolds == Spec => WorkingComputerKeepsJob
<1>1. Init => \A j \in Jobs : ClaimIsSafe(j)
  BY DEF Init, ClaimIsSafe, Losing
<1>2. ASSUME TypeOK, [Next]_vars, \A j \in Jobs : ClaimIsSafe(j)
      PROVE  (\A j \in Jobs : ClaimIsSafe(j))'
  BY <1>2, SafeStep
<1>3. ASSUME TypeOK, \A j \in Jobs : ClaimIsSafe(j), [Next]_vars
      PROVE  [\A j \in Jobs :
               steady[j] /\ job[j].attempts = 1 /\ job'[j].status = "otp_verified"
                 => job'[j].error \notin {"agent_offline", "agent_restarted"}]_vars
  <2>1. SUFFICES ASSUME NEW j \in Jobs, steady[j], job[j].attempts = 1,
                        job'[j].status = "otp_verified"
                 PROVE  job'[j].error \notin {"agent_offline", "agent_restarted"}
    OBVIOUS
  <2>2. job[j].status = "printing" /\ ~Losing(j)
    BY <1>3, <2>1 DEF ClaimIsSafe, Attended
  <2>3. PICK r \in pending : r.job = j /\ (FailWrite(r) \/ LoseWrite(r))
    BY <1>3, <2>1, <2>2, AttemptsEnd
  <2>4. FailWrite(r)
    BY <2>2, <2>3 DEF Losing, LoseWrite
  <2>5. job'[j].error = "retryable"
    <3> DEFINE row == [Unclaimed(job[j]) EXCEPT !.error = "retryable"]
    <3>1. Unclaimed(job[j]) \in JobRows
      BY <1>3, UnclaimedType DEF TypeOK
    <3>2. row \in JobRows
      BY <3>1, RowWrite, Values, Zenon
    <3>3. row.error = "retryable"
      BY <3>1 DEF JobRows
    <3>4. ApplyTransition(j, "printing", "otp_verified", row)
      BY <2>3, <2>4 DEF FailWrite
    <3> HIDE DEF row
    <3> QED
      BY <1>3, <3>2, <3>3, <3>4, ApplyEffect DEF Statuses
  <2> QED
    BY <2>5
<1> QED
  BY <1>1, <1>2, <1>3, TypeCorrect, PTL DEF Spec, WorkingComputerKeepsJob
================================================================================
