---------------------------- MODULE PrintDispatch ----------------------------
(***************************************************************************)
(* From the counter release of an order to the paper in the student's      *)
(* hand: print computers (agents) claim a released job, download it, print *)
(* it and report; staff confirm the paper, retry a failed print or return  *)
(* the payment; sweeps and reconnections fail the prints that were lost.   *)
(*                                                                         *)
(* Every API handler reads rows, awaits, and then writes with a            *)
(* conditional UPDATE.  Its read is one action, which leaves a record in   *)
(* `pending` holding what it read; its write is another, which consumes    *)
(* that record and whose guard is the WHERE clause of the UPDATE.  A write *)
(* that loses its race, or whose server process dies first, is Drop.       *)
(***************************************************************************)
EXTENDS Integers, FiniteSets

CONSTANTS
  Jobs,            \* orders of one shop
  Agents,          \* print computers registered for the shop
  Printers,        \* the shop's printers
  Reach,           \* Reach[a]: connectedPrinterIds of agent a
  LegacyAgents,    \* agents too old to send a process (session) id
  BindingJobs,     \* jobs whose specs ask for binding
  AllowSimulated,  \* ALLOW_SIMULATED_PRINT_COMPLETION (never in production)
  None,            \* SQL NULL in claimedByAgentId
  MaxProcess,      \* bound: processes started per agent
  MaxAttempts,     \* bound: printAttempts of a job
  MaxCredit,       \* bound: print permissions outstanding for a job
  MaxPending,      \* bound: handlers between read and write, but for the sweep's
  MaxBeats,        \* bound: heartbeats in transit
  MaxTroubled      \* bound: agents offline, silent or deleted at the same time

ASSUME DispatchAssumption ==
  /\ IsFiniteSet(Agents)
  /\ None \notin Agents
  /\ Reach \in [Agents -> SUBSET Printers]
  /\ LegacyAgents \subseteq Agents
  /\ AllowSimulated \in BOOLEAN
  /\ MaxProcess \in Nat \ {0} /\ MaxAttempts \in Nat
  /\ MaxCredit \in Nat /\ MaxPending \in Nat
  /\ MaxBeats \in Nat /\ MaxTroubled \in Nat

VARIABLES
  job,       \* the columns of Job this protocol reads and writes
  agent,     \* the columns of Agent, and how long ago it was last heard
  process,   \* process[a]: number of the process running on a's computer, 0 if none
  work,      \* work[a][j]: what that process is doing for job j (inFlight in the agent)
  pending,   \* handlers between their read and their write, requests in transit
  credit,    \* history: print permissions given minus documents sent to a printer
  slips,     \* history: staff-held failures hidden by a late "no agent" mark
  steady     \* history: the claiming process has been working and heard of since its claim

vars == <<job, agent, process, work, pending, credit, slips, steady>>

-----------------------------------------------------------------------------
(* Data. *)

Statuses == {"queued", "otp_verified", "printing", "finishing",
             "ready_for_pickup", "completed", "cancelled"}

(* STAFF_DECISION_PRINT_ERRORS: a lost print waits for staff. *)
StaffDecisionErrors == {"agent_offline", "agent_restarted", "claim_timeout", "spool_timeout"}

(* "retryable": the agent's own report, or the no-agent mark of dispatchJob. *)
Errors == {"none", "retryable"} \cup StaffDecisionErrors

(* The agent's progress on a job: printJob() and printJobInner(). *)
Phases == {"none", "claiming", "claimed", "fetched", "printed", "reporting", "failing"}

Sessions == 0 .. MaxProcess        \* 0: NULL (no session id)

(* age: 0 inside IN_FLIGHT_GRACE_MS of updatedAt, 1 older, 2 older than both  *)
(* PRINT_LEASE_TIMEOUT and PRINT_CLAIM_TIMEOUT.  spool: 0 is NULL, otherwise  *)
(* the attempt in which spoolAcceptedAt was written.                          *)
JobRows ==
  [status: Statuses, payment: {"due", "paid", "refunded"}, printer: Printers,
   claimant: Agents \cup {None}, session: Sessions, error: Errors,
   attempts: 0 .. MaxAttempts, spool: 0 .. MaxAttempts, spoolOld: BOOLEAN, age: 0 .. 2]

(* quiet: 0 heard within STAFF_OFFLINE_AFTER_MS, 1 silent longer, 2 silent     *)
(* past PRINT_LEASE_TIMEOUT.                                                  *)
AgentRows == [present: BOOLEAN, online: BOOLEAN, session: Sessions, quiet: 0 .. 2]

(* A handler past its read.  `by` and `process` are the caller's, `seen` the  *)
(* claimant it read, `reason` the failure it decided on, `next` what the same *)
(* staff request goes on to do; `flight` is a heartbeat's inFlightJobIds.     *)
Ops == {"start", "spool", "simulate", "confirm", "fail", "lose", "sweep",
        "retry", "dispatch", "noagent", "return"}

Requests ==
  [op: Ops, job: Jobs, by: Agents \cup {None}, process: Sessions,
   seen: Agents \cup {None}, reason: Errors, next: {"none", "retry", "return"}]

Beats == [op: {"beat"}, by: Agents, process: Sessions, flight: SUBSET Jobs]

Request(op, j) ==
  [op |-> op, job |-> j, by |-> None, process |-> 0, seen |-> None,
   reason |-> "none", next |-> "none"]

AgentRequest(op, j, a) == [Request(op, j) EXCEPT !.by = a, !.process = process[a]]

LoseRequest(op, j, why, then) ==
  [Request(op, j) EXCEPT !.seen = job[j].claimant, !.reason = why, !.next = then]

(* x-agent-session of process n of agent a; NULL for a legacy agent. *)
Sid(a, n) == IF a \in LegacyAgents THEN 0 ELSE n

(* The sweep is one worker of its own, and heartbeats are bounded apart. *)
HasRoom == Cardinality({r \in pending : r.op \notin {"sweep", "beat"}}) < MaxPending

Submit(r) == HasRoom /\ pending' = pending \cup {r}
Finish(r) == pending' = pending \ {r}

(* Fault: an UPDATE by id, without the expected status in its WHERE clause.   *)
WriteById(j, from, to, row) ==
  job' = [job EXCEPT ![j] = [row EXCEPT !.status = to, !.age = 0]]

(* The single guarded UPDATE of applyTransition, with its extra columns set. *)
ApplyTransition(j, from, to, row) ==
  /\ job[j].status = from
  /\ job' = [job EXCEPT ![j] = [row EXCEPT !.status = to, !.age = 0]]

Unclaimed(row) == [row EXCEPT !.claimant = None, !.session = 0]

-----------------------------------------------------------------------------
(* printLease.ts: when may a printing job be taken from its computer? *)

(* Fault: NOT_STAFF_HELD is left out of the claim.                            *)
NeverHeld(j) == FALSE

StaffHeld(j) == job[j].error \in StaffDecisionErrors

GoneForStaff(a) ==
  \/ a = None
  \/ ~agent[a].present
  \/ ~agent[a].online
  \/ agent[a].quiet >= 1

LeaseExpired(j) ==
  /\ job[j].age = 2
  /\ LET a == job[j].claimant IN a = None \/ ~agent[a].present \/ agent[a].quiet = 2

OtherProcessRuns(j) ==
  LET a == job[j].claimant IN
  /\ job[j].spool = 0 /\ a # None
  /\ agent[a].present /\ agent[a].session # 0
  /\ job[j].session # 0 /\ job[j].session # agent[a].session

(* Fault: no time limit on a print the spooler acknowledged.                  *)
LostReasonNoSpoolLimit(j, gone) ==
  IF OtherProcessRuns(j) THEN "agent_restarted"
  ELSE IF gone THEN "agent_offline"
  ELSE IF job[j].spool = 0 /\ job[j].age = 2 THEN "claim_timeout"
  ELSE "none"

(* printLostReason, in the order of its tests; "none" is null. *)
LostReason(j, gone) ==
  IF OtherProcessRuns(j) THEN "agent_restarted"
  ELSE IF gone THEN "agent_offline"
  ELSE IF job[j].spool = 0 /\ job[j].age = 2 THEN "claim_timeout"
  ELSE IF job[j].spool # 0 /\ job[j].spoolOld THEN "spool_timeout"
  ELSE "none"

(* otherSessionHolds *)
OtherSessionHolds(j, a) ==
  /\ job[j].session # 0
  /\ Sid(a, process[a]) # 0
  /\ job[j].session # Sid(a, process[a])

(* recommendPrinter: a printer an online agent reaches. *)
Eligible(p) == \E a \in Agents : agent[a].present /\ agent[a].online /\ p \in Reach[a]

-----------------------------------------------------------------------------
(* The agent process. *)

(* The reply of request r reaches the process that sent it, if it still waits. *)
Reply(r, from, to) ==
  work' = IF process[r.by] = r.process /\ work[r.by][r.job] = from
            THEN [work EXCEPT ![r.by][r.job] = to]
            ELSE work

(* POST /jobs/:id/claim, first statement: the conditional claim. *)
ClaimStart(a, j) ==
  /\ work[a][j] = "none" /\ agent[a].present
  /\ job[j].status = "otp_verified" /\ ~StaffHeld(j)
  /\ job[j].printer \in Reach[a]
  /\ job[j].claimant \in {None, a}
  /\ job[j].attempts < MaxAttempts
  /\ job' = [job EXCEPT ![j] =
               [@ EXCEPT !.claimant = a, !.session = Sid(a, process[a]), !.age = 0]]
  /\ work' = [work EXCEPT ![a][j] = "claiming"]
  /\ Submit(AgentRequest("start", j, a))
  /\ UNCHANGED <<agent, process, credit, slips>>

(* ... second statement: PRINT_STARTED, guarded by the status alone. *)
ClaimCommit(r) ==
  /\ r.op = "start"
  /\ job[r.job].attempts < MaxAttempts
  /\ ApplyTransition(r.job, "otp_verified", "printing",
       [job[r.job] EXCEPT !.error = "none", !.attempts = job[r.job].attempts + 1])
  /\ Reply(r, "claiming", "claimed")
  /\ Finish(r)
  /\ UNCHANGED <<agent, process, credit, slips>>

(* GET /jobs/:id/file *)
Download(a, j) ==
  /\ work[a][j] = "claimed" /\ agent[a].present
  /\ job[j].claimant = a /\ ~OtherSessionHolds(j, a)
  /\ job[j].status \in {"otp_verified", "printing"}
  /\ work' = [work EXCEPT ![a][j] = "fetched"]
  /\ UNCHANGED <<job, agent, process, pending, credit, slips>>

(* sendToPrinter: from here on there may be paper. *)
SendToPrinter(a, j) ==
  /\ work[a][j] = "fetched"
  /\ work' = [work EXCEPT ![a][j] = "printed"]
  /\ credit' = [credit EXCEPT ![j] = @ - 1]
  /\ UNCHANGED <<job, agent, process, pending, slips>>

MayReport(a, j) ==
  agent[a].present /\ job[j].claimant = a /\ ~OtherSessionHolds(j, a)

(* POST /jobs/:id/complete, up to its write. *)
ReportComplete(a, j) ==
  /\ work[a][j] = "printed" /\ MayReport(a, j)
  /\ job[j].status = "printing"
  /\ \E op \in {"spool"} \cup (IF AllowSimulated THEN {"simulate"} ELSE {}) :
       Submit(AgentRequest(op, j, a))
  /\ work' = [work EXCEPT ![a][j] = "reporting"]
  /\ UNCHANGED <<job, agent, process, credit, slips>>

(* A network retry after a confirmed result: alreadyConfirmed. *)
AlreadyConfirmed(a, j) ==
  /\ work[a][j] = "printed" /\ MayReport(a, j)
  /\ job[j].status \in {"finishing", "ready_for_pickup", "completed"}
  /\ work' = [work EXCEPT ![a][j] = "none"]
  /\ UNCHANGED <<job, agent, process, pending, credit, slips>>

(* recordSpoolAccepted; the handler answers ok whether or not a row matched. *)
SpoolWrite(r) ==
  /\ r.op = "spool"
  /\ job' = IF job[r.job].status = "printing" /\ job[r.job].spool = 0
               THEN [job EXCEPT ![r.job] =
                      [@ EXCEPT !.spool = job[r.job].attempts, !.spoolOld = FALSE,
                                !.error = "none", !.age = 0]]
               ELSE job
  /\ Reply(r, "reporting", "none")
  /\ Finish(r)
  /\ UNCHANGED <<agent, process, credit, slips>>

(* A refusal, a lost request or reply, a printer error: the catch block, which *)
(* reports the failure.  A process that gave up claiming or reporting failure  *)
(* is simply done with the job.                                                *)
AgentError(a, j) ==
  /\ \/ /\ work[a][j] \in {"claimed", "fetched", "printed", "reporting"}
        /\ work' = [work EXCEPT ![a][j] = "failing"]
     \/ /\ work[a][j] \in {"claiming", "failing"}
        /\ work' = [work EXCEPT ![a][j] = "none"]
  /\ UNCHANGED <<job, agent, process, pending, credit, slips>>

(* POST /jobs/:id/fail, up to its write. *)
ReportFailure(a, j) ==
  /\ work[a][j] = "failing" /\ MayReport(a, j)
  /\ job[j].status = "printing"
  /\ Submit(AgentRequest("fail", j, a))
  /\ UNCHANGED <<job, agent, process, work, credit, slips>>

FailWrite(r) ==
  /\ r.op = "fail"
  /\ ApplyTransition(r.job, "printing", "otp_verified",
       [Unclaimed(job[r.job]) EXCEPT !.error = "retryable"])
  /\ credit' = [credit EXCEPT ![r.job] = @ + 1]
  /\ Reply(r, "failing", "none")
  /\ Finish(r)
  /\ UNCHANGED <<agent, process, slips>>

-----------------------------------------------------------------------------
(* Lost prints: reconnections, heartbeats and the sweep. *)

(* Fault: no IN_FLIGHT_GRACE_MS for a job missing from the heartbeat.         *)
LostJobsNoGrace(a, sid, missing) ==
  {j \in Jobs :
     /\ job[j].status = "printing" /\ job[j].claimant = a /\ job[j].spool = 0
     /\ (job[j].session # 0 /\ job[j].session # sid) \/ j \in missing}

(* reconcileAgentSession: what the current process cannot be working on. *)
LostJobs(a, sid, missing) ==
  {j \in Jobs :
     /\ job[j].status = "printing" /\ job[j].claimant = a /\ job[j].spool = 0
     /\ \/ job[j].session # 0 /\ job[j].session # sid
        \/ j \in missing /\ job[j].age >= 1}

Reconcile(a, sid, missing) ==
  IF sid = 0 THEN {}
  ELSE {LoseRequest("lose", j, "agent_restarted", "none") : j \in LostJobs(a, sid, missing)}

HeardFrom(a, sid) ==
  agent' = [agent EXCEPT ![a] =
             [@ EXCEPT !.online = TRUE, !.quiet = 0,
                       !.session = IF sid = 0 THEN agent[a].session ELSE sid]]

(* The agent's socket connects (realtime/io.ts). *)
Connect(a) ==
  /\ agent[a].present /\ HasRoom
  /\ HeardFrom(a, Sid(a, process[a]))
  /\ pending' = pending \cup Reconcile(a, Sid(a, process[a]), {})
  /\ UNCHANGED <<job, process, work, credit, slips>>

(* POST /printers: the session is stored, the heartbeat time is not. *)
ReportPrinters(a) ==
  /\ agent[a].present /\ HasRoom /\ a \notin LegacyAgents
  /\ agent' = [agent EXCEPT ![a].session = process[a]]
  /\ pending' = pending \cup Reconcile(a, process[a], {})
  /\ UNCHANGED <<job, process, work, credit, slips>>

(* A heartbeat leaves the computer with the jobs then in flight ... *)
SendBeat(a) ==
  /\ agent[a].present
  /\ Cardinality({r \in pending : r.op = "beat"}) < MaxBeats
  /\ pending' = pending \cup
       {[op |-> "beat", by |-> a, process |-> process[a],
         flight |-> {j \in Jobs : work[a][j] # "none"}]}
  /\ UNCHANGED <<job, agent, process, work, credit, slips>>

(* ... and is handled when it arrives. *)
BeatArrives(r) ==
  /\ r.op = "beat" /\ agent[r.by].present
  /\ LET sid == Sid(r.by, r.process) IN
       /\ HeardFrom(r.by, sid)
       /\ pending' = (pending \ {r}) \cup Reconcile(r.by, sid, Jobs \ r.flight)
  /\ UNCHANGED <<job, process, work, credit, slips>>

(* failOrphanedPrints reads one printing job and its agent. *)
Sweep(j) ==
  /\ job[j].status = "printing"
  /\ job[j].age = 2 \/ (job[j].session # 0 /\ job[j].spool = 0)
  /\ \A r \in pending : r.op = "sweep" => r.job # j
  /\ LostReason(j, LeaseExpired(j)) # "none"
  /\ pending' = pending \cup {LoseRequest("sweep", j, LostReason(j, LeaseExpired(j)), "none")}
  /\ UNCHANGED <<job, agent, process, work, credit, slips>>

(* markPrintFailedAgentGone; a staff request then goes on with the failed job. *)
LoseWrite(r) ==
  /\ r.op \in {"lose", "sweep"}
  /\ job[r.job].claimant = r.seen
  /\ r.reason = "agent_restarted" => job[r.job].spool = 0
  /\ ApplyTransition(r.job, "printing", "otp_verified",
       [Unclaimed(job[r.job]) EXCEPT !.error = r.reason])
  /\ pending' = (pending \ {r}) \cup
       (IF r.next = "none" THEN {} ELSE {Request(r.next, r.job)})
  /\ UNCHANGED <<agent, process, work, credit, slips>>

-----------------------------------------------------------------------------
(* The counter. *)

(* The release of releaseByOtp: a printer is chosen, the payment is taken.    *)
(* Its dispatchJob uses the agents of the same read: it never marks the job.  *)
Release(j) ==
  \E p \in Printers :
    /\ Eligible(p)
    /\ ApplyTransition(j, "queued", "otp_verified",
         [Unclaimed(job[j]) EXCEPT !.printer = p, !.error = "none", !.payment = "paid"])
    /\ UNCHANGED <<agent, process, work, pending, credit, slips>>

(* isPrintOrphaned *)
Orphaned(j) ==
  \/ job[j].claimant = None
  \/ LostReason(j, GoneForStaff(job[j].claimant)) # "none"

(* releaseOrphanedPrint, then the request `then` proper. *)
StaffRequest(j, then) ==
  /\ \/ /\ job[j].status = "otp_verified"
        /\ Submit(Request(then, j))
     \/ /\ job[j].status = "printing" /\ Orphaned(j)
        /\ Submit(LoseRequest("lose", j, "agent_offline", then))
  /\ UNCHANGED <<job, agent, process, work, credit, slips>>

StaffRetry(j) == StaffRequest(j, "retry")
StaffReturn(j) == StaffRequest(j, "return") /\ job[j].payment = "paid"

(* The final update of retry-print, by id alone; dispatchJob comes next.  The *)
(* printer recommendation, read just before, is evaluated with the write.     *)
RetryWrite(r) ==
  /\ r.op = "retry" /\ credit[r.job] < MaxCredit
  /\ \E p \in Printers :
       /\ Eligible(p)
       /\ job' = [job EXCEPT ![r.job] =
                   [Unclaimed(@) EXCEPT !.printer = p, !.error = "none", !.age = 0]]
  /\ credit' = [credit EXCEPT ![r.job] = @ + 1]
  /\ pending' = (pending \ {r}) \cup {Request("dispatch", r.job)}
  /\ UNCHANGED <<agent, process, work, slips>>

(* dispatchJob looks for online agents; the messages only invite a claim. *)
Dispatch(r) ==
  /\ r.op = "dispatch"
  /\ pending' = (pending \ {r}) \cup
       (IF Eligible(job[r.job].printer) THEN {} ELSE {Request("noagent", r.job)})
  /\ UNCHANGED <<job, agent, process, work, credit, slips>>

(* ... and marks the job when it found none. *)
NoAgentWrite(r) ==
  /\ r.op = "noagent"
  /\ job[r.job].status = "otp_verified"
  /\ job' = [job EXCEPT ![r.job] = [@ EXCEPT !.error = "retryable", !.age = 0]]
  /\ slips' = IF StaffHeld(r.job) THEN [slips EXCEPT ![r.job] = @ + 1] ELSE slips
  /\ Finish(r)
  /\ UNCHANGED <<agent, process, work, credit>>

(* counter-payment-returned, once the job is not printing. *)
ReturnWrite(r) ==
  /\ r.op = "return"
  /\ ApplyTransition(r.job, "otp_verified", "cancelled",
       [Unclaimed(job[r.job]) EXCEPT !.payment = "refunded", !.error = "none"])
  /\ Finish(r)
  /\ UNCHANGED <<agent, process, work, credit, slips>>

(* confirm-print-completion: staff looked at the paper. *)
StaffConfirm(j) ==
  /\ job[j].status = "printing"
  /\ Submit(Request("confirm", j))
  /\ UNCHANGED <<job, agent, process, work, credit, slips>>

(* confirmSuccessfulPrint, for staff and for a simulated completion. *)
ConfirmWrite(r) ==
  /\ r.op \in {"confirm", "simulate"}
  /\ ApplyTransition(r.job, "printing",
       IF r.job \in BindingJobs THEN "finishing" ELSE "ready_for_pickup",
       [job[r.job] EXCEPT !.error = "none",
          !.spool = IF job[r.job].spool = 0 THEN job[r.job].attempts ELSE job[r.job].spool])
  /\ IF r.op = "simulate" THEN Reply(r, "reporting", "none") ELSE work' = work
  /\ Finish(r)
  /\ UNCHANGED <<agent, process, credit, slips>>

FinishingComplete(j) ==
  /\ ApplyTransition(j, "finishing", "ready_for_pickup", job[j])
  /\ UNCHANGED <<agent, process, work, pending, credit, slips>>

Handover(j) ==
  /\ ApplyTransition(j, "ready_for_pickup", "completed", job[j])
  /\ UNCHANGED <<agent, process, work, pending, credit, slips>>

(* The write matched no row, or the server or the request died before it. *)
Drop(r) ==
  /\ Finish(r)
  /\ UNCHANGED <<job, agent, process, work, credit, slips>>

-----------------------------------------------------------------------------
(* Time, crashes and administration. *)

(* A heartbeat spends less than IN_FLIGHT_GRACE_MS in transit. *)
JobAges(j) ==
  /\ job[j].status = "printing" /\ job[j].age < 2
  /\ \A r \in pending : r.op # "beat"
  /\ job' = [job EXCEPT ![j].age = @ + 1]
  /\ UNCHANGED <<agent, process, work, pending, credit, slips>>

(* PRINT_SPOOL_TIMEOUT passes since spoolAcceptedAt. *)
SpoolAges(j) ==
  /\ job[j].status \in {"otp_verified", "printing"}
  /\ job[j].spool # 0 /\ ~job[j].spoolOld
  /\ job' = [job EXCEPT ![j].spoolOld = TRUE]
  /\ UNCHANGED <<agent, process, work, pending, credit, slips>>

Troubled == {a \in Agents : ~agent[a].present \/ ~agent[a].online \/ agent[a].quiet > 0}
MayFail(a) == Cardinality(Troubled \cup {a}) <= MaxTroubled

Quieten(a) ==
  /\ agent[a].quiet < 2 /\ MayFail(a)
  /\ agent' = [agent EXCEPT ![a].quiet = @ + 1]
  /\ UNCHANGED <<job, process, work, pending, credit, slips>>

(* The socket drops, or detectStaleAgents writes what it decided earlier. *)
GoesOffline(a) ==
  /\ agent[a].online /\ MayFail(a)
  /\ agent' = [agent EXCEPT ![a].online = FALSE]
  /\ UNCHANGED <<job, process, work, pending, credit, slips>>

(* The agent program dies and is started again: a new SESSION_ID, no job. *)
Restart(a) ==
  /\ process[a] < MaxProcess
  /\ process' = [process EXCEPT ![a] = @ + 1]
  /\ work' = [work EXCEPT ![a] = [j \in Jobs |-> "none"]]
  /\ UNCHANGED <<job, agent, pending, credit, slips>>

(* DELETE /shop/agents/:id *)
DeleteAgent(a) ==
  /\ agent[a].present /\ MayFail(a)
  /\ agent' = [agent EXCEPT ![a].present = FALSE, ![a].online = FALSE]
  /\ UNCHANGED <<job, process, work, pending, credit, slips>>

-----------------------------------------------------------------------------
Init ==
  /\ job \in [Jobs ->
       {[status |-> "queued", payment |-> "due", printer |-> p, claimant |-> None,
         session |-> 0, error |-> "none", attempts |-> 0, spool |-> 0,
         spoolOld |-> FALSE, age |-> 0] : p \in Printers}]
  /\ agent = [a \in Agents |->
       [present |-> TRUE, online |-> TRUE, session |-> Sid(a, 1), quiet |-> 0]]
  /\ process = [a \in Agents |-> 1]
  /\ work = [a \in Agents |-> [j \in Jobs |-> "none"]]
  /\ pending = {}
  /\ credit = [j \in Jobs |-> 1]
  /\ slips = [j \in Jobs |-> 0]
  /\ steady = [j \in Jobs |-> FALSE]

(* The process that claimed j runs, works on j, is heard of in time and has   *)
(* not used up the claim and spool timeouts.                                 *)
Attended(j) ==
  LET a == job[j].claimant IN
  /\ job[j].status = "printing" /\ a # None
  /\ job[j].age < 2 /\ ~(job[j].spool # 0 /\ job[j].spoolOld)
  /\ agent[a].present /\ agent[a].online /\ agent[a].quiet = 0
  /\ job[j].session = Sid(a, process[a]) /\ agent[a].session = job[j].session
  /\ work[a][j] # "none"

KeepSteady ==
  steady' = [j \in Jobs |->
              (steady[j] \/ job[j].status = "otp_verified") /\ Attended(j)']

AgentStep(a) ==
  \/ Connect(a) \/ ReportPrinters(a) \/ SendBeat(a)
  \/ Quieten(a) \/ GoesOffline(a) \/ Restart(a) \/ DeleteAgent(a)

WorkStep(a, j) ==
  \/ ClaimStart(a, j) \/ Download(a, j) \/ SendToPrinter(a, j)
  \/ ReportComplete(a, j) \/ AlreadyConfirmed(a, j)
  \/ AgentError(a, j) \/ ReportFailure(a, j)

JobStep(j) ==
  \/ Release(j) \/ StaffRetry(j) \/ StaffReturn(j) \/ StaffConfirm(j)
  \/ FinishingComplete(j) \/ Handover(j)
  \/ Sweep(j) \/ JobAges(j) \/ SpoolAges(j)

Write(r) ==
  \/ ClaimCommit(r) \/ SpoolWrite(r) \/ FailWrite(r) \/ LoseWrite(r)
  \/ RetryWrite(r) \/ Dispatch(r) \/ NoAgentWrite(r) \/ ReturnWrite(r)
  \/ ConfirmWrite(r) \/ BeatArrives(r) \/ Drop(r)

Step ==
  \/ \E a \in Agents : AgentStep(a)
  \/ \E a \in Agents, j \in Jobs : WorkStep(a, j)
  \/ \E j \in Jobs : JobStep(j)
  \/ \E r \in pending : Write(r)

Next == Step /\ KeepSteady

SweepOf(r, j) == r.op = "sweep" /\ r.job = j

(* Time passes, handlers end, and the sweep runs every 30 seconds and is not *)
(* killed before its write every single time.  Nobody at the counter or on a *)
(* computer has to do anything.                                              *)
Fairness ==
  /\ WF_vars((\E r \in pending : r.op = "beat" /\ (BeatArrives(r) \/ Drop(r))) /\ KeepSteady)
  /\ \A j \in Jobs :
       /\ SF_vars(JobAges(j) /\ KeepSteady)
       /\ WF_vars(SpoolAges(j) /\ KeepSteady)
       /\ SF_vars(Sweep(j) /\ KeepSteady)
       /\ SF_vars((\E r \in pending : SweepOf(r, j) /\ LoseWrite(r)) /\ KeepSteady)
       /\ WF_vars((\E r \in pending : SweepOf(r, j) /\ Drop(r)) /\ KeepSteady)

Spec == Init /\ [][Next]_vars
FairSpec == Spec /\ Fairness
==============================================================================
