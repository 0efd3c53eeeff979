-------------------------- MODULE PrintDispatchProps --------------------------
(***************************************************************************)
(* What PrintDispatch must guarantee.                                      *)
(***************************************************************************)
EXTENDS PrintDispatch

(* Every column, process and handler holds a value of its type (schema.prisma, *)
(* model Job and model Agent).                                                 *)
TypeOK ==
  /\ job \in [Jobs -> JobRows]
  /\ agent \in [Agents -> AgentRows]
  /\ process \in [Agents -> 1 .. MaxProcess]
  /\ work \in [Agents -> [Jobs -> Phases]]
  /\ pending \subseteq Requests \cup Beats
  /\ credit \in [Jobs -> Int]
  /\ slips \in [Jobs -> Nat]
  /\ steady \in [Jobs -> BOOLEAN]

(* No paper without permission.  A document reaches a printer at most once for *)
(* the release, once more for every staff retry and for every failure its own  *)
(* computer reported: whatever restarts, late requests and sweeps do, nothing  *)
(* else prints it again (agents/routes.ts:25-28).  The one exception is        *)
(* counted in slips: a "no agent" mark of a retry that lands on a failure      *)
(* waiting for staff and hides it.                                             *)
PrintBudget == \A j \in Jobs : credit[j] + slips[j] >= 0

(* The money and the paper exclude each other: an order whose payment staff    *)
(* returned was never confirmed as printed, and the reverse, however retry,    *)
(* return, confirmation and late reports interleave (shops/routes.ts           *)
(* counter-payment-returned, printCompletion.ts confirmSuccessfulPrint).       *)
Confirmed(j) == job[j].status \in {"finishing", "ready_for_pickup", "completed"}

OneOutcome ==
  \A j \in Jobs :
    /\ job[j].payment = "refunded" <=> job[j].status = "cancelled"
    /\ Confirmed(j) => job[j].payment = "paid"

(* The event that posts the commission happens once: a confirmed or cancelled  *)
(* order never prints again, is never confirmed again and never goes back.     *)
SettledForGood ==
  [][\A j \in Jobs :
       /\ Confirmed(j) => Confirmed(j)' /\ job'[j].payment = "paid"
       /\ job[j].status = "completed" => job'[j].status = "completed"
       /\ job[j].status = "cancelled" => job'[j].status = "cancelled"]_vars

(* A computer that has worked on the first attempt at a job ever since it      *)
(* claimed it, and was heard of in time all along, does not lose the job as    *)
(* offline or restarted: not to the sweep, not to staff, not to a heartbeat    *)
(* list computed before the claim (printLease.ts:31-35, 125-133).              *)
WorkingComputerKeepsJob ==
  [][\A j \in Jobs :
       steady[j] /\ job[j].attempts = 1 /\ job'[j].status = "otp_verified"
         => job'[j].error \notin {"agent_offline", "agent_restarted"}]_vars

(* A lost print is never lost for good: whatever becomes of its computer, a    *)
(* printing job is confirmed or handed back to staff (printLease.ts:156-161).  *)
EveryPrintSettles ==
  \A j \in Jobs : job[j].status = "printing" ~> job[j].status # "printing"

(* Every status write follows the table of packages/shared.                    *)
Lifecycle == INSTANCE JobStateMachine WITH status <- [j \in Jobs |-> job[j].status]
FollowsStateMachine == Lifecycle!Spec

-----------------------------------------------------------------------------
(* The inductive invariant behind OneOutcome, SettledForGood and PrintBudget.  *)

(* The payment column is a function of the status.                             *)
PaymentFollowsStatus(j) ==
  job[j].payment = IF job[j].status = "queued" THEN "due"
                   ELSE IF job[j].status = "cancelled" THEN "refunded"
                   ELSE "paid"

(* A job waiting for staff has no claimant, and a computer that was told it    *)
(* holds the job was told so when the job became printing.                     *)
ClaimsAreFresh(j) ==
  /\ StaffHeld(j) => job[j].status = "otp_verified" /\ job[j].claimant = None
  /\ \A a \in Agents : job[j].status = "otp_verified" /\ job[j].claimant = a
                         => work[a][j] # "claimed"

(* Whether the document of j can still be downloaded without a new permission, *)
(* and the computers that have it in hand.                                     *)
Obtainable(j) ==
  \/ job[j].status = "queued"
  \/ job[j].status = "otp_verified" /\ ~StaffHeld(j)
  \/ /\ job[j].status = "printing" /\ job[j].claimant # None
     /\ work[job[j].claimant][j] = "claimed"

InHand(j) == {a \in Agents : work[a][j] = "fetched"}

BudgetCovered(j) ==
  credit[j] + slips[j] >= Cardinality(InHand(j)) + (IF Obtainable(j) THEN 1 ELSE 0)

PrintRules(j) == PaymentFollowsStatus(j) /\ ClaimsAreFresh(j) /\ BudgetCovered(j)

(* Whoever takes a print away does it for a reason that waits for staff.       *)
LossesWaitForStaff ==
  \A r \in pending : r.op \in {"lose", "sweep"} => r.reason \in StaffDecisionErrors

PrintInvariant == TypeOK /\ LossesWaitForStaff /\ \A j \in Jobs : PrintRules(j)
-----------------------------------------------------------------------------
(* The inductive invariant behind WorkingComputerKeepsJob: before the first    *)
(* attempt nothing takes the job away; while the computer that made it is well *)
(* nobody has decided to; and no heartbeat under way denies the job, unless it *)
(* left so near the claim that it arrives within the grace time.               *)
Losing(j) == \E r \in pending : r.op \in {"lose", "sweep"} /\ r.job = j

DeniedInTime(j) ==
  \A r \in pending :
    /\ r.op = "beat" /\ r.by = job[j].claimant /\ r.process = process[r.by] /\ j \notin r.flight
    => job[j].age = 0

ClaimIsSafe(j) ==
  /\ job[j].status = "printing" => job[j].attempts # 0
  /\ job[j].attempts = 0 => ~Losing(j)
  /\ steady[j] => Attended(j) /\ DeniedInTime(j)
  /\ steady[j] /\ job[j].attempts = 1 => ~Losing(j)
================================================================================
