------------------------------ MODULE FeeLedger ------------------------------
(***************************************************************************)
(* The platform's fee account of one shop: commission entries posted after *)
(* verified prints, weekly statements frozen from them, payment orders at  *)
(* the provider, settlement from webhook, callback and reconciler, and the *)
(* block of a shop that does not pay.                                      *)
(*                                                                         *)
(* A transaction that starts with SELECT .. FROM "Shop" .. FOR UPDATE is   *)
(* one step, except the freeze: it is SERIALIZABLE, so it reads the state  *)
(* of the moment it began to wait for that lock.                           *)
(***************************************************************************)
EXTENDS Integers, Sequences, FiniteSets, Functions

CONSTANTS
  Prints,     \* pay-at-the-counter orders of the shop
  Commission, \* Commission[j]: deriveCommissionSnapshot of the order
  Refundable, \* bound: orders that support may refund
  MaxWeeks,   \* bound: weeks that end
  MaxOrders,  \* bound: payment orders, numbered as they are created
  MaxLifts,   \* bound: blocks lifted by support
  MaxSwitches, \* bound: deployments that switch fee payments on or off
  None

ASSUME LedgerAssumption ==
  /\ IsFiniteSet(Prints) /\ Commission \in [Prints -> Nat]
  /\ Refundable \subseteq Prints
  /\ MaxWeeks \in Nat /\ MaxOrders \in Nat /\ MaxLifts \in Nat /\ MaxSwitches \in Nat

VARIABLES
  posted,     \* posted[e]: the week an entry was created in; 0: there is none
  line,       \* line[e]: the statement that has the entry as a line; 0: none
  stmt,       \* stmt[w]: the statement of week w
  pay,        \* pay[o]: the ShopFeePayment row
  credits,    \* the settlement entries: paid orders in the order of paidAt
  alloc,      \* alloc[o][w]: ShopFeeAllocation.amountPaise
  captured,   \* orders the provider captured a payment for
  shop,       \* feeBlockedAt, feeBlockOverrideUntil and the lifts so far
  week,       \* the number of weeks that ended
  freeze,     \* the freeze under way and what it reads
  enabled,    \* FEE_PAYMENT_PROVIDER is not "disabled"
  switches

vars == <<posted, line, stmt, pay, credits, alloc, captured, shop, week,
          freeze, enabled, switches>>

books == <<posted, line, stmt, pay, credits, alloc>>

-----------------------------------------------------------------------------
(* Data. *)

Weeks == 1 .. MaxWeeks
FeeOrders == 1 .. MaxOrders

(* ShopCommissionEntry of the types print_commission and refund_credit. *)
Entries == {"print", "refund"} \X Prints

Amount == [e \in Entries |-> IF e[1] = "print" THEN Commission[e[2]] ELSE -Commission[e[2]]]
Total(entries) == SumFunctionOnSet(Amount, entries)

Posted == {e \in Entries : posted[e] # 0}
Unstatemented == {e \in Posted : line[e] = 0}

(* due: dueAt is not set, lies ahead, or the block date has passed. *)
NoStatement == [status |-> "none", amount |-> 0, paid |-> 0, due |-> "unset"]
Owing(w) == stmt[w].status = "frozen" /\ stmt[w].amount > 0
Outstanding(w) == stmt[w].amount - stmt[w].paid

(* created stands for attempted too, which nothing tells apart from it. *)
OpenStatuses == {"created", "failed"}
NoOrder == [status |-> "none", amount |-> 0, unallocated |-> 0, old |-> FALSE]

(* How much of a payment went to a statement. *)
Allocations == [FeeOrders -> [Weeks -> Nat]]
Unallocated == SumFunctionOnSet([o \in FeeOrders |-> pay[o].unallocated], FeeOrders)

Larger(a, b) == IF a > b THEN a ELSE b
Smaller(a, b) == IF a < b THEN a ELSE b

(* Spend an amount on a sequence of rooms, the first ones first. *)
Spend(amount, room) ==
  LET before(i) == SumFunctionOnSet(room, 1 .. i - 1)
  IN [i \in DOMAIN room |-> Smaller(room[i], Larger(0, amount - before(i)))]

Spent(share) == SumFunctionOnSet(share, DOMAIN share)

(* evaluateShopFeeBlockTx, for statements ss. *)
ShouldBlock(ss, override) ==
  /\ enabled /\ ~override
  /\ \E w \in Weeks : ss[w].status = "frozen" /\ ss[w].amount > ss[w].paid
                      /\ ss[w].due = "passed"

(* The shop row is written only when the block changes: a freeze that waits   *)
(* for it then fails to serialize.                                            *)
Evaluated(ss) ==
  /\ shop' = [shop EXCEPT !.blocked = ShouldBlock(ss, shop.override)]
  /\ freeze' = IF shop'.blocked = shop.blocked \/ freeze = None THEN freeze
               ELSE [freeze EXCEPT !.fails = TRUE]

-----------------------------------------------------------------------------
Init ==
  /\ posted = [e \in Entries |-> 0]
  /\ line = [e \in Entries |-> 0]
  /\ stmt = [w \in Weeks |-> NoStatement]
  /\ pay = [o \in FeeOrders |-> NoOrder]
  /\ credits = <<>>
  /\ alloc = [o \in FeeOrders |-> [w \in Weeks |-> 0]]
  /\ captured = {}
  /\ shop = [blocked |-> FALSE, override |-> FALSE, lifts |-> 0]
  /\ week = 0
  /\ freeze = None
  /\ enabled = FALSE
  /\ switches = 0

-----------------------------------------------------------------------------
(* Commission. *)

(* postVerifiedPrintCommission, an upsert, for an order that was paid at the  *)
(* counter and verified in the tray: at once or from the hourly repair.       *)
PostCommission(j) ==
  /\ posted[<<"print", j>>] = 0
  /\ posted' = [posted EXCEPT ![<<"print", j>>] = week + 1]
  /\ UNCHANGED <<line, stmt, pay, credits, alloc, captured, shop, week, freeze,
                 enabled, switches>>

(* Fault: the refund credits a commission nobody has posted yet. *)
RefundUnposted(j) ==
  /\ j \in Refundable /\ posted[<<"refund", j>>] = 0
  /\ posted' = [posted EXCEPT ![<<"refund", j>>] = week + 1]
  /\ UNCHANGED <<line, stmt, pay, credits, alloc, captured, shop, week, freeze,
                 enabled, switches>>

(* Support confirms that the student got the money back. *)
ConfirmCounterRefund(j) ==
  /\ j \in Refundable
  /\ posted[<<"print", j>>] # 0 /\ posted[<<"refund", j>>] = 0
  /\ posted' = [posted EXCEPT ![<<"refund", j>>] = week + 1]
  /\ UNCHANGED <<line, stmt, pay, credits, alloc, captured, shop, week, freeze,
                 enabled, switches>>

-----------------------------------------------------------------------------
(* Statements. *)

WeekEnds ==
  /\ week < MaxWeeks
  /\ week' = week + 1
  /\ UNCHANGED <<books, captured, shop, freeze, enabled, switches>>

(* freezeWeeklyCommissionStatement begins: what it will read is fixed here.   *)
BeginFreeze ==
  /\ freeze = None
  /\ week > 0 /\ stmt[week].status = "none"
  /\ freeze' = [prepaid |-> credits, fails |-> FALSE]
  /\ UNCHANGED <<books, captured, shop, week, enabled, switches>>

(* Nobody posted an entry since. *)
Freezable == {e \in Unstatemented : posted[e] <= week}

(* Its prepaid amounts: paid orders it can see, the first paid first. *)
PrepaidRoom == [i \in DOMAIN freeze.prepaid |-> pay[freeze.prepaid[i]].unallocated]

(* Fault: only the payment that was made first is written back. *)
PrepaidOfFirst(share) ==
  [o \in FeeOrders |->
     [pay[o] EXCEPT !.unallocated =
        @ - SumFunctionOnSet(share, {i \in DOMAIN share : i = 1 /\ freeze.prepaid[i] = o})]]

PrepaidUsed(share) ==
  [o \in FeeOrders |->
     [pay[o] EXCEPT !.unallocated =
        @ - SumFunctionOnSet(share, {i \in DOMAIN share : freeze.prepaid[i] = o})]]

(* It has the lock.  No entries, or more credit than commission: no statement. *)
Freeze ==
  /\ freeze # None /\ ~freeze.fails
  /\ Freezable # {} /\ Total(Freezable) >= 0
  /\ LET due == Total(Freezable)
         share == Spend(due, PrepaidRoom)
         paid == Spent(share)
     IN /\ stmt' = [stmt EXCEPT ![week] =
              [status |-> IF paid = due THEN "settled" ELSE "frozen",
               amount |-> due, paid |-> paid,
               due |-> IF due > 0 /\ enabled THEN "ahead" ELSE "unset"]]
        /\ line' = [e \in Entries |-> IF e \in Freezable THEN week ELSE line[e]]
        /\ pay' = PrepaidUsed(share)
        /\ alloc' = [o \in FeeOrders |-> [alloc[o] EXCEPT ![week] =
              @ + (pay[o].unallocated - PrepaidUsed(share)[o].unallocated)]]
  /\ freeze' = None
  /\ UNCHANGED <<posted, credits, captured, shop, week, enabled, switches>>

NothingFrozen ==
  /\ freeze # None
  /\ freeze' = None
  /\ UNCHANGED <<books, captured, shop, week, enabled, switches>>

DueDatePasses(w) ==
  /\ stmt[w].due = "ahead"
  /\ stmt' = [stmt EXCEPT ![w].due = "passed"]
  /\ UNCHANGED <<posted, line, pay, credits, alloc, captured, shop, week, freeze,
                 enabled, switches>>

-----------------------------------------------------------------------------
(* Payment orders and the provider. *)

StatementRoom == [w \in Weeks |-> IF Owing(w) THEN Outstanding(w) ELSE 0]

(* computeFeeAccount: statements and the running week, less what is prepaid.  *)
TotalDue ==
  SumFunctionOnSet(StatementRoom, Weeks) + Larger(0, Total(Unstatemented) - Unallocated)

NextOrder == 1 + Cardinality({o \in FeeOrders : pay[o].status # "none"})

(* createFeeOrder replaces the open orders, all but one of the same amount in  *)
(* its first hour, which it uses again.  The checks before it are Reconcile   *)
(* steps of their own.                                                         *)
CreateFeeOrder ==
  /\ enabled /\ TotalDue > 0
  /\ NextOrder \in FeeOrders
  /\ pay' = [o \in FeeOrders |->
       IF o = NextOrder THEN [NoOrder EXCEPT !.status = "created", !.amount = TotalDue]
       ELSE IF pay[o].status \in OpenStatuses THEN [pay[o] EXCEPT !.status = "expired"]
       ELSE pay[o]]
  /\ UNCHANGED <<posted, line, stmt, credits, alloc, captured, shop, week, freeze,
                 enabled, switches>>

(* The provider takes one payment for an order, after any number of attempts  *)
(* that fail, and whatever has become of the order: Checkout stays open in a  *)
(* tab.  An authorized payment is captured by the provider or by              *)
(* reconcileFeeOrder.                                                         *)
Capture(o) ==
  /\ pay[o].status # "none" /\ o \notin captured
  /\ captured' = captured \cup {o}
  /\ UNCHANGED <<books, shop, week, freeze, enabled, switches>>

(* markFeeAttemptFailed: the webhook of a failed attempt comes at any time.   *)
MarkFailed(o) ==
  /\ pay[o].status = "created"
  /\ pay' = [pay EXCEPT ![o].status = "failed"]
  /\ UNCHANGED <<posted, line, stmt, credits, alloc, captured, shop, week, freeze,
                 enabled, switches>>

(* settleFeePayment, for a captured payment of exactly the order's amount.    *)
Settled(o) ==
  /\ pay[o].status # "paid"
  /\ o \in captured
  /\ LET share == Spend(pay[o].amount, StatementRoom)
     IN /\ stmt' = [w \in Weeks |->
              IF share[w] = 0 THEN stmt[w]
              ELSE [stmt[w] EXCEPT !.paid = @ + share[w],
                      !.status = IF share[w] = Outstanding(w) THEN "settled" ELSE @]]
        /\ alloc' = [alloc EXCEPT ![o] = share]
        /\ pay' = [pay EXCEPT ![o].status = "paid",
                              ![o].unallocated = pay[o].amount - Spent(share)]
  /\ credits' = Append(credits, o)
  /\ Evaluated(stmt')

(* The webhook, as often and as late as the provider sends it.                *)
SettleFromWebhook(o) ==
  /\ Settled(o)
  /\ UNCHANGED <<posted, line, captured, week, enabled, switches>>

(* verifyFeeCheckout: the browser's callback makes the server ask the provider. *)
SettleFromCallback(o) ==
  /\ enabled
  /\ Settled(o)
  /\ UNCHANGED <<posted, line, captured, week, enabled, switches>>

(* Fault: replaced orders are not looked at again. *)
OpenAndStuck(o) == pay[o].status \in OpenStatuses /\ ~pay[o].old

(* reconcileStuckFeeOrders looks at orders until they are 48 hours old. *)
Stuck(o) == pay[o].status \in OpenStatuses \cup {"expired"} /\ ~pay[o].old

Reconcile(o) ==
  /\ enabled /\ Stuck(o)
  /\ Settled(o)
  /\ UNCHANGED <<posted, line, captured, week, enabled, switches>>

(* Past its hour an open order is closed. *)
ExpireOrder(o) ==
  /\ enabled /\ pay[o].status \in OpenStatuses
  /\ pay' = [pay EXCEPT ![o].status = "expired"]
  /\ UNCHANGED <<posted, line, stmt, credits, alloc, captured, shop, week, freeze,
                 enabled, switches>>

(* The sweep comes every five minutes: a captured payment it can see does not *)
(* wait for 48 hours.                                                         *)
GrowsOld(o) ==
  /\ pay[o].status \in OpenStatuses \cup {"expired"} /\ ~pay[o].old
  /\ o \notin captured
  /\ pay' = [pay EXCEPT ![o].old = TRUE]
  /\ UNCHANGED <<posted, line, stmt, credits, alloc, captured, shop, week, freeze,
                 enabled, switches>>

-----------------------------------------------------------------------------
(* Enforcement. *)

(* runFeeMaintenance gives statements of a time without payments a due date ... *)
AdoptStatements ==
  /\ enabled
  /\ \E w \in Weeks : Owing(w) /\ stmt[w].due = "unset"
  /\ stmt' = [w \in Weeks |-> IF Owing(w) /\ stmt[w].due = "unset"
                              THEN [stmt[w] EXCEPT !.due = "ahead"] ELSE stmt[w]]
  /\ UNCHANGED <<posted, line, pay, credits, alloc, captured, shop, week, freeze,
                 enabled, switches>>

(* Fault: only shops that are blocked are looked at. *)
EvaluateIfBlocked ==
  /\ shop.blocked
  /\ Evaluated(stmt)
  /\ UNCHANGED <<books, captured, week, enabled, switches>>

(* ... and evaluates the block of every shop that may need it.                *)
MayNeedEvaluation == shop.blocked \/ \E w \in Weeks : Owing(w)

EvaluateBlock ==
  /\ MayNeedEvaluation
  /\ Evaluated(stmt)
  /\ UNCHANGED <<books, captured, week, enabled, switches>>

LiftBlock ==
  /\ shop.blocked /\ shop.lifts < MaxLifts
  /\ shop' = [blocked |-> FALSE, override |-> TRUE, lifts |-> shop.lifts + 1]
  /\ freeze' = IF freeze = None THEN None ELSE [freeze EXCEPT !.fails = TRUE]
  /\ UNCHANGED <<books, captured, week, enabled, switches>>

OverrideEnds ==
  /\ shop.override
  /\ shop' = [shop EXCEPT !.override = FALSE]
  /\ UNCHANGED <<books, captured, week, freeze, enabled, switches>>

SwitchFees ==
  /\ switches < MaxSwitches /\ switches' = switches + 1
  /\ enabled' = ~enabled
  /\ UNCHANGED <<books, captured, shop, week, freeze>>

-----------------------------------------------------------------------------
(* While a freeze waits, the transactions ahead of it at the lock go on; any  *)
(* other step leaves alone what the freeze reads and writes, and may as well  *)
(* come after it.                                                             *)
Next ==
  \/ \E o \in FeeOrders : SettleFromWebhook(o) \/ SettleFromCallback(o) \/ Reconcile(o)
  \/ EvaluateBlock \/ LiftBlock
  \/ Freeze \/ NothingFrozen
  \/ /\ freeze = None
     /\ \/ \E j \in Prints : PostCommission(j) \/ ConfirmCounterRefund(j)
        \/ WeekEnds \/ BeginFreeze
        \/ \E w \in Weeks : DueDatePasses(w)
        \/ CreateFeeOrder
        \/ \E o \in FeeOrders : Capture(o) \/ MarkFailed(o) \/ ExpireOrder(o) \/ GrowsOld(o)
        \/ AdoptStatements \/ OverrideEnds \/ SwitchFees

Spec == Init /\ [][Next]_vars

(* The sweeps of the maintenance queue; a webhook may never come. *)
FairSpec ==
  /\ Spec
  /\ \A o \in FeeOrders : WF_vars(Reconcile(o))
  /\ WF_vars(EvaluateBlock)

-----------------------------------------------------------------------------
TypeOK ==
  /\ posted \in [Entries -> 0 .. MaxWeeks + 1]
  /\ line \in [Entries -> 0 .. MaxWeeks]
  /\ stmt \in [Weeks -> [status: {"none", "frozen", "settled"}, amount: Nat, paid: Nat,
                         due: {"unset", "ahead", "passed"}]]
  /\ pay \in [FeeOrders -> [status: OpenStatuses \cup {"none", "expired", "paid"},
                            amount: Nat, unallocated: Nat, old: BOOLEAN]]
  /\ credits \in Seq(FeeOrders)
  /\ alloc \in Allocations
  /\ captured \subseteq FeeOrders
  /\ shop \in [blocked: BOOLEAN, override: BOOLEAN, lifts: 0 .. MaxLifts]
  /\ week \in 0 .. MaxWeeks
  /\ freeze \in {None} \cup [prepaid: Seq(FeeOrders), fails: BOOLEAN]
  /\ enabled \in BOOLEAN /\ switches \in 0 .. MaxSwitches

(* The parts of a payment that went to statements and the one that did not    *)
(* make up the payment, and what statements got from payments is what they     *)
(* show as paid: three tables that no constraint of the database relates.      *)
AllocationsAddUp ==
  /\ \A o \in FeeOrders : pay[o].status = "paid" =>
       SumFunctionOnSet(alloc[o], Weeks) + pay[o].unallocated = pay[o].amount
  /\ \A w \in Weeks :
       SumFunctionOnSet([o \in FeeOrders |-> alloc[o][w]], FeeOrders) = stmt[w].paid

(* The account as three tables show it is the balance of the ledger: only a   *)
(* verified print, its refund and a captured payment move it, each once.      *)
AccountBalance ==
  Total(Unstatemented) - Unallocated
  + SumFunctionOnSet(
      [w \in Weeks |-> IF stmt[w].status = "none" THEN 0 ELSE Outstanding(w)], Weeks)

Balance == INSTANCE FeeBalance WITH
  Payments <- FeeOrders,
  price <- [o \in FeeOrders |-> pay[o].amount],
  balance <- AccountBalance,
  charged <- {j \in Prints : posted[<<"print", j>>] # 0},
  reversed <- {j \in Prints : posted[<<"refund", j>>] # 0},
  credited <- {credits[i] : i \in DOMAIN credits}

BooksBalance == Balance!Spec

(* A capture is credited even when no webhook ever comes, also on an order    *)
(* that was replaced or closed meanwhile, if it is made within two days       *)
(* (payments.ts:313-342).                                                     *)
EveryCaptureIsCredited ==
  \A o \in FeeOrders :
    (o \in captured /\ ~pay[o].old /\ enabled) ~> (pay[o].status = "paid" \/ ~enabled)

(* A shop whose statement stays unpaid past its block date is blocked in the  *)
(* end, and stays so, unless support or a deployment excuses it               *)
(* (enforcement.ts:144-176).                                                  *)
OverdueShopIsBlocked ==
  \A w \in Weeks :
    <>[](Owing(w) /\ stmt[w].due = "passed" /\ enabled /\ ~shop.override) => <>[]shop.blocked
===============================================================================
