--------------------------- MODULE JobStateMachine ---------------------------
(***************************************************************************)
(* The life of a print order as packages/shared/src/stateMachine.ts states *)
(* it: a table of events, and the promise that no status is ever written   *)
(* other than through that table.  The detailed modules (PrintDispatch,    *)
(* CounterQueue) are shown to implement this one.                          *)
(***************************************************************************)
CONSTANT Jobs

VARIABLE status          \* status[j]: the column Job.status

LiveStatuses == {"awaiting_arrival", "queued", "notified", "no_show", "requeued"}

Statuses == LiveStatuses \cup
  {"pending_payment", "otp_verified", "printing", "finishing",
   "ready_for_pickup", "completed", "expired", "cancelled"}

(* TRANSITIONS, one triple <<from, event, to>> per entry of the table. *)
Transitions ==
  {<<"pending_payment", e, "awaiting_arrival">> :
       e \in {"PAYMENT_CONFIRMED", "CASH_SELECTED"}}
  \cup {<<s, "ARRIVED", "queued">> : s \in {"awaiting_arrival", "no_show", "requeued"}}
  \cup {<<s, "COUNTER_RELEASE", "otp_verified">> : s \in LiveStatuses}
  \cup {<<s, "QUEUE_SKIPPED", "awaiting_arrival">> : s \in LiveStatuses \ {"awaiting_arrival"}}
  \cup {<<s, "CANCEL", "cancelled">> :
       s \in {"pending_payment", "awaiting_arrival", "queued", "notified"}}
  \cup {<<"otp_verified", e, "cancelled">> :
       e \in {"CASH_RETURNED", "COUNTER_PAYMENT_RETURNED"}}
  \cup {<<"queued", "FRONT_REACHED", "notified">>,
        <<"notified", "OTP_VERIFIED", "otp_verified">>,
        <<"otp_verified", "PRINT_STARTED", "printing">>,
        <<"printing", "PRINT_COMPLETED", "ready_for_pickup">>,
        <<"printing", "FINISHING_REQUIRED", "finishing">>,
        <<"printing", "PRINT_FAILED", "otp_verified">>,
        <<"finishing", "FINISHING_COMPLETED", "ready_for_pickup">>,
        <<"ready_for_pickup", "HANDED_OVER", "completed">>}

(* Some event of the table leads from one status to the other. *)
Leads(from, to) == \E t \in Transitions : t[1] = from /\ t[3] = to

(* An order that has not been released at the counter yet. *)
Init == status \in [Jobs -> LiveStatuses \cup {"pending_payment"}]

Advance(j) ==
  \E to \in Statuses :
    /\ status' = [status EXCEPT ![j] = to]
    /\ Leads(status[j], to)

Next == \E j \in Jobs : Advance(j)

Spec == Init /\ [][Next]_status
==============================================================================
