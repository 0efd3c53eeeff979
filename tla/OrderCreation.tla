---------------------------- MODULE OrderCreation ----------------------------
(***************************************************************************)
(* How the order form (apps/web NewJob) and POST /jobs turn an uploaded    *)
(* file into at most one live order: an idempotency key and a lock in      *)
(* Redis, both of which expire and fail open; a read of the file and its   *)
(* orders; an INSERT; and a check for an older rival after it.             *)
(*                                                                         *)
(* The module has no specification of its own: FileRetention composes it   *)
(* with what happens to the file.                                          *)
(***************************************************************************)
EXTENDS Integers, FiniteSets

CONSTANTS
  Files,      \* uploads of one student each
  Pages,      \* order forms open on screens, each for one file
  FileOf,     \* FileOf[p]: the file of the form
  MaxRequests, \* bound: POST /jobs requests, numbered as they are sent
  MaxLost,    \* bound: answers the network loses
  MaxFaults,  \* bound: failures, deaths, and entries that expire in use
  None

ASSUME CreationAssumption ==
  /\ FileOf \in [Pages -> Files]
  /\ MaxRequests \in Nat
  /\ None \notin 1 .. MaxRequests
  /\ MaxLost \in Nat /\ MaxFaults \in Nat

VARIABLES
  page,       \* page[p]: idemKey.current as a number, the request it waits for, left
  req,        \* req[r]: how far the handler of the request is
  order,      \* order[r]: the Job row the request inserted
  idem,       \* idem[k]: the Redis entry of an idempotency key
  lock,       \* lock[f]: the Redis lock, as the request that set it
  file,       \* the columns of UploadedFile
  slipped,    \* history: requests that ran without the lock they believe they hold
  forgotten,  \* history: keys whose entry was not there or was not theirs
  lost,       \* history: requests whose answer the network lost
  faults      \* history: the number of faults

creation == <<page, req, order, idem, lock, slipped, forgotten, lost, faults>>

-----------------------------------------------------------------------------
(* Data. *)

Requests == 1 .. MaxRequests
Rank == 0 .. MaxRequests
Keys == Pages \X (1 .. MaxRequests + 1)

Steps == {"unsent", "sent", "lock", "read", "insert", "commit", "check", "withdraw",
          "allocate", "complete", "release", "unlock", "done"}

(* A Job row.  pending: pending_payment.  live: awaiting_arrival to printing. *)
(* printed: finishing to completed.  ended: cancelled or expired.  stamp:     *)
(* createdAt.  seq: the order of commits, and checked: its rival check found  *)
(* nobody; both are history.  A withdrawn row keeps them.                     *)
ActiveStatuses == {"pending", "live"}
Inserted == ActiveStatuses \cup {"printed", "ended"}

Orders ==
  [status: Inserted \cup {"none", "stamped", "withdrawn"},
   stamp: Rank, seq: Rank, checked: BOOLEAN]

(* The Redis entry of a key: the request is under way, or made this order.    *)
IdempotencyEntries == [state: {"pending", "order"}, by: Requests]

ASSUME NoneAssumption == None \notin Files /\ None \notin IdempotencyEntries

NoOrder == [status |-> "none", stamp |-> 0, seq |-> 0, checked |-> FALSE]

KeyOf(r) == req[r].key
FileFor(r) == FileOf[req[r].page]
Sent(r) == req[r].step # "unsent"
Running(r) == req[r].step \notin {"unsent", "done"}

OrdersOn(f) == {r \in Requests : Sent(r) /\ FileFor(r) = f}
Active(r) == order[r].status \in ActiveStatuses
HasActiveOrder(f) == \E r \in OrdersOn(f) : Active(r)
Printed(f) == \E r \in OrdersOn(f) : order[r].status = "printed"

NextStamp == 1 + Cardinality({r \in Requests : order[r].stamp # 0})
NextSeq == 1 + Cardinality({r \in Requests : order[r].seq # 0})

Goto(r, step) == req' = [req EXCEPT ![r].step = step]

Fault == faults < MaxFaults /\ faults' = faults + 1

Lose(r) == Cardinality(lost) < MaxLost /\ lost' = lost \cup {r}

(* The client gets an answer: an order ends the form, and a refusal starts a  *)
(* new attempt with a new key (NewJob.payAndQueue).  An order whose body is   *)
(* lost on the way leaves the form with its key.                              *)
Answered(r, ok) ==
  LET p == req[r].page
  IN  IF page[p].awaits # r THEN UNCHANGED <<page, lost>>
      ELSE IF ok THEN
        \/ page' = [page EXCEPT ![p].awaits = None, ![p].left = TRUE] /\ UNCHANGED lost
        \/ page' = [page EXCEPT ![p].awaits = None] /\ Lose(r)
      ELSE page' = [page EXCEPT ![p].awaits = None, ![p].attempt = @ + 1] /\ UNCHANGED lost

(* releaseIdempotency: DEL, whoever set the entry. *)
ReleaseKey(r) ==
  /\ idem' = [idem EXCEPT ![KeyOf(r)] = None]
  /\ forgotten' = IF idem[KeyOf(r)] = [state |-> "pending", by |-> r] THEN forgotten
                  ELSE forgotten \cup {KeyOf(r)}

CreationTypeOK ==
  /\ page \in [Pages -> [attempt: 1 .. MaxRequests + 1,
                         awaits: Requests \cup {None}, left: BOOLEAN]]
  /\ req \in [Requests -> [step: Steps, page: Pages \cup {None},
                           key: Keys \cup {None}, ok: BOOLEAN]]
  /\ \A r \in Requests : Sent(r) => req[r].page \in Pages /\ req[r].key \in Keys
  /\ order \in [Requests -> Orders]
  /\ idem \in [Keys -> {None} \cup IdempotencyEntries]
  /\ lock \in [Files -> Requests \cup {None}]
  /\ slipped \subseteq Requests /\ forgotten \subseteq Keys
  /\ lost \subseteq Requests /\ faults \in 0 .. MaxFaults

-----------------------------------------------------------------------------
(* The form. *)

CreationInit ==
  /\ page = [p \in Pages |-> [attempt |-> 1, awaits |-> None, left |-> FALSE]]
  /\ req = [r \in Requests |->
              [step |-> "unsent", page |-> None, key |-> None, ok |-> FALSE]]
  /\ order = [r \in Requests |-> NoOrder]
  /\ idem = [k \in Keys |-> None]
  /\ lock = [f \in Files |-> None]
  /\ slipped = {}
  /\ forgotten = {}
  /\ lost = {} /\ faults = 0

Submit(p, r) ==
  /\ ~page[p].left /\ page[p].awaits = None
  /\ ~Sent(r) /\ \A s \in Requests : s < r => Sent(s)
  /\ page' = [page EXCEPT ![p].awaits = r]
  /\ req' = [req EXCEPT ![r] =
       [step |-> "sent", page |-> p, key |-> <<p, page[p].attempt>>, ok |-> FALSE]]
  /\ UNCHANGED <<lost, order, idem, lock, slipped, forgotten, faults>>

(* A network failure reaches the form as an ApiError like any other: it draws *)
(* a new key, and the server goes on.                                         *)
AnswerLost(p) ==
  /\ page[p].awaits # None
  /\ Lose(page[p].awaits)
  /\ page' = [page EXCEPT ![p].awaits = None, ![p].attempt = @ + 1]
  /\ UNCHANGED <<req, order, idem, lock, slipped, forgotten, faults>>

-----------------------------------------------------------------------------
(* POST /jobs. *)

(* claimIdempotency: SET NX, then GET.  Without Redis the request goes on. *)
ClaimKey(r) ==
  /\ req[r].step = "sent"
  /\ idem[KeyOf(r)] = None
  /\ idem' = [idem EXCEPT ![KeyOf(r)] = [state |-> "pending", by |-> r]]
  /\ Goto(r, "lock")
  /\ UNCHANGED <<page, lost, order, lock, slipped, forgotten, faults>>

ClaimFailsOpen(r) ==
  /\ Fault
  /\ req[r].step = "sent"
  /\ forgotten' = forgotten \cup {KeyOf(r)}
  /\ Goto(r, "lock")
  /\ UNCHANGED <<page, lost, order, idem, lock, slipped>>

(* A repeat: the stored order, or a conflict while the first attempt runs. *)
Repeat(r) ==
  /\ req[r].step = "sent"
  /\ idem[KeyOf(r)] # None
  /\ Goto(r, "done")
  /\ Answered(r, idem[KeyOf(r)].state = "order")
  /\ UNCHANGED <<order, idem, lock, slipped, forgotten, faults>>

TakeLock(r) ==
  /\ req[r].step = "lock"
  /\ lock[FileFor(r)] = None
  /\ lock' = [lock EXCEPT ![FileFor(r)] = r]
  /\ Goto(r, "read")
  /\ UNCHANGED <<page, lost, order, idem, slipped, forgotten, faults>>

LockFailsOpen(r) ==
  /\ Fault
  /\ req[r].step = "lock"
  /\ slipped' = slipped \cup {r}
  /\ Goto(r, "read")
  /\ UNCHANGED <<page, lost, order, idem, lock, forgotten>>

LockBusy(r) ==
  /\ req[r].step = "lock"
  /\ lock[FileFor(r)] # None
  /\ ReleaseKey(r)
  /\ Goto(r, "done")
  /\ Answered(r, FALSE)
  /\ UNCHANGED <<order, lock, slipped, faults>>

(* Fault: the rival check alone is trusted. *)
AnyReadyFile(f) == file[f].status = "ready" /\ ~file[f].scheduled /\ ~Printed(f)

(* createPreparedJob: the file must be ready, without a deletion clock, never *)
(* printed and without an active order.                                       *)
MayBackNewJob(f) ==
  /\ file[f].status = "ready"
  /\ ~file[f].scheduled
  /\ ~HasActiveOrder(f)
  /\ ~Printed(f)

ReadFile(r) ==
  /\ req[r].step = "read"
  /\ Goto(r, IF MayBackNewJob(FileFor(r)) THEN "insert" ELSE "release")
  /\ UNCHANGED <<page, lost, order, idem, lock, slipped, forgotten, faults>>

(* createdAt is taken when the INSERT starts ... *)
Stamp(r) ==
  /\ req[r].step = "insert"
  /\ order' = [order EXCEPT ![r].status = "stamped", ![r].stamp = NextStamp]
  /\ Goto(r, "commit")
  /\ UNCHANGED <<page, lost, idem, lock, slipped, forgotten, faults>>

(* ... and the row is there for others when it commits. *)
Commit(r) ==
  /\ req[r].step = "commit"
  /\ order' = [order EXCEPT ![r].status = "pending",
                            ![r].seq = NextSeq]
  /\ Goto(r, "check")
  /\ UNCHANGED <<page, lost, idem, lock, slipped, forgotten, faults>>

(* An order of the file that is older than this one. *)
Rivals(r) ==
  {v \in OrdersOn(FileFor(r)) \ {r} : Active(v) /\ order[v].stamp < order[r].stamp}

CheckRivals(r) ==
  /\ req[r].step = "check"
  /\ Goto(r, IF Rivals(r) = {} THEN "allocate" ELSE "withdraw")
  /\ order' = [order EXCEPT ![r].checked = Rivals(r) = {}]
  /\ UNCHANGED <<page, lost, idem, lock, slipped, forgotten, faults>>

Withdraw(r) ==
  /\ req[r].step = "withdraw"
  /\ order' = [order EXCEPT ![r].status = "withdrawn"]
  /\ Goto(r, "release")
  /\ UNCHANGED <<page, lost, idem, lock, slipped, forgotten, faults>>

(* allocatePayAtShopCode; an order cancelled meanwhile stays cancelled. *)
Allocate(r) ==
  /\ req[r].step = "allocate"
  /\ order' = [order EXCEPT ![r].status = IF @ = "pending" THEN "live" ELSE @]
  /\ Goto(r, "complete")
  /\ UNCHANGED <<page, lost, idem, lock, slipped, forgotten, faults>>

(* completeIdempotency, whose failure is swallowed, and the answer. *)
Complete(r) ==
  /\ req[r].step = "complete"
  /\ \/ idem' = [idem EXCEPT ![KeyOf(r)] = [state |-> "order", by |-> r]]
     \/ UNCHANGED idem
  /\ req' = [req EXCEPT ![r].step = "unlock", ![r].ok = TRUE]
  /\ Answered(r, TRUE)
  /\ UNCHANGED <<order, lock, slipped, forgotten, faults>>

(* Any await of createPreparedJob may throw. *)
Fail(r) ==
  /\ Fault
  /\ req[r].step \in {"read", "insert", "check", "withdraw", "allocate"}
  /\ Goto(r, "release")
  /\ UNCHANGED <<page, lost, order, idem, lock, slipped, forgotten>>

Release(r) ==
  /\ req[r].step = "release"
  /\ \/ ReleaseKey(r)
     \/ UNCHANGED <<idem, forgotten>>
  /\ Goto(r, "unlock")
  /\ UNCHANGED <<page, lost, order, lock, slipped, faults>>

(* finally: DEL of the lock, whoever holds it by now; its failure is swallowed. *)
Unlocked(r) ==
  /\ lock' = [lock EXCEPT ![FileFor(r)] = None]
  /\ slipped' = slipped \cup ({lock[FileFor(r)]} \ {None, r})

Unlock(r) ==
  /\ req[r].step = "unlock"
  /\ Unlocked(r) \/ UNCHANGED <<lock, slipped>>
  /\ Goto(r, "done")
  /\ IF req[r].ok THEN UNCHANGED <<page, lost>> ELSE Answered(r, FALSE)
  /\ UNCHANGED <<order, idem, forgotten, faults>>

(* The server process dies; an INSERT under way may still commit. *)
Crash(r) ==
  /\ Fault
  /\ Running(r)
  /\ Goto(r, "done")
  /\ \/ UNCHANGED order
     \/ /\ req[r].step = "commit"
        /\ order' = [order EXCEPT ![r].status = "pending",
                                  ![r].seq = NextSeq]
  /\ UNCHANGED <<page, lost, idem, lock, slipped, forgotten>>

-----------------------------------------------------------------------------
(* Redis forgets: LOCK_TTL_S, IDEM_TTL_S. *)

LockExpires(f) ==
  /\ lock[f] # None
  /\ lock' = [lock EXCEPT ![f] = None]
  /\ IF Running(lock[f]) THEN Fault /\ slipped' = slipped \cup {lock[f]}
                         ELSE UNCHANGED <<slipped, faults>>
  /\ UNCHANGED <<page, lost, req, order, idem, forgotten>>

KeyExpires(k) ==
  /\ Fault
  /\ idem[k] # None
  /\ idem' = [idem EXCEPT ![k] = None]
  /\ forgotten' = forgotten \cup {k}
  /\ UNCHANGED <<page, lost, req, order, lock, slipped>>

Handle(r) ==
  \/ ClaimKey(r) \/ ClaimFailsOpen(r) \/ Repeat(r)
  \/ TakeLock(r) \/ LockFailsOpen(r) \/ LockBusy(r)
  \/ ReadFile(r) \/ Stamp(r) \/ Commit(r) \/ CheckRivals(r) \/ Withdraw(r)
  \/ Allocate(r) \/ Complete(r) \/ Fail(r) \/ Release(r) \/ Unlock(r) \/ Crash(r)

CreationNext ==
  \/ \E p \in Pages : AnswerLost(p) \/ \E r \in Requests : Submit(p, r)
  \/ \E r \in Requests : Handle(r)
  \/ \E f \in Files : LockExpires(f)
  \/ \E k \in Keys : KeyExpires(k)
==============================================================================
