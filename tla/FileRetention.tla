---------------------------- MODULE FileRetention ----------------------------
(***************************************************************************)
(* The life of an uploaded file beside the orders made from it: upload,    *)
(* conversion by a queue that delivers at least once, the two deletion     *)
(* clocks, and the sweeper and delayed jobs that delete due content.       *)
(* Every handler reads a row, talks to the object store and then writes    *)
(* by id, so what it writes may be about a row that has changed.           *)
(***************************************************************************)
EXTENDS OrderCreation

CONSTANTS
  Attempts,   \* bound: the conversion attempts 1 .. n of a file
  Retention,  \* FILE_UNPRINTED_RETENTION_MINUTES: over ten minutes (2) or not (1)
  Deleters,   \* sweepers and delayed deletion jobs at work at once
  MaxCalls    \* bound: calls of scheduleEarlierDeletion under way

ASSUME RetentionAssumption ==
  Attempts \subseteq Nat \ {0} /\ Retention \in 1 .. 2 /\ MaxCalls \in Nat

VARIABLES
  objects,    \* the object store: <<f, 0>> is the upload, <<f, n>> a converted PDF
  conv,       \* conv[f][n]: how far the n-th conversion of the file is
  clock,      \* calls of scheduleEarlierDeletion under way
  del,        \* del[d]: the file a deleter works on
  disturbed   \* history: files whose conversion died half-way or met another writer

retention == <<objects, conv, clock, del, disturbed>>
vars == <<creation, file, retention>>

-----------------------------------------------------------------------------
(* Data. *)

(* due: deleteAfter lies more than ten minutes ahead (2), at most ten minutes *)
(* ahead (1), in the past (0).  scheduled: deletionScheduledAt is set.        *)
(* queued: the convert job was enqueued.                                      *)
FileRows ==
  [status: {"none", "stored", "uploaded", "converting", "ready", "failed", "deleted"},
   converted: Attempts \cup {0}, due: 0 .. 2, scheduled: BOOLEAN, queued: BOOLEAN]

ConvSteps == {"idle", "started", "working", "stored", "retry", "done"}
Converting(f, n) == conv[f][n] \in {"started", "working", "stored"}
ConversionRuns(f) == \E n \in Attempts : Converting(f, n)

ClockCalls == [file: Files, step: {"called", "checked"}, at: 0 .. 1]

(* What the store can hold: the upload of a file, its converted documents.    *)
Objects == Files \X (Attempts \cup {0})

Idle == [file |-> None, step |-> "idle", keys |-> {}]
Deleting(f) == \E d \in Deleters : del[d].file = f

RowExists(f) == file[f].status \notin {"none", "stored"}
HasContent(f) == RowExists(f) /\ file[f].status # "deleted"

(* Fault: the converted document is forgotten. *)
KeysOfUpload(f) == {<<f, 0>>}

KeysForDeletion(f) == {<<f, 0>>} \cup ({<<f, file[f].converted>>} \ {<<f, 0>>})

-----------------------------------------------------------------------------
Init ==
  /\ CreationInit
  /\ file = [f \in Files |-> [status |-> "none", converted |-> 0, due |-> Retention,
                              scheduled |-> FALSE, queued |-> FALSE]]
  /\ objects = {}
  /\ conv = [f \in Files |-> [n \in Attempts |-> "idle"]]
  /\ clock = {}
  /\ del = [d \in Deleters |-> Idle]
  /\ disturbed = {}

(* POST /files: store the sources, create the row, enqueue the conversion.    *)
StoreUpload(f) ==
  /\ file[f].status = "none"
  /\ objects' = objects \cup {<<f, 0>>}
  /\ file' = [file EXCEPT ![f].status = "stored"]
  /\ UNCHANGED <<creation, conv, clock, del, disturbed>>

CreateFileRow(f) ==
  /\ file[f].status = "stored"
  /\ file' = [file EXCEPT ![f].status = "uploaded"]
  /\ UNCHANGED <<creation, retention>>

EnqueueConversion(f) ==
  /\ RowExists(f) /\ ~file[f].queued
  /\ file' = [file EXCEPT ![f].queued = TRUE]
  /\ UNCHANGED <<creation, retention>>

-----------------------------------------------------------------------------
(* convertFile. *)

(* The queue delivers the job: at first, again after a failure worth a retry  *)
(* or a dead worker, and again while a stalled worker still runs.             *)
Delivered(f, n) ==
  /\ file[f].queued
  /\ conv[f][n] = "idle"
  /\ \A m \in Attempts : m < n => conv[f][m] = "retry" \/ Converting(f, m)

StartConversion(f, n) ==
  /\ Delivered(f, n)
  /\ conv' = [conv EXCEPT ![f][n] = IF file[f].status = "deleted" THEN "done" ELSE "started"]
  /\ disturbed' = IF ConversionRuns(f) \/ file[f].converted # 0 \/ Deleting(f)
                  THEN disturbed \cup {f} ELSE disturbed
  /\ UNCHANGED <<creation, file, objects, clock, del>>

MarkConverting(f, n) ==
  /\ conv[f][n] = "started"
  /\ conv' = [conv EXCEPT ![f][n] = "working"]
  /\ file' = [file EXCEPT ![f].status = "converting"]
  /\ UNCHANGED <<creation, objects, clock, del, disturbed>>

StoreConverted(f, n) ==
  /\ conv[f][n] = "working"
  /\ <<f, 0>> \in objects
  /\ objects' = objects \cup {<<f, n>>}
  /\ conv' = [conv EXCEPT ![f][n] = "stored"]
  /\ UNCHANGED <<creation, file, clock, del, disturbed>>

MarkReady(f, n) ==
  /\ conv[f][n] = "stored"
  /\ conv' = [conv EXCEPT ![f][n] = "done"]
  /\ file' = [file EXCEPT ![f].status = "ready", ![f].converted = n]
  /\ UNCHANGED <<creation, objects, clock, del, disturbed>>

(* Any error, a missing source among them; only transient ones are retried.   *)
ConversionFails(f, n) ==
  /\ conv[f][n] \in {"working", "stored"}
  /\ \E to \in {"retry", "done"} : conv' = [conv EXCEPT ![f][n] = to]
  /\ file' = [file EXCEPT ![f].status = "failed"]
  /\ disturbed' = IF conv[f][n] = "stored" THEN disturbed \cup {f} ELSE disturbed
  /\ UNCHANGED <<creation, objects, clock, del>>

ConversionDies(f, n) ==
  /\ Converting(f, n)
  /\ conv' = [conv EXCEPT ![f][n] = "retry"]
  /\ disturbed' = IF conv[f][n] = "stored" THEN disturbed \cup {f} ELSE disturbed
  /\ UNCHANGED <<creation, file, objects, clock, del>>

-----------------------------------------------------------------------------
(* The orders end, and the short clock is asked for in the background.        *)

Call(f, at) ==
  /\ Cardinality(clock) < MaxCalls
  /\ clock' = clock \cup {[file |-> f, step |-> "called", at |-> at]}

(* Cancelled by the student, closed unused, or the payment returned.          *)
EndOrder(r) ==
  /\ Active(r)
  /\ order' = [order EXCEPT ![r].status = "ended"]
  /\ Call(FileFor(r), 1) \/ UNCHANGED clock
  /\ UNCHANGED <<page, req, idem, lock, slipped, forgotten,
                 lost, faults, file, objects, conv, del, disturbed>>

(* confirmSuccessfulPrint. *)
PrintOrder(r) ==
  /\ order[r].status = "live"
  /\ order' = [order EXCEPT ![r].status = "printed"]
  /\ Call(FileFor(r), 1) \/ UNCHANGED clock
  /\ UNCHANGED <<page, req, idem, lock, slipped, forgotten,
                 lost, faults, file, objects, conv, del, disturbed>>

(* reconcileFileDeletionSchedules counts the ten minutes from the end of the  *)
(* order, which may be long ago.                                              *)
Reconcile(f) ==
  /\ HasContent(f)
  /\ \E r \in OrdersOn(f) : order[r].status \in {"printed", "ended"}
  /\ \E at \in 0 .. 1 : Call(f, at)
  /\ UNCHANGED <<creation, file, objects, conv, del, disturbed>>

(* scheduleEarlierDeletion: is an order active, and then the guarded UPDATE.  *)
CheckActive(c) ==
  /\ c \in clock /\ c.step = "called"
  /\ clock' = (clock \ {c}) \cup
       (IF HasActiveOrder(c.file) THEN {} ELSE {[c EXCEPT !.step = "checked"]})
  /\ UNCHANGED <<creation, file, objects, conv, del, disturbed>>

StartClock(c) ==
  /\ c \in clock /\ c.step = "checked"
  /\ clock' = clock \ {c}
  /\ file' = IF file[c.file].status # "deleted" /\ file[c.file].due > c.at
              THEN [file EXCEPT ![c.file].due = c.at, ![c.file].scheduled = TRUE] ELSE file
  /\ UNCHANGED <<creation, objects, conv, del, disturbed>>

ClockCallDies(c) ==
  /\ c \in clock
  /\ clock' = clock \ {c}
  /\ UNCHANGED <<creation, file, objects, conv, del, disturbed>>

TimePasses(f) ==
  /\ RowExists(f) /\ file[f].due > 0
  /\ file' = [file EXCEPT ![f].due = @ - 1]
  /\ UNCHANGED <<creation, retention>>

-----------------------------------------------------------------------------
(* deleteDueFile, from a delayed job or from the batch of the minute sweep.   *)

(* A due file with an active order is deferred: the row only counts attempts. *)
NoOrderNeeds(f) == ~HasActiveOrder(f)

(* Fault: only documents that could be printed are swept. *)
DueReady(f) == file[f].status = "ready" /\ file[f].due = 0 /\ NoOrderNeeds(f)

(* What a delayed deletion job looks at; otherwise it comes to nothing.       *)
IsDue(f) == HasContent(f) /\ file[f].due = 0

Due(f) == IsDue(f) /\ NoOrderNeeds(f)

PickDue(d, f) ==
  /\ del[d] = Idle
  /\ Due(f)
  /\ del' = [del EXCEPT ![d] = [file |-> f, step |-> "erase", keys |-> KeysForDeletion(f)]]
  /\ disturbed' = IF ConversionRuns(f) THEN disturbed \cup {f} ELSE disturbed
  /\ UNCHANGED <<creation, file, objects, conv, clock>>

Erase(d) ==
  /\ del[d].step = "erase"
  /\ objects' = objects \ del[d].keys
  /\ del' = [del EXCEPT ![d].step = "mark"]
  /\ UNCHANGED <<creation, file, conv, clock, disturbed>>

(* The store fails half-way, or the process dies; a later sweep begins anew.  *)
DeletionFails(d) ==
  /\ del[d] # Idle
  /\ \E gone \in SUBSET del[d].keys :
       /\ del[d].step = "mark" => gone = {}
       /\ objects' = objects \ gone
  /\ del' = [del EXCEPT ![d] = Idle]
  /\ UNCHANGED <<creation, file, conv, clock, disturbed>>

MarkDeleted(d) ==
  /\ del[d].step = "mark"
  /\ file' = [file EXCEPT ![del[d].file].status = "deleted", ![del[d].file].converted = 0]
  /\ del' = [del EXCEPT ![d] = Idle]
  /\ UNCHANGED <<creation, objects, conv, clock, disturbed>>

-----------------------------------------------------------------------------
FileNext ==
  \/ \E f \in Files :
       \/ StoreUpload(f) \/ CreateFileRow(f) \/ EnqueueConversion(f)
       \/ Reconcile(f) \/ TimePasses(f)
       \/ \E n \in Attempts :
            \/ StartConversion(f, n) \/ MarkConverting(f, n) \/ StoreConverted(f, n)
            \/ MarkReady(f, n) \/ ConversionFails(f, n) \/ ConversionDies(f, n)
       \/ \E d \in Deleters : PickDue(d, f)
  \/ \E r \in Requests : EndOrder(r) \/ PrintOrder(r)
  \/ \E c \in clock : CheckActive(c) \/ StartClock(c) \/ ClockCallDies(c)
  \/ \E d \in Deleters : Erase(d) \/ DeletionFails(d) \/ MarkDeleted(d)

Next == FileNext \/ (CreationNext /\ UNCHANGED <<file, retention>>)

Spec == Init /\ [][Next]_vars

(* The sweep repeats every minute, and neither the object store nor the       *)
(* worker fails it every time.                                                *)
Fairness ==
  /\ \A f \in Files : WF_vars(TimePasses(f)) /\ SF_vars(\E d \in Deleters : PickDue(d, f))
  /\ \A d \in Deleters : SF_vars(Erase(d)) /\ SF_vars(MarkDeleted(d))

-----------------------------------------------------------------------------
DeleterRows == [file: Files \cup {None}, step: {"idle", "erase", "mark"}, keys: SUBSET Objects]

RetentionTypeOK ==
  /\ file \in [Files -> FileRows]
  /\ objects \subseteq Objects
  /\ conv \in [Files -> [Attempts -> ConvSteps]]
  /\ clock \subseteq ClockCalls
  /\ del \in [Deleters -> DeleterRows]
  /\ disturbed \subseteq Files

TypeOK == CreationTypeOK /\ RetentionTypeOK

(* One file never backs two live orders: not as long as the lock is kept, and *)
(* not even without it unless the younger order was committed first           *)
(* (jobs/routes.ts:237-253).                                                  *)
CommittedOutOfTurn(r, s) ==
  (order[r].stamp < order[s].stamp) # (order[r].seq < order[s].seq)

OneLiveOrder ==
  \A f \in Files : \A r, s \in OrdersOn(f) :
    r # s /\ Active(r) /\ Active(s) =>
      /\ {r, s} \cap slipped # {}
      /\ order[r].checked /\ order[s].checked => CommittedOutOfTurn(r, s)

(* What the comment of payAndQueue promises (NewJob.tsx:214): after a network  *)
(* failure a retry of the form makes no second order beside the first, while   *)
(* Redis keeps the entry of the first one's key.  Both have passed the check   *)
(* for a rival, so neither will be withdrawn.                                  *)
RetryMakesNoSecondOrder ==
  \A r \in lost, s \in Requests :
    s # r /\ Sent(s) /\ req[s].page = req[r].page /\ Active(r) /\ Active(s)
      => KeyOf(r) \in forgotten \/ ~order[r].checked \/ ~order[s].checked

(* What "deleted" promises: neither the upload nor a converted document is    *)
(* left in the store, except for a file whose conversion was torn             *)
(* (conversion.ts:195-208, 239-257).                                          *)
NothingLeftBehind ==
  \A f \in Files \ disturbed :
    file[f].status = "deleted" /\ ~Deleting(f) => ~\E o \in objects : o[1] = f

(* Every file that no order needs is deleted in the end and stays deleted,    *)
(* also when a late conversion wrote the row back (conversion.ts:270-305).    *)
FileGoneForGood ==
  \A f \in Files :
    <>[](RowExists(f) /\ ~HasActiveOrder(f)) => <>[](file[f].status = "deleted")
==============================================================================
