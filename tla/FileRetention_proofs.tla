-------------------------- MODULE FileRetention_proofs --------------------------
(***************************************************************************)
(* For every number of files, forms, requests, conversions and deleters: a *)
(* file backs one live order by the lock, or without it by the check for   *)
(* older rivals; and what is marked deleted has left nothing in the store. *)
(***************************************************************************)
EXTENDS FileRetention, FiniteSetTheorems, TLAPS

-----------------------------------------------------------------------------
(* The inductive invariant. *)

(* Requests are numbered as they are sent, and a form's attempts are no more  *)
(* than the requests it sent.                                                 *)
FormCounts(p) ==
  /\ page[p].awaits = None =>
       page[p].attempt = 1 \/ (page[p].attempt - 1 \in Requests /\ Sent(page[p].attempt - 1))
  /\ page[p].awaits # None => Sent(page[p].awaits) /\ page[p].attempt <= page[p].awaits

FormsCount ==
  /\ \A r, s \in Requests : s < r /\ Sent(r) => Sent(s)
  /\ \A r \in Requests : Sent(r) => req[r].key \in Keys /\ req[r].key[1] = req[r].page
  /\ \A p \in Pages : FormCounts(p)

(* How far a row is goes with how far its request is. *)
RowsBegin ==
  \A r \in Requests :
    /\ req[r].step \in {"unsent", "sent", "lock", "read", "insert"} => order[r] = NoOrder
    /\ req[r].step = "commit" => order[r].status = "stamped" /\ order[r].seq = 0 /\ ~order[r].checked
    /\ Active(r) \/ order[r].status = "stamped" => order[r].stamp # 0

(* Stamps and commits are counted, and no two rows have the same stamp.       *)
Stamped == {r \in Requests : order[r].stamp # 0}
Committed == {r \in Requests : order[r].seq # 0}

RowsCounted ==
  /\ \A r \in Requests :
       order[r].stamp <= Cardinality(Stamped) /\ order[r].seq <= Cardinality(Committed)
  /\ \A r, s \in Requests :
       r # s /\ order[r].stamp # 0 => order[r].stamp # order[s].stamp

(* Between TakeLock and Unlock the lock is the request's own, unless it slipped. *)
Critical == {"read", "insert", "commit", "check", "withdraw", "allocate", "complete", "release", "unlock"}

LockIsHeld ==
  \A r \in Requests \ slipped : req[r].step \in Critical => lock[FileFor(r)] = r

(* Who read that the file is free finds it free of the others when it commits. *)
Inserting == {"insert", "commit"}

FreeForLock ==
  \A r \in Requests \ slipped : req[r].step \in Inserting =>
    \A s \in OrdersOn(FileFor(r)) \ slipped : s # r => ~Active(s)

OnePerLock ==
  \A f \in Files : \A r, s \in OrdersOn(f) \ slipped : r # s => ~(Active(r) /\ Active(s))

(* Who found no older rival was committed before every older row there is.    *)
CheckedFirst ==
  \A f \in Files : \A r, s \in OrdersOn(f) :
    Active(r) /\ Active(s) /\ order[s].checked /\ order[r].stamp < order[s].stamp
      => order[r].seq > order[s].seq

(* A file nobody disturbed: its content, and who works on it. *)
ContentOf(f) == {o \in objects : o[1] = f}

DeletersKnow ==
  \A d \in Deleters : del[d] # Idle =>
    /\ del[d].file \in Files /\ RowExists(del[d].file)
    /\ del[d].file \notin disturbed => 
         ContentOf(del[d].file) \subseteq (IF del[d].step = "erase" THEN del[d].keys ELSE {})

ConversionsKnow ==
  \A f \in Files \ disturbed :
    /\ \A n, m \in Attempts : Converting(f, n) /\ Converting(f, m) => n = m
    /\ ConversionRuns(f) => file[f].converted = 0 /\ ~Deleting(f) /\ HasContent(f)

ContentKnown ==
  \A f \in Files \ disturbed :
    /\ ContentOf(f) \subseteq {<<f, 0>>, <<f, file[f].converted>>}
                              \cup {<<f, n>> : n \in {m \in Attempts : conv[f][m] = "stored"}}
    /\ file[f].status = "deleted" => ContentOf(f) = {}

QueuedExist == \A f \in Files : file[f].queued \/ ConversionRuns(f) => RowExists(f)

OrdersInvariant ==
  /\ CreationTypeOK
  /\ FormsCount /\ RowsBegin /\ RowsCounted
  /\ LockIsHeld /\ FreeForLock /\ OnePerLock /\ CheckedFirst

FilesInvariant ==
  /\ RetentionTypeOK
  /\ DeletersKnow /\ ConversionsKnow /\ ContentKnown /\ QueuedExist

RetentionInvariant == OrdersInvariant /\ FilesInvariant

-----------------------------------------------------------------------------
(* What a step of a request leaves as it is. *)

RequestRows == [step: Steps, page: Pages \cup {None}, key: Keys \cup {None}, ok: BOOLEAN]

(* The other requests, and what every request is about. *)
OthersStay(r) ==
  /\ \A s \in Requests : s # r => req'[s] = req[s]
  /\ \A s \in Requests : req'[s].page = req[s].page /\ req'[s].key = req[s].key

(* A step of one request keeps its type and leaves the others alone. *)
LEMMA Moves ==
  ASSUME CreationTypeOK, NEW r \in Requests, NEW step \in Steps \ {"unsent"}, Sent(r),
         \/ Goto(r, step)
         \/ req' = [req EXCEPT ![r].step = step, ![r].ok = TRUE]
  PROVE  /\ OthersStay(r) /\ req'[r].step = step
         /\ req' \in [Requests -> RequestRows]
         /\ \A s \in Requests : Sent(s)' = Sent(s)
<1>1. req \in [Requests -> RequestRows] /\ req[r] \in RequestRows
  BY DEF CreationTypeOK, RequestRows
<1>2. /\ \A s \in Requests : s # r => req'[s] = req[s]
      /\ req'[r].page = req[r].page /\ req'[r].key = req[r].key /\ req'[r].step = step
      /\ req'[r] \in RequestRows
      /\ req' = [s \in Requests |-> req'[s]]
  BY <1>1 DEF Goto, RequestRows
<1> QED
  BY <1>1, <1>2 DEF OthersStay, Sent

(* Each statement of POST /jobs is a step of one request. *)
LEMMA Handled ==
  ASSUME CreationTypeOK, NEW r \in Requests, Handle(r)
  PROVE  /\ OthersStay(r) /\ Sent(r)
         /\ req' \in [Requests -> RequestRows]
         /\ \A s \in Requests : Sent(s)' = Sent(s)
<1>1. Sent(r)
  BY DEF Handle, ClaimKey, ClaimFailsOpen, Repeat, TakeLock, LockFailsOpen, LockBusy, ReadFile,
         Stamp, Commit, CheckRivals, Withdraw, Allocate, Complete, Fail, Release, Unlock, Crash,
         Sent, Running
<1>2. \E step \in Steps \ {"unsent"} :
        Goto(r, step) \/ req' = [req EXCEPT ![r].step = step, ![r].ok = TRUE]
  BY DEF Handle, ClaimKey, ClaimFailsOpen, Repeat, TakeLock, LockFailsOpen, LockBusy, ReadFile,
         Stamp, Commit, CheckRivals, Withdraw, Allocate, Complete, Fail, Release, Unlock, Crash, Steps
<1> QED
  BY <1>1, <1>2, Moves

(* Whom an order belongs to does not change. *)
LEMMA SameFiles ==
  ASSUME NEW r \in Requests, OthersStay(r), \A s \in Requests : Sent(s)' = Sent(s)
  PROVE  /\ \A s \in Requests : FileFor(s)' = FileFor(s)
         /\ \A f \in Files : OrdersOn(f)' = OrdersOn(f)
  BY DEF OthersStay, FileFor, OrdersOn
-----------------------------------------------------------------------------
(* Rows, and how they are counted. *)

(* Sets of requests are finite, and one more element counts one more. *)
LEMMA Counts ==
  ASSUME NEW S \in SUBSET Requests
  PROVE  /\ IsFiniteSet(S) /\ Cardinality(S) \in Rank
         /\ \A x \in Requests \ S :
              Cardinality(S \cup {x}) = 1 + Cardinality(S) /\ 1 + Cardinality(S) \in Rank
<1>1. MaxRequests \in Nat
  BY CreationAssumption
<1>2. IsFiniteSet(Requests) /\ Cardinality(Requests) = MaxRequests
  BY <1>1, FS_Interval DEF Requests
<1>3. \A T \in SUBSET Requests :
        IsFiniteSet(T) /\ Cardinality(T) \in Nat /\ Cardinality(T) <= MaxRequests
  BY <1>2, FS_Subset, FS_CardinalityType
<1>4. ASSUME NEW x \in Requests \ S
      PROVE  Cardinality(S \cup {x}) = 1 + Cardinality(S) /\ 1 + Cardinality(S) \in Rank
  <2>1. S \cup {x} \in SUBSET Requests
    OBVIOUS
  <2>2. Cardinality(S \cup {x}) = Cardinality(S) + 1
    BY <1>3, FS_AddElement
  <2> QED
    BY <1>1, <1>3, <2>1, <2>2 DEF Rank
<1> QED
  BY <1>1, <1>3, <1>4 DEF Rank

(* What a handler does to the rows: nothing, or it stamps, commits, checks,   *)
(* withdraws or releases its own.                                             *)
Stamps(r) ==
  /\ req[r].step = "insert" /\ req'[r].step = "commit"
  /\ order'[r].status = "stamped" /\ order'[r].stamp = NextStamp
  /\ order'[r].seq = order[r].seq /\ order'[r].checked = order[r].checked

Commits(r) ==
  /\ req[r].step = "commit" /\ req'[r].step \in {"check", "done"}
  /\ order'[r].status = "pending" /\ order'[r].seq = NextSeq
  /\ order'[r].stamp = order[r].stamp /\ order'[r].checked = order[r].checked

ChangesStatus(r) ==
  /\ req[r].step \in {"check", "withdraw", "allocate"}
  /\ order'[r].stamp = order[r].stamp /\ order'[r].seq = order[r].seq
  /\ order'[r].status \in {order[r].status, "live", "withdrawn"}
  /\ order'[r].checked \in BOOLEAN
  /\ Active(r)' => Active(r)
  /\ order'[r].checked => order[r].checked \/ Rivals(r) = {}

UncountedRows ==
  [status: Inserted \cup {"none", "stamped", "withdrawn"}, stamp: Nat, seq: Nat, checked: BOOLEAN]

RowMoves(r) ==
  /\ \A s \in Requests : s # r => order'[s] = order[s]
  /\ order' \in [Requests -> UncountedRows]
  /\ \/ order'[r] = order[r] /\ req'[r].step # "commit"
     \/ Stamps(r) \/ Commits(r) \/ ChangesStatus(r)

(* Creation stamps and commit numbers count the rows that have one. *)
LEMMA NextNumbers ==
  /\ NextStamp = 1 + Cardinality(Stamped) /\ NextSeq = 1 + Cardinality(Committed)
  /\ Cardinality(Stamped) \in Nat /\ Cardinality(Committed) \in Nat
  /\ Stamped \in SUBSET Requests /\ Committed \in SUBSET Requests
<1>1. Stamped \in SUBSET Requests /\ Committed \in SUBSET Requests
  BY DEF Stamped, Committed
<1>2. \A n \in Rank : n \in Nat
  BY CreationAssumption DEF Rank
<1> QED
  BY <1>1, <1>2, Counts DEF NextStamp, NextSeq, Stamped, Committed

(* A statement of POST /jobs moves no row but its own. *)
LEMMA RowsHandled ==
  ASSUME CreationTypeOK, NEW r \in Requests, Handle(r)
  PROVE  RowMoves(r)
<1>1. order \in [Requests -> UncountedRows] /\ order[r] \in UncountedRows
  <2>1. \A n \in Rank : n \in Nat
    BY CreationAssumption DEF Rank
  <2> QED
    BY <2>1 DEF CreationTypeOK, Orders, UncountedRows
<1>2. req \in [Requests -> RequestRows]
  BY DEF CreationTypeOK, RequestRows
<1>3. ASSUME UNCHANGED order, req'[r].step # "commit" PROVE RowMoves(r)
  BY <1>1, <1>3 DEF RowMoves
<1>4. CASE Stamp(r)
  <2>1. req'[r].step = "commit"
    BY <1>2, <1>4, Moves DEF Stamp, Steps, Sent
  <2>2. NextStamp \in Nat
    BY NextNumbers
  <2>3. order' = [order EXCEPT ![r].status = "stamped", ![r].stamp = NextStamp]
    BY <1>4 DEF Stamp
  <2>4. order' \in [Requests -> UncountedRows]
    BY <1>1, <2>2, <2>3 DEF UncountedRows
  <2>5. Stamps(r) /\ \A s \in Requests : s # r => order'[s] = order[s]
    BY <1>1, <1>4, <2>1, <2>3 DEF Stamp, Stamps, UncountedRows
  <2> QED
    BY <2>4, <2>5 DEF RowMoves
<1>5. ASSUME /\ req[r].step = "commit" /\ req'[r].step \in {"check", "done"}
             /\ order' = [order EXCEPT ![r].status = "pending", ![r].seq = NextSeq]
      PROVE  RowMoves(r)
  <2>1. NextSeq \in Nat
    BY NextNumbers
  <2>2. order' \in [Requests -> UncountedRows]
    BY <1>1, <1>5, <2>1 DEF UncountedRows, Inserted, ActiveStatuses
  <2>3. Commits(r) /\ \A s \in Requests : s # r => order'[s] = order[s]
    BY <1>1, <1>5 DEF Commits, UncountedRows
  <2> QED
    BY <2>2, <2>3 DEF RowMoves
<1>6. CASE Commit(r)
  <2>1. req'[r].step = "check"
    BY <1>2, <1>6, Moves DEF Commit, Steps, Sent
  <2> QED
    BY <1>5, <1>6, <2>1 DEF Commit
<1>7. CASE Crash(r)
  <2>1. req'[r].step = "done"
    BY <1>2, <1>7, Moves DEF Crash, Steps, Sent, Running
  <2> QED
    BY <1>3, <1>5, <1>7, <2>1 DEF Crash
<1>8. CASE CheckRivals(r)
  BY <1>1, <1>8 DEF CheckRivals, RowMoves, ChangesStatus, Active, UncountedRows
<1>9. CASE Withdraw(r)
  BY <1>1, <1>9 DEF Withdraw, RowMoves, ChangesStatus, Active, ActiveStatuses, UncountedRows
<1>10. CASE Allocate(r)
  BY <1>1, <1>10 DEF Allocate, RowMoves, ChangesStatus, Active, ActiveStatuses, Inserted, UncountedRows
<1>11. ASSUME \/ ClaimKey(r) \/ ClaimFailsOpen(r) \/ Repeat(r) \/ TakeLock(r) \/ LockFailsOpen(r)
              \/ LockBusy(r) \/ ReadFile(r) \/ Complete(r) \/ Fail(r) \/ Release(r) \/ Unlock(r)
       PROVE  UNCHANGED order /\ req'[r].step # "commit"
  BY <1>2, <1>11
     DEF ClaimKey, ClaimFailsOpen, Repeat, TakeLock, LockFailsOpen, LockBusy, ReadFile,
         Complete, Fail, Release, Unlock, Goto, RequestRows
<1> QED
  BY <1>3, <1>4, <1>6, <1>7, <1>8, <1>9, <1>10, <1>11 DEF Handle
(* The way of a request through the handler.                                  *)
Follows(from, to) ==
  to = "done" \/ <<from, to>> \in
    {<<"sent", "lock">>, <<"lock", "read">>, <<"read", "insert">>, <<"read", "release">>,
     <<"insert", "commit">>, <<"insert", "release">>, <<"commit", "check">>,
     <<"check", "allocate">>, <<"check", "withdraw">>, <<"check", "release">>,
     <<"withdraw", "release">>, <<"allocate", "complete">>, <<"allocate", "release">>,
     <<"complete", "unlock">>, <<"release", "unlock">>}

(* The statements of POST /jobs follow each other as in the code. *)
LEMMA StepsFollow ==
  ASSUME CreationTypeOK, NEW r \in Requests, Handle(r)
  PROVE  Follows(req[r].step, req'[r].step)
<1>1. req \in [Requests -> RequestRows] /\ req[r] \in RequestRows
  BY DEF CreationTypeOK, RequestRows
<1>2. \A step : Goto(r, step) => req'[r].step = step
  BY <1>1 DEF Goto, RequestRows
<1> QED
  BY <1>1, <1>2
     DEF Handle, ClaimKey, ClaimFailsOpen, Repeat, TakeLock, LockFailsOpen, LockBusy, ReadFile,
         Stamp, Commit, CheckRivals, Withdraw, Allocate, Complete, Fail, Release, Unlock, Crash,
         RequestRows, Follows

(* A statement of POST /jobs gives a row its stamp and number once. *)
LEMMA RowsBeginHandled ==
  ASSUME CreationTypeOK, RowsBegin, NEW r \in Requests, Handle(r)
  PROVE  RowsBegin'
<1>1. OthersStay(r) /\ Follows(req[r].step, req'[r].step) /\ RowMoves(r)
  BY Handled, StepsFollow, RowsHandled
<1>2. ASSUME NEW s \in Requests, s # r
      PROVE  req'[s] = req[s] /\ order'[s] = order[s]
  BY <1>1, <1>2 DEF OthersStay, RowMoves
<1>3. ASSUME req'[r].step \in {"unsent", "sent", "lock", "read", "insert"}
      PROVE  order'[r] = NoOrder
  <2>1. req[r].step \in {"sent", "lock", "read"}
    BY <1>1, <1>3 DEF Follows
  <2> QED
    BY <1>1, <1>3, <2>1 DEF RowMoves, Stamps, Commits, ChangesStatus, RowsBegin
<1>4. ASSUME req'[r].step = "commit"
      PROVE  order'[r].status = "stamped" /\ order'[r].seq = 0 /\ ~order'[r].checked
  <2>1. req[r].step = "insert"
    BY <1>1, <1>4 DEF Follows
  <2>2. Stamps(r)
    BY <1>1, <1>4, <2>1 DEF RowMoves, Commits, ChangesStatus
  <2> QED
    BY <2>1, <2>2 DEF Stamps, RowsBegin, NoOrder
<1>5. ASSUME Active(r)' \/ order'[r].status = "stamped"
      PROVE  order'[r].stamp # 0
  <2>1. order[r].status = "stamped" \/ Active(r) \/ Stamps(r)
    BY <1>1, <1>5 DEF RowMoves, Commits, ChangesStatus, RowsBegin, Active
  <2>2. NextStamp # 0
    BY NextNumbers
  <2> QED
    BY <1>1, <2>1, <2>2 DEF RowMoves, Stamps, Commits, ChangesStatus, RowsBegin
<1> QED
  BY <1>2, <1>3, <1>4, <1>5 DEF RowsBegin, Active
(* A new stamp or commit counts one more and is the highest.                  *)
LEMMA RowsCountedHandled ==
  ASSUME CreationTypeOK, RowsBegin, RowsCounted, NEW r \in Requests, Handle(r)
  PROVE  RowsCounted' /\ order' \in [Requests -> Orders]
<1>1. RowMoves(r) /\ order \in [Requests -> Orders]
  BY RowsHandled DEF CreationTypeOK
<1>2. /\ NextStamp = 1 + Cardinality(Stamped) /\ NextSeq = 1 + Cardinality(Committed)
      /\ Cardinality(Stamped) \in Nat /\ Cardinality(Committed) \in Nat
      /\ Stamped \in SUBSET Requests /\ Committed \in SUBSET Requests
  BY NextNumbers
<1>3. CASE Stamps(r)
  <2>1. r \in Requests \ Stamped
    BY <1>3 DEF Stamps, RowsBegin, NoOrder, Stamped
  <2>2. /\ Cardinality(Stamped \cup {r}) = NextStamp /\ NextStamp \in Rank
    BY <1>2, <2>1, Counts
  <2>3. Stamped' = Stamped \cup {r}
    BY <1>1, <1>2, <1>3 DEF Stamps, RowMoves, Stamped
  <2>4. Committed' = Committed
    BY <1>1, <1>3 DEF Stamps, RowMoves, Committed
  <2>5. order'[r] \in Orders /\ order'[r].stamp = NextStamp /\ order'[r].seq = order[r].seq
    BY <1>1, <1>3, <2>2 DEF RowMoves, Stamps, Orders, UncountedRows
  <2>6. RowsCounted'
    BY <1>1, <1>2, <2>2, <2>3, <2>4, <2>5 DEF RowMoves, RowsCounted, Orders, Rank
  <2>7. \A s \in Requests : order'[s] \in Orders
    BY <1>1, <2>5 DEF RowMoves
  <2> QED
    BY <1>1, <2>6, <2>7 DEF RowMoves
<1>4. CASE Commits(r)
  <2>1. r \in Requests \ Committed
    BY <1>4 DEF Commits, RowsBegin, Committed
  <2>2. /\ Cardinality(Committed \cup {r}) = NextSeq /\ NextSeq \in Rank
    BY <1>2, <2>1, Counts
  <2>3. Committed' = Committed \cup {r}
    BY <1>1, <1>2, <1>4 DEF Commits, RowMoves, Committed
  <2>4. Stamped' = Stamped
    BY <1>1, <1>4 DEF Commits, RowMoves, Stamped
  <2>5. order'[r] \in Orders /\ order'[r].stamp = order[r].stamp /\ order'[r].seq = NextSeq
    BY <1>1, <1>4, <2>2 DEF RowMoves, Commits, Orders, UncountedRows
  <2>6. RowsCounted'
    BY <1>1, <1>2, <2>2, <2>3, <2>4, <2>5 DEF RowMoves, RowsCounted, Orders, Rank
  <2>7. \A s \in Requests : order'[s] \in Orders
    BY <1>1, <2>5 DEF RowMoves
  <2> QED
    BY <1>1, <2>6, <2>7 DEF RowMoves
<1>5. ASSUME order'[r] = order[r] \/ ChangesStatus(r)
      PROVE  RowsCounted' /\ order' \in [Requests -> Orders]
  <2>1. \A s \in Requests : order'[s].stamp = order[s].stamp /\ order'[s].seq = order[s].seq
    BY <1>1, <1>5 DEF RowMoves, ChangesStatus
  <2>2. Stamped' = Stamped /\ Committed' = Committed
    BY <2>1 DEF Stamped, Committed
  <2>3. order'[r] \in Orders
    BY <1>1, <1>5 DEF RowMoves, ChangesStatus, Orders, UncountedRows
  <2> QED
    BY <1>1, <2>1, <2>2, <2>3 DEF RowMoves, RowsCounted
<1> QED
  BY <1>1, <1>3, <1>4, <1>5 DEF RowMoves
(* An answer ends or repeats at most the form that waits for it.              *)
PageRows == [attempt: 1 .. MaxRequests + 1, awaits: Requests \cup {None}, left: BOOLEAN]

(* A statement of POST /jobs keeps the forms' counts of requests. *)
LEMMA FormsHandled ==
  ASSUME CreationTypeOK, FormsCount, NEW r \in Requests, Handle(r)
  PROVE  FormsCount' /\ page' \in [Pages -> PageRows]
<1>1. OthersStay(r) /\ Sent(r) /\ \A s \in Requests : Sent(s)' = Sent(s)
  BY Handled
<1>2. UNCHANGED page \/ \E ok \in BOOLEAN : Answered(r, ok)
  BY DEF Handle, ClaimKey, ClaimFailsOpen, Repeat, TakeLock, LockFailsOpen, LockBusy, ReadFile,
         Stamp, Commit, CheckRivals, Withdraw, Allocate, Complete, Fail, Release, Unlock, Crash
<1>3. page \in [Pages -> PageRows] /\ MaxRequests \in Nat /\ None \notin Requests
  BY CreationAssumption DEF CreationTypeOK, PageRows, Requests
<1>4. ASSUME NEW p \in Pages
      PROVE  page'[p] \in PageRows /\ FormCounts(p)'
  <2> DEFINE row == page[p]
  <2>1. row \in PageRows /\ FormCounts(p)
    BY <1>3 DEF FormsCount
  <2>2. CASE page'[p] = row
    BY <1>1, <2>1, <2>2, <1>3 DEF FormCounts, PageRows
  <2>3. ASSUME page'[p] # row
        PROVE  /\ row.awaits = r
               /\ page'[p].awaits = None /\ page'[p].attempt \in {row.attempt, row.attempt + 1}
               /\ page'[p] = [attempt |-> page'[p].attempt, awaits |-> None, left |-> page'[p].left]
               /\ page'[p].left \in BOOLEAN
    BY <1>2, <1>3, <2>1, <2>3 DEF Answered, PageRows
  <2>4. ASSUME page'[p] # row
        PROVE  /\ row.awaits = r /\ row.attempt \in 1 .. r
               /\ page'[p].awaits = None /\ page'[p].attempt \in {row.attempt, row.attempt + 1}
               /\ page'[p] \in PageRows
    <3>1. row.attempt \in 1 .. r /\ r \in 1 .. MaxRequests
      BY <1>3, <2>1, <2>3, <2>4 DEF FormCounts, PageRows, Requests
    <3>2. row.attempt + 1 \in 1 .. MaxRequests + 1
      BY <1>3, <3>1
    <3> QED
      BY <2>1, <2>3, <2>4, <3>1, <3>2 DEF PageRows
  <2>5. ASSUME page'[p] # row
        PROVE  FormCounts(p)'
    <3>1. \A n \in 1 .. r : n \in Requests /\ Sent(n)
      BY <1>1, <1>3 DEF FormsCount, Requests
    <3>2. page'[p].attempt = 1 \/ page'[p].attempt - 1 \in 1 .. r
      BY <1>3, <2>4, <2>5 DEF Requests
    <3> QED
      BY <1>1, <2>4, <2>5, <3>1, <3>2 DEF FormCounts
  <2> QED
    BY <2>1, <2>2, <2>4, <2>5
<1>5. page' = [p \in Pages |-> page'[p]]
  BY <1>2, <1>3 DEF Answered
<1>6. page' \in [Pages -> PageRows] /\ \A p \in Pages : FormCounts(p)'
  BY <1>4, <1>5
<1> QED
  BY <1>1, <1>6 DEF FormsCount, OthersStay

(* A statement of POST /jobs keeps the types. *)
LEMMA TypesHandled ==
  ASSUME CreationTypeOK, FormsCount, RowsBegin, RowsCounted, NEW r \in Requests, Handle(r)
  PROVE  CreationTypeOK'
<1>1. /\ OthersStay(r) /\ Sent(r) /\ req' \in [Requests -> RequestRows]
      /\ \A s \in Requests : Sent(s)' = Sent(s)
  BY Handled
<1>2. page' \in [Pages -> PageRows] /\ order' \in [Requests -> Orders]
  BY FormsHandled, RowsCountedHandled
<1>3. KeyOf(r) \in Keys /\ FileFor(r) \in Files
  BY <1>1, CreationAssumption DEF CreationTypeOK, KeyOf, FileFor
<1>4. /\ idem \in [Keys -> {None} \cup IdempotencyEntries]
      /\ lock \in [Files -> Requests \cup {None}]
      /\ slipped \subseteq Requests /\ forgotten \subseteq Keys /\ faults \in 0 .. MaxFaults
      /\ lost \subseteq Requests /\ MaxFaults \in Nat
  BY CreationAssumption DEF CreationTypeOK
<1>5. /\ [state |-> "pending", by |-> r] \in IdempotencyEntries
      /\ [state |-> "order", by |-> r] \in IdempotencyEntries
  BY DEF IdempotencyEntries
<1>6. faults' \in 0 .. MaxFaults
  <2>1. faults' = faults \/ Fault
    BY DEF Handle, ClaimKey, ClaimFailsOpen, Repeat, TakeLock, LockFailsOpen, LockBusy, ReadFile,
           Stamp, Commit, CheckRivals, Withdraw, Allocate, Complete, Fail, Release, Unlock, Crash
  <2> QED
    BY <1>4, <2>1 DEF Fault
<1>7. idem' \in [Keys -> {None} \cup IdempotencyEntries] /\ forgotten' \subseteq Keys
  BY <1>3, <1>4, <1>5 DEF Handle, ClaimKey, ClaimFailsOpen, Repeat, TakeLock, LockFailsOpen,
         LockBusy, ReadFile, Stamp, Commit, CheckRivals, Withdraw, Allocate, Complete, Fail,
         Release, Unlock, Crash, ReleaseKey
<1>8. lock' \in [Files -> Requests \cup {None}] /\ slipped' \subseteq Requests
  BY <1>3, <1>4 DEF Handle, ClaimKey, ClaimFailsOpen, Repeat, TakeLock, LockFailsOpen,
         LockBusy, ReadFile, Stamp, Commit, CheckRivals, Withdraw, Allocate, Complete, Fail,
         Release, Unlock, Crash, Unlocked
<1>9. lost' \subseteq Requests
  <2>1. UNCHANGED lost \/ lost' = lost \cup {r}
    BY DEF Handle, ClaimKey, ClaimFailsOpen, Repeat, TakeLock, LockFailsOpen, LockBusy, ReadFile,
           Stamp, Commit, CheckRivals, Withdraw, Allocate, Complete, Fail, Release, Unlock, Crash,
           Answered, Lose
  <2> QED
    BY <1>4, <2>1
<1>10. \A s \in Requests : Sent(s)' => req'[s].page \in Pages /\ req'[s].key \in Keys
  BY <1>1 DEF CreationTypeOK, OthersStay
<1> QED
  BY <1>1, <1>2, <1>6, <1>7, <1>8, <1>9, <1>10 DEF CreationTypeOK, RequestRows, PageRows
-----------------------------------------------------------------------------
(* The lock. *)

(* A statement of POST /jobs leaves the file's lock with its holder. *)
LEMMA LockHandled ==
  ASSUME CreationTypeOK, LockIsHeld, NEW r \in Requests, Handle(r)
  PROVE  LockIsHeld' /\ slipped \subseteq slipped'
<1>1. /\ OthersStay(r) /\ Sent(r) /\ Follows(req[r].step, req'[r].step)
      /\ \A s \in Requests : FileFor(s)' = FileFor(s)
  BY Handled, StepsFollow, SameFiles
<1>2. None \notin Requests /\ lock \in [Files -> Requests \cup {None}] /\ FileFor(r) \in Files
  BY <1>1, CreationAssumption DEF CreationTypeOK, Requests, FileFor
<1>3. /\ \/ UNCHANGED <<lock, slipped>> /\ ~(req[r].step = "lock" /\ req'[r].step = "read")
         \/ TakeLock(r) \/ LockFailsOpen(r) \/ Unlock(r)
      /\ slipped \subseteq slipped'
  <2>1. req \in [Requests -> RequestRows]
    BY DEF CreationTypeOK, RequestRows
  <2> QED
    BY <2>1 DEF Handle, ClaimKey, ClaimFailsOpen, Repeat, TakeLock, LockFailsOpen, LockBusy, ReadFile,
           Stamp, Commit, CheckRivals, Withdraw, Allocate, Complete, Fail, Release, Unlock, Crash,
           Unlocked, Goto, RequestRows
<1>4. ASSUME NEW s \in Requests \ slipped', req'[s].step \in Critical, s # r
      PROVE  lock'[FileFor(s)] = s
  <2>1. lock[FileFor(s)] = s /\ FileFor(s) \in Files
    <3>1. req[s] = req'[s] /\ Sent(s)
      BY <1>1, <1>4 DEF OthersStay, Sent, Critical
    <3> QED
      BY <1>3, <1>4, <3>1, CreationAssumption DEF LockIsHeld, CreationTypeOK, FileFor
  <2>2. CASE TakeLock(r)
    BY <1>2, <2>1, <2>2 DEF TakeLock
  <2>3. CASE Unlock(r)
    BY <1>2, <1>4, <2>1, <2>3 DEF Unlock, Unlocked
  <2> QED
    BY <1>3, <2>1, <2>2, <2>3 DEF LockFailsOpen
<1>5. ASSUME r \notin slipped', req'[r].step \in Critical
      PROVE  lock'[FileFor(r)] = r
  <2>1. CASE TakeLock(r)
    BY <1>2, <2>1 DEF TakeLock
  <2>2. CASE LockFailsOpen(r)
    BY <1>5, <2>2 DEF LockFailsOpen
  <2>3. CASE Unlock(r)
    <3>1. req'[r].step = "done"
      BY <2>3, Moves DEF Unlock, Steps, Sent
    <3> QED
      BY <1>5, <3>1 DEF Critical
  <2>4. CASE UNCHANGED <<lock, slipped>> /\ ~(req[r].step = "lock" /\ req'[r].step = "read")
    <3>1. req[r].step \in Critical
      BY <1>1, <1>5, <2>4 DEF Follows, Critical
    <3> QED
      BY <1>5, <2>4, <3>1 DEF LockIsHeld
  <2> QED
    BY <1>3, <2>1, <2>2, <2>3, <2>4
<1> QED
  BY <1>1, <1>3, <1>4, <1>5 DEF LockIsHeld

(* Of two requests with the lock of a file one slipped.                       *)
LEMMA OneHolder ==
  ASSUME LockIsHeld, NEW r \in Requests \ slipped, NEW s \in Requests \ slipped,
         req[r].step \in Critical, req[s].step \in Critical, FileFor(r) = FileFor(s)
  PROVE  r = s
  BY DEF LockIsHeld

(* Who becomes active commits, and who goes on to insert has read.            *)
LEMMA NewlyActive ==
  ASSUME CreationTypeOK, NEW r \in Requests, Handle(r)
  PROVE  /\ \A s \in Requests : Active(s)' => Active(s) \/ (s = r /\ Commits(r))
         /\ \A s \in Requests : s # r => Active(s)' = Active(s)
         /\ req'[r].step \in Inserting =>
              \/ req[r].step = "insert"
              \/ req[r].step = "read" /\ ~HasActiveOrder(FileFor(r))
<1>1. RowMoves(r) /\ Follows(req[r].step, req'[r].step)
  BY RowsHandled, StepsFollow
<1>2. /\ \A s \in Requests : Active(s)' => Active(s) \/ (s = r /\ Commits(r))
      /\ \A s \in Requests : s # r => Active(s)' = Active(s)
  BY <1>1 DEF RowMoves, Stamps, ChangesStatus, Active, ActiveStatuses
<1>3. ASSUME req'[r].step \in Inserting, req[r].step # "insert"
      PROVE  req[r].step = "read" /\ ~HasActiveOrder(FileFor(r))
  <2>1. req[r].step = "read" /\ req'[r].step = "insert"
    BY <1>1, <1>3 DEF Follows, Inserting
  <2>2. req \in [Requests -> RequestRows]
    BY DEF CreationTypeOK, RequestRows
  <2>3. ReadFile(r)
    BY <2>1, <2>2 DEF Handle, ClaimKey, ClaimFailsOpen, Repeat, TakeLock, LockFailsOpen, LockBusy,
           Stamp, Commit, CheckRivals, Withdraw, Allocate, Complete, Fail, Release, Unlock, Crash,
           Goto, RequestRows
  <2> QED
    BY <2>1, <2>2, <2>3 DEF ReadFile, MayBackNewJob, Goto, RequestRows
<1> QED
  BY <1>2, <1>3

(* A statement of POST /jobs lets one request at a time work under a lock. *)
LEMMA OnePerLockHandled ==
  ASSUME CreationTypeOK, LockIsHeld, FreeForLock, OnePerLock, NEW r \in Requests, Handle(r)
  PROVE  FreeForLock' /\ OnePerLock'
<1>1. /\ OthersStay(r) /\ Sent(r) /\ Follows(req[r].step, req'[r].step)
      /\ \A s \in Requests : FileFor(s)' = FileFor(s)
      /\ \A s \in Requests : Sent(s)' = Sent(s)
      /\ slipped \subseteq slipped'
  BY Handled, StepsFollow, SameFiles, LockHandled
<1>2. ASSUME NEW a \in Requests \ slipped', NEW b \in Requests \ slipped', a # b,
             Sent(a), Sent(b), FileFor(a) = FileFor(b), Active(a)', Active(b)'
      PROVE  FALSE
  <2>1. a \in OrdersOn(FileFor(a)) /\ b \in OrdersOn(FileFor(a)) /\ FileFor(a) \in Files
    BY <1>2, CreationAssumption DEF OrdersOn, CreationTypeOK, FileFor
  <2>2. ~(Active(a) /\ Active(b))
    BY <1>1, <1>2, <2>1 DEF OnePerLock
  <2>3. Commits(r) => \A s \in OrdersOn(FileFor(r)) \ slipped : r \notin slipped /\ s # r => ~Active(s)
    BY DEF Commits, FreeForLock, Inserting
  <2> QED
    BY <1>1, <1>2, <2>1, <2>2, <2>3, NewlyActive DEF OrdersOn
<1>3. ASSUME NEW q \in Requests \ slipped', req'[q].step \in Inserting,
             NEW s \in Requests \ slipped', s # q, Sent(s), FileFor(s) = FileFor(q), Active(s)'
      PROVE  FALSE
  <2>1. s \in OrdersOn(FileFor(q)) \ slipped /\ q \notin slipped
    BY <1>1, <1>3 DEF OrdersOn
  <2>2. CASE q = r
    <3>1. Active(s)
      BY <1>3, <2>2, NewlyActive
    <3>2. req[r].step # "insert"
      BY <1>3, <2>1, <2>2, <3>1 DEF FreeForLock, Inserting
    <3> QED
      BY <1>3, <2>1, <2>2, <3>1, <3>2, NewlyActive DEF HasActiveOrder
  <2>3. CASE q # r
    <3>1. req[q].step \in Inserting
      BY <1>1, <1>3, <2>3 DEF OthersStay
    <3>2. ~Active(s)
      BY <1>3, <2>1, <3>1 DEF FreeForLock
    <3>3. s = r /\ Commits(r)
      BY <1>3, <3>2, NewlyActive
    <3>4. req[r].step \in Critical /\ req[q].step \in Critical
      BY <3>1, <3>3 DEF Commits, Critical, Inserting
    <3> QED
      BY <1>3, <2>1, <3>3, <3>4, OneHolder
  <2> QED
    BY <2>2, <2>3
<1> QED
  BY <1>1, <1>2, <1>3 DEF FreeForLock, OnePerLock, OrdersOn
(* The rival check needs no lock: an older row it missed was committed later. *)
LEMMA CheckedFirstHandled ==
  ASSUME CreationTypeOK, RowsBegin, RowsCounted, CheckedFirst, NEW r \in Requests, Handle(r)
  PROVE  CheckedFirst'
<1>1. /\ OthersStay(r) /\ Sent(r) /\ RowMoves(r)
      /\ \A s \in Requests : FileFor(s)' = FileFor(s)
      /\ \A s \in Requests : Sent(s)' = Sent(s)
  BY Handled, SameFiles, RowsHandled
<1>2. \A s \in Requests : order[s].stamp \in Nat /\ order[s].seq \in Nat
  <2>1. \A n \in Rank : n \in Nat
    BY CreationAssumption DEF Rank
  <2> QED
    BY <2>1 DEF CreationTypeOK, Orders
<1> SUFFICES ASSUME NEW a \in Requests, NEW b \in Requests, Sent(a), Sent(b),
                    FileFor(a) = FileFor(b), Active(a)', Active(b)', order'[b].checked,
                    order'[a].stamp < order'[b].stamp
             PROVE  order'[a].seq > order'[b].seq
  BY <1>1 DEF CheckedFirst, OrdersOn
<1>3. a \in OrdersOn(FileFor(a)) /\ b \in OrdersOn(FileFor(a)) /\ FileFor(a) \in Files /\ a # b
  <2>1. order'[a].stamp \in Nat
    BY <1>1 DEF RowMoves, UncountedRows
  <2> QED
    BY <2>1, CreationAssumption DEF OrdersOn, CreationTypeOK, FileFor
<1>4. Active(a) /\ Active(b) /\ order[b].checked /\ order[a].stamp < order[b].stamp
        => order[a].seq > order[b].seq
  BY <1>3 DEF CheckedFirst
<1>5. CASE a # r /\ b # r
  BY <1>1, <1>4, <1>5 DEF RowMoves, Active
<1>6. CASE a = r
  <2>1. order'[b] = order[b] /\ Active(b)
    BY <1>1, <1>3, <1>6 DEF RowMoves, Active
  <2>2. CASE Commits(r)
    <3>1. order[b].seq < NextSeq
      BY <1>2, NextNumbers DEF RowsCounted
    <3> QED
      BY <1>6, <2>1, <2>2, <3>1 DEF Commits
  <2>3. CASE order'[r] = order[r] \/ ChangesStatus(r)
    BY <1>4, <1>6, <2>1, <2>3 DEF ChangesStatus, Active
  <2> QED
    BY <1>1, <1>6, <2>2, <2>3 DEF RowMoves, Stamps, Active, ActiveStatuses
<1>7. CASE b = r
  <2>1. order'[a] = order[a] /\ Active(a)
    BY <1>1, <1>3, <1>7 DEF RowMoves, Active
  <2>2. ~Stamps(r) /\ ~Commits(r)
    BY <1>7 DEF Stamps, Commits, RowsBegin, Active, ActiveStatuses
  <2>3. CASE ChangesStatus(r) /\ order[r].checked
    BY <1>4, <1>7, <2>1, <2>3 DEF ChangesStatus
  <2>4. CASE ChangesStatus(r) /\ ~order[r].checked
    <3>1. Rivals(r) = {} /\ order[a].stamp < order[r].stamp
      BY <1>7, <2>1, <2>4 DEF ChangesStatus
    <3>2. a \in Rivals(r)
      BY <1>3, <1>7, <2>1, <3>1 DEF Rivals
    <3> QED
      BY <3>1, <3>2
  <2>5. CASE order'[r] = order[r]
    BY <1>4, <1>7, <2>1, <2>5 DEF Active
  <2> QED
    BY <1>1, <2>2, <2>3, <2>4, <2>5 DEF RowMoves
<1> QED
  BY <1>5, <1>6, <1>7

-----------------------------------------------------------------------------
(* The steps of the forms, of Redis and of the orders' later life.            *)

(* A statement of POST /jobs keeps the invariant of orders. *)
LEMMA HandleKeeps ==
  ASSUME OrdersInvariant, NEW r \in Requests, Handle(r)
  PROVE  OrdersInvariant'
  BY TypesHandled, FormsHandled, RowsBeginHandled, RowsCountedHandled, LockHandled,
     OnePerLockHandled, CheckedFirstHandled DEF OrdersInvariant

(* Sending an order form, again or for the first time, keeps it. *)
LEMMA SubmitKeeps ==
  ASSUME OrdersInvariant, NEW p \in Pages, NEW r \in Requests, Submit(p, r)
  PROVE  OrdersInvariant'
<1> DEFINE row == [step |-> "sent", page |-> p, key |-> <<p, page[p].attempt>>, ok |-> FALSE]
<1>1. /\ CreationTypeOK /\ req \in [Requests -> RequestRows] /\ page \in [Pages -> PageRows]
      /\ MaxRequests \in Nat /\ None \notin Requests
  BY CreationAssumption DEF OrdersInvariant, CreationTypeOK, RequestRows, PageRows, Requests
<1>2. /\ req' = [req EXCEPT ![r] = row]
      /\ page' = [page EXCEPT ![p].awaits = r]
      /\ ~Sent(r) /\ order[r] = NoOrder
      /\ UNCHANGED <<order, idem, lock, slipped, forgotten, faults, lost>>
  BY DEF Submit, OrdersInvariant, RowsBegin, Sent
<1>3. <<p, page[p].attempt>> \in Keys /\ row \in RequestRows
  BY <1>1 DEF PageRows, Keys, RequestRows, Steps
<1>4. /\ req' \in [Requests -> RequestRows] /\ page' \in [Pages -> PageRows]
      /\ \A s \in Requests : s # r => req'[s] = req[s] /\ Sent(s)' = Sent(s)
      /\ req'[r] = row /\ Sent(r)'
  BY <1>1, <1>2, <1>3 DEF PageRows, Sent
<1>5. CreationTypeOK'
  BY <1>1, <1>2, <1>3, <1>4 DEF CreationTypeOK, PageRows, RequestRows
<1>6. FormsCount'
  <2>1. \A a, b \in Requests : a < b /\ Sent(b)' => Sent(a)'
    BY <1>2, <1>4 DEF Submit, OrdersInvariant, FormsCount
  <2>2. \A s \in Requests : Sent(s)' => req'[s].key \in Keys /\ req'[s].key[1] = req'[s].page
    BY <1>3, <1>4 DEF OrdersInvariant, FormsCount
  <2>3. FormCounts(p)'
    <3>1. page[p].attempt = 1 \/ (page[p].attempt - 1 \in Requests /\ Sent(page[p].attempt - 1))
      BY DEF Submit, OrdersInvariant, FormsCount, FormCounts
    <3>2. page[p].attempt - 1 \in Requests /\ Sent(page[p].attempt - 1) => page[p].attempt - 1 < r
      BY <1>1, <1>2 DEF OrdersInvariant, FormsCount, Requests
    <3>3. page[p].attempt <= r
      BY <1>1, <3>1, <3>2 DEF Requests, PageRows
    <3>4. page'[p].awaits = r /\ page'[p].attempt = page[p].attempt
      BY <1>1, <1>2 DEF PageRows
    <3> QED
      BY <1>1, <1>4, <3>3, <3>4 DEF FormCounts
  <2>4. ASSUME NEW q \in Pages, q # p
        PROVE  FormCounts(q)'
    <3>1. page'[q] = page[q] /\ page[q] \in PageRows /\ FormCounts(q)
      BY <1>1, <1>2, <2>4 DEF OrdersInvariant, FormsCount
    <3> QED
      BY <1>4, <3>1 DEF FormCounts, PageRows
  <2> QED
    BY <2>1, <2>2, <2>3, <2>4 DEF FormsCount
<1>7. RowsBegin' /\ RowsCounted'
  <2>1. RowsCounted'
    BY <1>2 DEF OrdersInvariant, RowsCounted, Stamped, Committed
  <2>2. ~Active(r)' /\ \A s \in Requests : Active(s)' = Active(s)
    BY <1>2 DEF Active, ActiveStatuses, NoOrder
  <2> QED
    BY <1>2, <1>4, <2>1, <2>2 DEF OrdersInvariant, RowsBegin, NoOrder
<1>8. /\ ~Active(r)' /\ \A s \in Requests : Active(s)' = Active(s)
      /\ \A s \in Requests : s # r => FileFor(s)' = FileFor(s)
      /\ req'[r].step = "sent"
  BY <1>2, <1>4 DEF Active, ActiveStatuses, NoOrder, FileFor
<1>9. LockIsHeld'
  BY <1>2, <1>4, <1>8 DEF OrdersInvariant, LockIsHeld, Critical
<1>10. FreeForLock' /\ OnePerLock'
  BY <1>2, <1>4, <1>8 DEF OrdersInvariant, FreeForLock, OnePerLock, Inserting, OrdersOn
<1>11. CheckedFirst'
  BY <1>2, <1>4, <1>8 DEF OrdersInvariant, CheckedFirst, OrdersOn
<1> QED
  BY <1>5, <1>6, <1>7, <1>9, <1>10, <1>11 DEF OrdersInvariant

(* Losing the answer keeps it. *)
LEMMA AnswerLostKeeps ==
  ASSUME OrdersInvariant, NEW p \in Pages, AnswerLost(p)
  PROVE  OrdersInvariant'
<1> DEFINE r == page[p].awaits
<1>1. page \in [Pages -> PageRows] /\ MaxRequests \in Nat /\ None \notin Requests
  BY CreationAssumption DEF OrdersInvariant, CreationTypeOK, PageRows, Requests
<1>2. /\ page' = [page EXCEPT ![p].awaits = None, ![p].attempt = @ + 1]
      /\ r # None /\ lost' = lost \cup {r}
      /\ UNCHANGED <<req, order, idem, lock, slipped, forgotten, faults>>
  BY DEF AnswerLost, Lose
<1>3. page[p] \in PageRows /\ FormCounts(p)
  BY <1>1 DEF OrdersInvariant, FormsCount
<1>4. r \in 1 .. MaxRequests /\ Sent(r) /\ page[p].attempt \in 1 .. r
  BY <1>1, <1>2, <1>3 DEF FormCounts, PageRows, Requests
<1>5. page[p].attempt + 1 \in 1 .. MaxRequests + 1 /\ page[p].attempt \in Requests
  BY <1>1, <1>4 DEF Requests
<1>6. /\ page'[p] = [page[p] EXCEPT !.awaits = None, !.attempt = @ + 1]
      /\ \A q \in Pages : q # p => page'[q] = page[q]
  BY <1>1, <1>2
<1>7. /\ page'[p].awaits = None /\ page'[p].attempt = page[p].attempt + 1
      /\ page'[p] \in PageRows
  BY <1>3, <1>5, <1>6 DEF PageRows
<1>8. CreationTypeOK'
  <2>1. page' \in [Pages -> PageRows]
    BY <1>1, <1>2, <1>6, <1>7
  <2>2. lost' \subseteq Requests
    BY <1>2, <1>4 DEF OrdersInvariant, CreationTypeOK, Requests
  <2> QED
    BY <1>2, <2>1, <2>2 DEF OrdersInvariant, CreationTypeOK, PageRows, Sent
<1>9. FormsCount'
  <2>1. \A s \in Requests : Sent(s)' = Sent(s)
    BY <1>2 DEF Sent
  <2>2. Sent(page[p].attempt)
    <3>1. page[p].attempt < r \/ page[p].attempt = r
      BY <1>1, <1>4
    <3>2. r \in Requests
      BY <1>4 DEF Requests
    <3> QED
      BY <1>4, <1>5, <3>1, <3>2 DEF OrdersInvariant, FormsCount
  <2>3. page'[p].attempt - 1 = page[p].attempt
    BY <1>1, <1>4, <1>7
  <2>4. FormCounts(p)'
    BY <1>5, <1>7, <2>1, <2>2, <2>3 DEF FormCounts
  <2>5. ASSUME NEW q \in Pages, q # p
        PROVE  FormCounts(q)'
    <3>1. page'[q] = page[q] /\ page[q] \in PageRows /\ FormCounts(q)
      BY <1>1, <1>6, <2>5 DEF OrdersInvariant, FormsCount
    <3> QED
      BY <2>1, <3>1 DEF FormCounts, PageRows
  <2> QED
    BY <1>2, <2>1, <2>4, <2>5 DEF OrdersInvariant, FormsCount
<1> QED
  BY <1>2, <1>8, <1>9
     DEF OrdersInvariant, RowsBegin, RowsCounted, Stamped, Committed, LockIsHeld, FreeForLock,
         OnePerLock, CheckedFirst, Active, Sent, FileFor, OrdersOn

(* What Redis forgets keeps it. *)
LEMMA RedisKeeps ==
  ASSUME OrdersInvariant,
         (\E f \in Files : LockExpires(f)) \/ (\E k \in Keys : KeyExpires(k))
  PROVE  OrdersInvariant'
<1>1. /\ UNCHANGED <<page, req, order, lost>> /\ MaxFaults \in Nat
      /\ \A s \in Requests : /\ Sent(s)' = Sent(s) /\ Active(s)' = Active(s)
                             /\ FileFor(s)' = FileFor(s)
      /\ \A f \in Files : OrdersOn(f)' = OrdersOn(f)
  BY CreationAssumption DEF LockExpires, KeyExpires, Sent, Active, FileFor, OrdersOn
<1>2. \A s \in Requests : Sent(s) => FileFor(s) \in Files
  BY CreationAssumption DEF OrdersInvariant, CreationTypeOK, FileFor
<1>3. None \notin Requests
  BY CreationAssumption DEF Requests
<1>4. FormsCount' /\ RowsBegin' /\ RowsCounted' /\ CheckedFirst'
  <2>1. FormsCount'
    BY <1>1 DEF OrdersInvariant, FormsCount, FormCounts, Sent
  <2>2. RowsBegin' /\ RowsCounted' /\ CheckedFirst'
    BY <1>1 DEF OrdersInvariant, RowsBegin, RowsCounted, Stamped, Committed, CheckedFirst,
                Active, OrdersOn, Sent, FileFor
  <2> QED
    BY <2>1, <2>2
<1>5. CASE \E f \in Files : LockExpires(f)
  <2> PICK f \in Files : LockExpires(f)
    BY <1>5
  <2>1. /\ lock' = [lock EXCEPT ![f] = None] /\ UNCHANGED <<idem, forgotten>>
        /\ lock \in [Files -> Requests \cup {None}] /\ lock[f] \in Requests
        /\ \/ Running(lock[f]) /\ slipped' = slipped \cup {lock[f]} /\ Fault
           \/ ~Running(lock[f]) /\ UNCHANGED <<slipped, faults>>
    BY DEF LockExpires, OrdersInvariant, CreationTypeOK
  <2>2. CreationTypeOK'
    <3>1. faults' \in 0 .. MaxFaults
      BY <1>1, <2>1 DEF Fault, OrdersInvariant, CreationTypeOK
    <3> QED
      BY <1>1, <2>1, <3>1 DEF OrdersInvariant, CreationTypeOK
  <2>3. LockIsHeld'
    <3> SUFFICES ASSUME NEW r \in Requests \ slipped', req[r].step \in Critical
                 PROVE  lock'[FileFor(r)] = r
      BY <1>1 DEF LockIsHeld
    <3>1. lock[FileFor(r)] = r /\ FileFor(r) \in Files /\ Running(r)
      BY <1>2, <2>1 DEF OrdersInvariant, LockIsHeld, Critical, Sent, Running
    <3> QED
      BY <2>1, <3>1
  <2>4. FreeForLock' /\ OnePerLock'
    BY <1>1, <2>1 DEF OrdersInvariant, FreeForLock, OnePerLock,
                       Active, OrdersOn, Sent, FileFor
  <2> QED
    BY <1>4, <2>2, <2>3, <2>4 DEF OrdersInvariant
<1>6. CASE \E k \in Keys : KeyExpires(k)
  <2> PICK k \in Keys : KeyExpires(k)
    BY <1>6
  <2>1. /\ idem' = [idem EXCEPT ![k] = None] /\ UNCHANGED <<lock, slipped>>
        /\ forgotten' = forgotten \cup {k} /\ Fault
    BY DEF KeyExpires
  <2>2. CreationTypeOK'
    <3>1. faults' \in 0 .. MaxFaults
      BY <1>1, <2>1 DEF Fault, OrdersInvariant, CreationTypeOK
    <3> QED
      BY <1>1, <2>1, <3>1 DEF OrdersInvariant, CreationTypeOK
  <2>3. LockIsHeld' /\ FreeForLock' /\ OnePerLock'
    BY <1>1, <2>1 DEF OrdersInvariant, LockIsHeld, FreeForLock, OnePerLock,
                       Active, OrdersOn, Sent, FileFor
  <2> QED
    BY <1>4, <2>2, <2>3 DEF OrdersInvariant
<1> QED
  BY <1>5, <1>6

(* An order that ends, or is printed, only leaves the active ones.            *)
LEMMA EndKeeps ==
  ASSUME OrdersInvariant, NEW r \in Requests, EndOrder(r) \/ PrintOrder(r)
  PROVE  OrdersInvariant'
<1>1. /\ UNCHANGED <<page, req, idem, lock, slipped, forgotten, lost, faults>>
      /\ Active(r) /\ \E status \in {"ended", "printed"} : order' = [order EXCEPT ![r].status = status]
  BY DEF EndOrder, PrintOrder, Active, ActiveStatuses
<1>2. /\ order \in [Requests -> Orders] /\ order' \in [Requests -> Orders]
      /\ \A s \in Requests : s # r => order'[s] = order[s]
      /\ order'[r].status \in {"ended", "printed"}
      /\ \A s \in Requests : /\ order'[s].stamp = order[s].stamp
                             /\ order'[s].seq = order[s].seq
                             /\ order'[s].checked = order[s].checked
  <2>1. order \in [Requests -> Orders]
    BY DEF OrdersInvariant, CreationTypeOK
  <2> QED
    BY <1>1, <2>1 DEF Orders, Inserted
<1>3. /\ \A s \in Requests : Active(s)' => Active(s)
      /\ \A s \in Requests : Sent(s)' = Sent(s) /\ FileFor(s)' = FileFor(s)
      /\ \A f \in Files : OrdersOn(f)' = OrdersOn(f)
      /\ Stamped' = Stamped /\ Committed' = Committed
  BY <1>1, <1>2 DEF Active, ActiveStatuses, Sent, FileFor, OrdersOn, Stamped, Committed
<1>4. CreationTypeOK' /\ FormsCount'
  BY <1>1, <1>2, <1>3 DEF OrdersInvariant, CreationTypeOK, FormsCount, FormCounts, Sent
<1>5. RowsBegin' /\ RowsCounted'
  <2>1. req[r].step \notin {"unsent", "sent", "lock", "read", "insert", "commit"}
    BY <1>1 DEF OrdersInvariant, RowsBegin, NoOrder, Active, ActiveStatuses
  <2>2. order'[r].stamp # 0
    BY <1>1, <1>2 DEF OrdersInvariant, RowsBegin
  <2>3. RowsBegin'
    BY <1>1, <1>2, <1>3, <2>1, <2>2 DEF OrdersInvariant, RowsBegin
  <2> QED
    BY <1>2, <1>3, <2>3 DEF OrdersInvariant, RowsCounted
<1>6. LockIsHeld' /\ FreeForLock' /\ OnePerLock'
  BY <1>1, <1>3 DEF OrdersInvariant, LockIsHeld, FreeForLock, OnePerLock, OrdersOn
<1>7. CheckedFirst'
  BY <1>2, <1>3 DEF OrdersInvariant, CheckedFirst, OrdersOn
<1> QED
  BY <1>4, <1>5, <1>6, <1>7 DEF OrdersInvariant

(* Steps of files leave the invariant of orders alone. *)
LEMMA OrdersStay ==
  ASSUME OrdersInvariant, UNCHANGED creation
  PROVE  OrdersInvariant'
<1>1. UNCHANGED <<page, req, order, idem, lock, slipped, forgotten, lost, faults>>
  BY DEF creation
<1>2. /\ \A r \in Requests : /\ Sent(r)' = Sent(r) /\ Active(r)' = Active(r)
                             /\ FileFor(r)' = FileFor(r)
      /\ \A f \in Files : OrdersOn(f)' = OrdersOn(f)
      /\ Stamped' = Stamped /\ Committed' = Committed
  BY <1>1 DEF Sent, Active, FileFor, OrdersOn, Stamped, Committed
<1>3. CreationTypeOK' /\ RowsBegin' /\ RowsCounted'
  BY <1>1, <1>2 DEF OrdersInvariant, CreationTypeOK, RowsBegin, RowsCounted
<1>4. FormsCount'
  BY <1>1, <1>2 DEF OrdersInvariant, FormsCount, FormCounts, Sent
<1>5. LockIsHeld' /\ FreeForLock'
  BY <1>1 DEF OrdersInvariant, LockIsHeld, FreeForLock, Active, FileFor, OrdersOn, Sent
<1>6. OnePerLock' /\ CheckedFirst'
  BY <1>1 DEF OrdersInvariant, OnePerLock, CheckedFirst, Active, FileFor, OrdersOn, Sent
<1> QED
  BY <1>3, <1>4, <1>5, <1>6 DEF OrdersInvariant

(* Every step keeps the invariant of orders. *)
LEMMA OrdersInductive ==
  ASSUME OrdersInvariant, [Next]_vars
  PROVE  OrdersInvariant'
<1>1. CASE UNCHANGED vars
  BY <1>1, OrdersStay DEF vars
<1>2. CASE CreationNext
  BY <1>2, HandleKeeps, SubmitKeeps, AnswerLostKeeps, RedisKeeps DEF CreationNext
<1>3. CASE FileNext
  <2>1. UNCHANGED creation \/ \E r \in Requests : EndOrder(r) \/ PrintOrder(r)
    BY <1>3 DEF FileNext, StoreUpload, CreateFileRow, EnqueueConversion, Reconcile, TimePasses,
                StartConversion, MarkConverting, StoreConverted, MarkReady, ConversionFails,
                ConversionDies, PickDue, CheckActive, StartClock, ClockCallDies, Erase,
                DeletionFails, MarkDeleted
  <2> QED
    BY <2>1, OrdersStay, EndKeeps
<1> QED
  BY <1>1, <1>2, <1>3 DEF Next
-----------------------------------------------------------------------------
(* The content of files. *)

(* Calls that only ask for a deletion clock.                                  *)
LEMMA CallsKeep ==
  ASSUME FilesInvariant, clock' \subseteq ClockCalls, UNCHANGED <<file, objects, conv, del, disturbed>>
  PROVE  FilesInvariant'
  BY DEF FilesInvariant, RetentionTypeOK, DeletersKnow, ConversionsKnow, ContentKnown, QueuedExist,
         ContentOf, Converting, ConversionRuns, Deleting, RowExists, HasContent

(* Calls of the deletion clock have their type and touch no content. *)
LEMMA ClockTypes ==
  ASSUME OrdersInvariant, FilesInvariant,
         \/ \E r \in Requests : EndOrder(r) \/ PrintOrder(r)
         \/ \E f \in Files : Reconcile(f)
         \/ \E c \in clock : CheckActive(c) \/ ClockCallDies(c)
  PROVE  clock' \subseteq ClockCalls /\ UNCHANGED <<file, objects, conv, del, disturbed>>
<1>1. clock \subseteq ClockCalls
  BY DEF FilesInvariant, RetentionTypeOK
<1>2. ASSUME NEW f \in Files, NEW at \in 0 .. 1, Call(f, at) PROVE clock' \subseteq ClockCalls
  BY <1>1, <1>2 DEF Call, ClockCalls
<1>3. \A r \in Requests : Active(r) => FileFor(r) \in Files
  <2>1. \A r \in Requests : Active(r) => Sent(r)
    BY DEF OrdersInvariant, RowsBegin, Active, ActiveStatuses, NoOrder, Sent
  <2> QED
    BY <2>1, CreationAssumption DEF OrdersInvariant, CreationTypeOK, FileFor
<1>4. CASE \E r \in Requests : EndOrder(r) \/ PrintOrder(r)
  BY <1>1, <1>2, <1>3, <1>4 DEF EndOrder, PrintOrder, Active, ActiveStatuses
<1>5. CASE \E f \in Files : Reconcile(f)
  BY <1>2, <1>5 DEF Reconcile
<1>6. CASE \E c \in clock : CheckActive(c) \/ ClockCallDies(c)
  <2> PICK c \in clock : CheckActive(c) \/ ClockCallDies(c)
    BY <1>6
  <2>1. c \in ClockCalls /\ [c EXCEPT !.step = "checked"] \in ClockCalls
    BY <1>1 DEF ClockCalls
  <2> QED
    BY <1>1, <2>1 DEF CheckActive, ClockCallDies
<1> QED
  BY <1>4, <1>5, <1>6

(* Steps that write a row but neither its document nor its deletion.          *)
KeepsContent(f) ==
  /\ file'[f].converted = file[f].converted
  /\ file'[f].status = "deleted" <=> file[f].status = "deleted"
  /\ RowExists(f) => RowExists(f)'
  /\ file'[f].queued => file[f].queued \/ RowExists(f)

(* A step on rows only that keeps contents true keeps files in order. *)
LEMMA RowsKeep ==
  ASSUME FilesInvariant, file' \in [Files -> FileRows], clock' \subseteq ClockCalls,
         UNCHANGED <<objects, conv, del, disturbed>>, \A f \in Files : KeepsContent(f)
  PROVE  FilesInvariant'
<1>1. RetentionTypeOK'
  BY DEF FilesInvariant, RetentionTypeOK
<1>2. /\ \A f \in Files : ContentOf(f)' = ContentOf(f) /\ Deleting(f)' = Deleting(f)
      /\ \A f \in Files, n \in Attempts : Converting(f, n)' = Converting(f, n)
      /\ \A f \in Files : ConversionRuns(f)' = ConversionRuns(f)
  BY DEF ContentOf, Deleting, Converting, ConversionRuns
<1>3. DeletersKnow'
  BY <1>2 DEF FilesInvariant, DeletersKnow, KeepsContent
<1>4. ConversionsKnow'
  BY <1>2 DEF FilesInvariant, ConversionsKnow, KeepsContent, HasContent
<1>5. ContentKnown'
  BY <1>2 DEF FilesInvariant, ContentKnown, KeepsContent
<1>6. QueuedExist'
  BY <1>2 DEF FilesInvariant, QueuedExist, KeepsContent
<1> QED
  BY <1>1, <1>3, <1>4, <1>5, <1>6 DEF FilesInvariant

(* Creating, ageing and clocking a row are such steps. *)
LEMMA RowStepsKeep ==
  ASSUME FilesInvariant,
         \/ \E f \in Files : CreateFileRow(f) \/ EnqueueConversion(f) \/ TimePasses(f)
         \/ \E c \in clock : StartClock(c)
  PROVE  FilesInvariant'
<1>1. file \in [Files -> FileRows] /\ clock \subseteq ClockCalls
  BY DEF FilesInvariant, RetentionTypeOK
<1>2. CASE \E f \in Files : CreateFileRow(f) \/ EnqueueConversion(f) \/ TimePasses(f)
  <2> PICK f \in Files : CreateFileRow(f) \/ EnqueueConversion(f) \/ TimePasses(f)
    BY <1>2
  <2>1. file[f] \in FileRows
    BY <1>1
  <2>2. file' \in [Files -> FileRows]
    <3>1. CASE CreateFileRow(f)
      BY <1>1, <2>1, <3>1 DEF CreateFileRow, FileRows
    <3>2. CASE EnqueueConversion(f)
      BY <1>1, <2>1, <3>2 DEF EnqueueConversion, FileRows
    <3>3. CASE TimePasses(f)
      BY <1>1, <2>1, <3>3 DEF TimePasses, FileRows
    <3> QED
      BY <3>1, <3>2, <3>3
  <2>3. \A g \in Files : KeepsContent(g)
    BY <1>1, <2>1 DEF CreateFileRow, EnqueueConversion, TimePasses, FileRows, KeepsContent, RowExists
  <2> QED
    BY <1>1, <2>2, <2>3, RowsKeep DEF CreateFileRow, EnqueueConversion, TimePasses, retention
<1>3. CASE \E c \in clock : StartClock(c)
  <2> PICK c \in clock : StartClock(c)
    BY <1>3
  <2>1. c.file \in Files /\ c.at \in 0 .. 1
    BY <1>1 DEF ClockCalls
  <2>2. file[c.file] \in FileRows
    BY <1>1, <2>1
  <2>3. file' \in [Files -> FileRows]
    BY <1>1, <2>1, <2>2 DEF StartClock, FileRows
  <2>4. \A g \in Files : KeepsContent(g)
    BY <1>1, <2>1, <2>2 DEF StartClock, FileRows, KeepsContent, RowExists
  <2> QED
    BY <1>1, <2>3, <2>4, RowsKeep DEF StartClock
<1> QED
  BY <1>2, <1>3

(* Storing an upload keeps files in order. *)
LEMMA UploadKeeps ==
  ASSUME FilesInvariant, NEW f \in Files, StoreUpload(f)
  PROVE  FilesInvariant'
<1>1. /\ file \in [Files -> FileRows] /\ file[f] \in FileRows
      /\ file' = [file EXCEPT ![f].status = "stored"] /\ file[f].status = "none"
      /\ objects' = objects \cup {<<f, 0>>} /\ UNCHANGED <<conv, clock, del, disturbed>>
  BY DEF FilesInvariant, RetentionTypeOK, StoreUpload
<1>2. /\ \A g \in Files : g # f => file'[g] = file[g] /\ ContentOf(g)' = ContentOf(g)
      /\ ContentOf(f)' = ContentOf(f) \cup {<<f, 0>>}
      /\ \A g \in Files : Deleting(g)' = Deleting(g) /\ ConversionRuns(g)' = ConversionRuns(g)
      /\ \A g \in Files, n \in Attempts : Converting(g, n)' = Converting(g, n)
      /\ file'[f].status = "stored" /\ file'[f].queued = file[f].queued
      /\ file'[f].converted = file[f].converted
  BY <1>1 DEF ContentOf, Deleting, Converting, ConversionRuns, FileRows
<1>3. ~RowExists(f) /\ ~Deleting(f) /\ ~ConversionRuns(f) /\ ~file[f].queued
  BY <1>1, NoneAssumption
     DEF RowExists, FilesInvariant, DeletersKnow, QueuedExist, Deleting, Idle
<1>4. RetentionTypeOK'
  <2>1. file' \in [Files -> FileRows]
    BY <1>1 DEF FileRows
  <2>2. objects' \subseteq Objects
    BY <1>1 DEF FilesInvariant, RetentionTypeOK, Objects
  <2> QED
    BY <1>1, <2>1, <2>2 DEF FilesInvariant, RetentionTypeOK
<1>5. DeletersKnow'
  BY <1>1, <1>2, <1>3 DEF FilesInvariant, DeletersKnow, Deleting, RowExists
<1>6. ConversionsKnow' /\ QueuedExist'
  BY <1>1, <1>2, <1>3 DEF FilesInvariant, ConversionsKnow, QueuedExist, RowExists, HasContent
<1>7. ContentKnown'
  BY <1>1, <1>2 DEF FilesInvariant, ContentKnown
<1> QED
  BY <1>4, <1>5, <1>6, <1>7 DEF FilesInvariant
(* What a step of a conversion leaves as it is: the other conversions.        *)
ConvMoves(f, n, step) ==
  /\ conv' \in [Files -> [Attempts -> ConvSteps]]
  /\ conv'[f][n] = step
  /\ \A g \in Files, m \in Attempts : <<g, m>> # <<f, n>> => conv'[g][m] = conv[g][m]

(* One delivery of a conversion moves, and no other. *)
LEMMA ConvSet ==
  ASSUME RetentionTypeOK, NEW f \in Files, NEW n \in Attempts, NEW step \in ConvSteps,
         conv' = [conv EXCEPT ![f][n] = step]
  PROVE  ConvMoves(f, n, step)
<1>1. conv \in [Files -> [Attempts -> ConvSteps]] /\ conv[f] \in [Attempts -> ConvSteps]
  BY DEF RetentionTypeOK
<1> QED
  BY <1>1 DEF ConvMoves

(* Each statement of a conversion keeps the types and moves one delivery. *)
LEMMA ConversionTypes ==
  ASSUME RetentionTypeOK, NEW f \in Files, NEW n \in Attempts,
         \/ StartConversion(f, n) \/ MarkConverting(f, n) \/ StoreConverted(f, n)
         \/ MarkReady(f, n) \/ ConversionFails(f, n) \/ ConversionDies(f, n)
  PROVE  RetentionTypeOK' /\ UNCHANGED <<clock, del>> /\ \E step \in ConvSteps : ConvMoves(f, n, step)
<1>1. /\ file \in [Files -> FileRows] /\ file[f] \in FileRows /\ objects \subseteq Objects
      /\ clock \subseteq ClockCalls /\ del \in [Deleters -> DeleterRows] /\ disturbed \subseteq Files
  BY DEF RetentionTypeOK
<1>2. UNCHANGED <<clock, del>> /\ disturbed' \subseteq Files
  BY <1>1 DEF StartConversion, MarkConverting, StoreConverted, MarkReady, ConversionFails, ConversionDies
<1>3. file' \in [Files -> FileRows]
  BY <1>1 DEF StartConversion, MarkConverting, StoreConverted, MarkReady, ConversionFails,
              ConversionDies, FileRows
<1>4. objects' \subseteq Objects
  BY <1>1 DEF StartConversion, MarkConverting, StoreConverted, MarkReady, ConversionFails,
              ConversionDies, Objects
<1>5. \E step \in ConvSteps : conv' = [conv EXCEPT ![f][n] = step]
  BY DEF StartConversion, MarkConverting, StoreConverted, MarkReady, ConversionFails,
              ConversionDies, ConvSteps
<1>6. \E step \in ConvSteps : ConvMoves(f, n, step)
  BY <1>5, ConvSet
<1>7. conv' \in [Files -> [Attempts -> ConvSteps]]
  BY <1>6 DEF ConvMoves
<1> QED
  BY <1>1, <1>2, <1>3, <1>4, <1>6, <1>7 DEF RetentionTypeOK
(* Only the file of the conversion can lose what the invariant says of it.    *)
LEMMA OnlyThisFile ==
  ASSUME FilesInvariant, RetentionTypeOK', NEW f \in Files, UNCHANGED del,
         \A g \in Files \ {f} :
           /\ file'[g] = file[g] /\ ContentOf(g)' = ContentOf(g) /\ conv'[g] = conv[g]
           /\ g \in disturbed' <=> g \in disturbed,
         RowExists(f)',
         f \notin disturbed' =>
           /\ f \notin disturbed
           /\ Deleting(f) => ContentOf(f)' \subseteq ContentOf(f)
           /\ \A n, m \in Attempts : Converting(f, n)' /\ Converting(f, m)' => n = m
           /\ ConversionRuns(f)' => file'[f].converted = 0 /\ ~Deleting(f) /\ HasContent(f)'
           /\ ContentOf(f)' \subseteq {<<f, 0>>, <<f, file'[f].converted>>}
                \cup {<<f, n>> : n \in {m \in Attempts : conv'[f][m] = "stored"}}
           /\ file'[f].status = "deleted" => ContentOf(f)' = {}
  PROVE  FilesInvariant'
<1>1. /\ \A g \in Files : Deleting(g)' = Deleting(g)
      /\ \A g \in Files \ {f} : /\ ConversionRuns(g)' = ConversionRuns(g)
                                /\ RowExists(g)' = RowExists(g) /\ HasContent(g)' = HasContent(g)
                                /\ \A n \in Attempts : Converting(g, n)' = Converting(g, n)
  BY DEF Deleting, ConversionRuns, Converting, RowExists, HasContent
<1>2. DeletersKnow'
  <2> SUFFICES ASSUME NEW d \in Deleters, del[d] # Idle
               PROVE  /\ del[d].file \in Files /\ RowExists(del[d].file)'
                      /\ del[d].file \notin disturbed' => ContentOf(del[d].file)' \subseteq
                           (IF del[d].step = "erase" THEN del[d].keys ELSE {})
    BY DEF DeletersKnow
  <2>1. /\ del[d].file \in Files /\ RowExists(del[d].file)
        /\ del[d].file \notin disturbed => ContentOf(del[d].file) \subseteq
                           (IF del[d].step = "erase" THEN del[d].keys ELSE {})
    BY DEF FilesInvariant, DeletersKnow
  <2>2. CASE del[d].file = f
    <3>1. Deleting(f)
      BY <2>2 DEF Deleting
    <3> QED
      BY <2>1, <2>2, <3>1
  <2>3. CASE del[d].file # f
    BY <1>1, <2>1, <2>3
  <2> QED
    BY <2>2, <2>3
<1>3. ConversionsKnow'
  <2> SUFFICES ASSUME NEW g \in Files \ disturbed'
               PROVE  /\ \A n, m \in Attempts : Converting(g, n)' /\ Converting(g, m)' => n = m
                      /\ ConversionRuns(g)' =>
                           file'[g].converted = 0 /\ ~Deleting(g)' /\ HasContent(g)'
    BY DEF ConversionsKnow
  <2>1. CASE g = f
    BY <1>1, <2>1
  <2>2. CASE g # f
    BY <1>1, <2>2 DEF FilesInvariant, ConversionsKnow
  <2> QED
    BY <2>1, <2>2
<1>4. ContentKnown'
  <2> SUFFICES ASSUME NEW g \in Files \ disturbed'
               PROVE  /\ ContentOf(g)' \subseteq {<<g, 0>>, <<g, file'[g].converted>>}
                           \cup {<<g, n>> : n \in {m \in Attempts : conv'[g][m] = "stored"}}
                      /\ file'[g].status = "deleted" => ContentOf(g)' = {}
    BY DEF ContentKnown
  <2>1. CASE g = f
    BY <2>1
  <2>2. CASE g # f
    BY <2>2 DEF FilesInvariant, ContentKnown
  <2> QED
    BY <2>1, <2>2
<1>5. QueuedExist'
  BY <1>1 DEF FilesInvariant, QueuedExist
<1> QED
  BY <1>2, <1>3, <1>4, <1>5 DEF FilesInvariant

(* Each statement of a conversion keeps files in order. *)
LEMMA ConversionKeeps ==
  ASSUME FilesInvariant, NEW f \in Files, NEW n \in Attempts,
         \/ StartConversion(f, n) \/ MarkConverting(f, n) \/ StoreConverted(f, n)
         \/ MarkReady(f, n) \/ ConversionFails(f, n) \/ ConversionDies(f, n)
  PROVE  FilesInvariant'
<1>1. RetentionTypeOK' /\ UNCHANGED del /\ \E step \in ConvSteps : ConvMoves(f, n, step)
  BY ConversionTypes DEF FilesInvariant
<1>2. /\ file \in [Files -> FileRows] /\ file[f] \in FileRows
      /\ conv \in [Files -> [Attempts -> ConvSteps]] /\ conv' \in [Files -> [Attempts -> ConvSteps]]
      /\ \A g \in Files, m \in Attempts : <<g, m>> # <<f, n>> => conv'[g][m] = conv[g][m]
  BY <1>1 DEF FilesInvariant, RetentionTypeOK, ConvMoves
<1>3. \A g \in Files \ {f} :
        /\ file'[g] = file[g] /\ ContentOf(g)' = ContentOf(g) /\ conv'[g] = conv[g]
        /\ g \in disturbed' <=> g \in disturbed
  <2>1. \A g \in Files \ {f} : file'[g] = file[g] /\ (g \in disturbed' <=> g \in disturbed)
    BY <1>2 DEF StartConversion, MarkConverting, StoreConverted, MarkReady, ConversionFails,
                ConversionDies
  <2>2. \A g \in Files \ {f} : ContentOf(g)' = ContentOf(g)
    BY DEF StartConversion, MarkConverting, StoreConverted, MarkReady, ConversionFails,
           ConversionDies, ContentOf
  <2>3. \A g \in Files \ {f} : conv'[g] = conv[g]
    <3>1. ASSUME NEW g \in Files \ {f} PROVE conv'[g] = conv[g]
      <4>1. conv'[g] \in [Attempts -> ConvSteps] /\ conv[g] \in [Attempts -> ConvSteps]
        BY <1>2
      <4>2. \A m \in Attempts : conv'[g][m] = conv[g][m]
        BY <1>2
      <4> QED
        BY <4>1, <4>2
    <3> QED
      BY <3>1
  <2> QED
    BY <2>1, <2>2, <2>3
<1>4. disturbed \subseteq disturbed' /\ RowExists(f)
  BY DEF StartConversion, MarkConverting, StoreConverted, MarkReady, ConversionFails, ConversionDies,
         Delivered, ConversionRuns, Converting, FilesInvariant, QueuedExist
<1>5. \A m \in Attempts \ {n} : Converting(f, m)' = Converting(f, m)
  BY <1>2 DEF Converting
<1>6. CASE StartConversion(f, n)
  <2>1. /\ UNCHANGED <<file, objects>> /\ conv[f][n] = "idle"
        /\ conv'[f][n] = (IF file[f].status = "deleted" THEN "done" ELSE "started")
        /\ f \notin disturbed' => ~ConversionRuns(f) /\ file[f].converted = 0 /\ ~Deleting(f)
    BY <1>2, <1>6 DEF StartConversion, Delivered
  <2>2. RowExists(f)' /\ ContentOf(f)' = ContentOf(f)
    BY <1>4, <2>1 DEF RowExists, ContentOf
  <2>3. \A m \in Attempts : conv'[f][m] = "stored" <=> conv[f][m] = "stored"
    BY <1>2, <2>1
  <2>4. ASSUME f \notin disturbed'
        PROVE  /\ \A m, k \in Attempts : Converting(f, m)' /\ Converting(f, k)' => m = k
               /\ ConversionRuns(f)' => HasContent(f)'
    <3>1. \A m \in Attempts \ {n} : ~Converting(f, m)'
      BY <1>5, <2>1, <2>4 DEF ConversionRuns
    <3>2. ConversionRuns(f)' => Converting(f, n)'
      BY <3>1 DEF ConversionRuns
    <3>3. Converting(f, n)' => file[f].status # "deleted"
      BY <2>1 DEF Converting
    <3> QED
      BY <2>1, <2>2, <3>1, <3>2, <3>3 DEF HasContent
  <2>5. ASSUME f \notin disturbed'
        PROVE  /\ ContentOf(f)' \subseteq {<<f, 0>>, <<f, file'[f].converted>>}
                    \cup {<<f, k>> : k \in {m \in Attempts : conv'[f][m] = "stored"}}
               /\ file'[f].status = "deleted" => ContentOf(f)' = {}
    BY <1>4, <2>1, <2>2, <2>3, <2>5 DEF FilesInvariant, ContentKnown
  <2> QED
    BY <1>1, <1>3, <1>4, <2>1, <2>2, <2>4, <2>5, OnlyThisFile
<1>7. CASE StoreConverted(f, n)
  <2>1. /\ UNCHANGED <<file, disturbed>> /\ Converting(f, n) /\ conv'[f][n] = "stored"
        /\ objects' = objects \cup {<<f, n>>}
    BY <1>2, <1>7 DEF StoreConverted, Converting
  <2>2. RowExists(f)' /\ ContentOf(f)' = ContentOf(f) \cup {<<f, n>>}
    BY <1>4, <2>1 DEF RowExists, ContentOf
  <2>3. ASSUME f \notin disturbed
        PROVE  /\ file[f].converted = 0 /\ ~Deleting(f) /\ HasContent(f)
               /\ \A m \in Attempts : Converting(f, m) => m = n
    BY <2>1, <2>3 DEF FilesInvariant, ConversionsKnow, ConversionRuns
  <2>4. \A m \in Attempts \ {n} : conv'[f][m] = "stored" <=> conv[f][m] = "stored"
    BY <1>2
  <2>5. HasContent(f)' = HasContent(f) /\ (HasContent(f) => file[f].status # "deleted")
    BY <2>1 DEF HasContent, RowExists
  <2>6. ASSUME f \notin disturbed
        PROVE  ContentOf(f)' \subseteq {<<f, 0>>, <<f, file'[f].converted>>}
                    \cup {<<f, k>> : k \in {m \in Attempts : conv'[f][m] = "stored"}}
    BY <2>1, <2>2, <2>4, <2>6 DEF FilesInvariant, ContentKnown
  <2>7. f \notin disturbed => \A m, k \in Attempts : Converting(f, m)' /\ Converting(f, k)' => m = k
    BY <1>5, <2>3
  <2> QED
    BY <1>1, <1>3, <2>1, <2>2, <2>3, <2>5, <2>6, <2>7, OnlyThisFile
<1>8. CASE MarkReady(f, n)
  <2>1. /\ UNCHANGED <<objects, disturbed>> /\ Converting(f, n) /\ conv'[f][n] = "done"
        /\ file'[f].status = "ready" /\ file'[f].converted = n
    BY <1>2, <1>8 DEF MarkReady, Converting, FileRows
  <2>2. RowExists(f)' /\ ContentOf(f)' = ContentOf(f)
    BY <2>1 DEF RowExists, ContentOf
  <2>3. ASSUME f \notin disturbed
        PROVE  /\ file[f].converted = 0 /\ ~Deleting(f)
               /\ \A m \in Attempts : Converting(f, m) => m = n
    BY <2>1, <2>3 DEF FilesInvariant, ConversionsKnow, ConversionRuns
  <2>4. f \notin disturbed => ~ConversionRuns(f)'
    <3>1. ~Converting(f, n)'
      BY <2>1 DEF Converting
    <3> QED
      BY <1>5, <2>3, <3>1 DEF ConversionRuns
  <2>5. ASSUME f \notin disturbed
        PROVE  ContentOf(f)' \subseteq {<<f, 0>>, <<f, file'[f].converted>>}
    <3>1. \A m \in Attempts : conv[f][m] = "stored" => m = n
      BY <2>3, <2>5 DEF Converting
    <3> QED
      BY <2>1, <2>2, <2>3, <2>5, <3>1 DEF FilesInvariant, ContentKnown
  <2>6. f \notin disturbed => \A m, k \in Attempts : Converting(f, m)' /\ Converting(f, k)' => m = k
    BY <2>4 DEF ConversionRuns
  <2> QED
    BY <1>1, <1>3, <2>1, <2>2, <2>3, <2>4, <2>5, <2>6, OnlyThisFile
<1>9. CASE MarkConverting(f, n) \/ ConversionFails(f, n) \/ ConversionDies(f, n)
  <2>1. /\ UNCHANGED objects /\ Converting(f, n) /\ conv'[f][n] \in {"working", "retry", "done"}
        /\ file'[f].converted = file[f].converted
        /\ file'[f].status \in {file[f].status, "converting", "failed"}
        /\ f \notin disturbed' => conv[f][n] # "stored"
    BY <1>2, <1>9 DEF MarkConverting, ConversionFails, ConversionDies, Converting, FileRows
  <2>2. RowExists(f)' /\ ContentOf(f)' = ContentOf(f)
    BY <1>4, <2>1 DEF RowExists, ContentOf
  <2>3. ASSUME f \notin disturbed'
        PROVE  /\ f \notin disturbed /\ file[f].converted = 0 /\ ~Deleting(f) /\ HasContent(f)
               /\ \A m \in Attempts : Converting(f, m) => m = n
    BY <1>4, <2>1, <2>3 DEF FilesInvariant, ConversionsKnow, ConversionRuns
  <2>4. f \notin disturbed' => \A m \in Attempts : conv'[f][m] = "stored" <=> conv[f][m] = "stored"
    BY <1>2, <2>1
  <2>5. f \notin disturbed' => file'[f].status # "deleted" /\ HasContent(f)'
    BY <2>1, <2>2, <2>3 DEF HasContent
  <2>6. f \notin disturbed' => \A m, k \in Attempts : Converting(f, m)' /\ Converting(f, k)' => m = k
    BY <1>5, <2>3
  <2>7. ASSUME f \notin disturbed'
        PROVE  ContentOf(f)' \subseteq {<<f, 0>>, <<f, file'[f].converted>>}
                    \cup {<<f, k>> : k \in {m \in Attempts : conv'[f][m] = "stored"}}
    BY <2>1, <2>2, <2>3, <2>4, <2>7 DEF FilesInvariant, ContentKnown
  <2> QED
    BY <1>1, <1>3, <2>1, <2>2, <2>3, <2>5, <2>6, <2>7, OnlyThisFile
<1> QED
  BY <1>6, <1>7, <1>8, <1>9
(* A deleter that takes a file on has all its content listed.                 *)
LEMMA PickKeeps ==
  ASSUME FilesInvariant, NEW d \in Deleters, NEW f \in Files, PickDue(d, f)
  PROVE  FilesInvariant'
<1> DEFINE row == [file |-> f, step |-> "erase", keys |-> KeysForDeletion(f)]
<1>1. /\ file \in [Files -> FileRows] /\ file[f] \in FileRows /\ del \in [Deleters -> DeleterRows]
      /\ del' = [del EXCEPT ![d] = row] /\ UNCHANGED <<file, objects, conv, clock>>
      /\ disturbed' = (IF ConversionRuns(f) THEN disturbed \cup {f} ELSE disturbed)
      /\ RowExists(f)
  BY DEF FilesInvariant, RetentionTypeOK, PickDue, Due, IsDue, HasContent
<1>2. row \in DeleterRows
  BY <1>1 DEF DeleterRows, KeysForDeletion, Objects, FileRows
<1>3. RetentionTypeOK'
  BY <1>1, <1>2 DEF FilesInvariant, RetentionTypeOK
<1>4. /\ \A e \in Deleters \ {d} : del'[e] = del[e]
      /\ del'[d] = row
      /\ \A g \in Files : ContentOf(g)' = ContentOf(g) /\ ConversionRuns(g)' = ConversionRuns(g)
      /\ \A g \in Files, n \in Attempts : Converting(g, n)' = Converting(g, n)
      /\ \A g \in Files : RowExists(g)' = RowExists(g) /\ HasContent(g)' = HasContent(g)
      /\ \A g \in Files : Deleting(g)' => Deleting(g) \/ g = f
  BY <1>1 DEF ContentOf, ConversionRuns, Converting, RowExists, HasContent, Deleting
<1>5. f \notin disturbed' => ContentOf(f) \subseteq KeysForDeletion(f)
  <2> SUFFICES ASSUME f \notin disturbed' PROVE ContentOf(f) \subseteq KeysForDeletion(f)
    OBVIOUS
  <2>1. ~ConversionRuns(f) /\ f \notin disturbed
    BY <1>1
  <2>2. \A n \in Attempts : conv[f][n] # "stored"
    BY <2>1 DEF ConversionRuns, Converting
  <2>3. ContentOf(f) \subseteq {<<f, 0>>, <<f, file[f].converted>>}
    BY <2>1, <2>2 DEF FilesInvariant, ContentKnown
  <2> QED
    BY <2>3 DEF KeysForDeletion
<1>6. DeletersKnow'
  BY <1>1, <1>4, <1>5 DEF FilesInvariant, DeletersKnow
<1>7. ConversionsKnow'
  BY <1>1, <1>4 DEF FilesInvariant, ConversionsKnow
<1>8. ContentKnown' /\ QueuedExist'
  BY <1>1, <1>4 DEF FilesInvariant, ContentKnown, QueuedExist
<1> QED
  BY <1>3, <1>6, <1>7, <1>8 DEF FilesInvariant

(* What goes from the store, and a deleter that stops or goes on.             *)
LEMMA RemovalKeeps ==
  ASSUME FilesInvariant, NEW d \in Deleters, del[d] # Idle, NEW gone \in SUBSET del[d].keys,
         objects' = objects \ gone, UNCHANGED <<file, conv, clock, disturbed>>,
         \/ del' = [del EXCEPT ![d] = Idle]
         \/ /\ del[d].step = "erase" /\ gone = del[d].keys
            /\ del' = [del EXCEPT ![d].step = "mark"]
  PROVE  FilesInvariant'
<1>1. /\ del \in [Deleters -> DeleterRows] /\ del[d] \in DeleterRows /\ Idle \in DeleterRows
      /\ objects \subseteq Objects
  BY DEF FilesInvariant, RetentionTypeOK, DeleterRows, Idle
<1>2. RetentionTypeOK'
  <2>1. del' \in [Deleters -> DeleterRows]
    BY <1>1 DEF DeleterRows
  <2> QED
    BY <1>1, <2>1 DEF FilesInvariant, RetentionTypeOK
<1>3. /\ \A e \in Deleters \ {d} : del'[e] = del[e]
      /\ \/ del'[d] = Idle
         \/ /\ gone = del[d].keys /\ del[d].step = "erase"
            /\ del'[d].file = del[d].file /\ del'[d].step = "mark"
  BY <1>1 DEF DeleterRows
<1>4. /\ \A g \in Files : ContentOf(g)' = ContentOf(g) \ gone
      /\ \A g \in Files : ConversionRuns(g)' = ConversionRuns(g)
      /\ \A g \in Files, n \in Attempts : Converting(g, n)' = Converting(g, n)
      /\ \A g \in Files : RowExists(g)' = RowExists(g) /\ HasContent(g)' = HasContent(g)
  BY DEF ContentOf, ConversionRuns, Converting, RowExists, HasContent
<1>5. \A g \in Files : Deleting(g)' => Deleting(g)
  BY <1>3, NoneAssumption DEF Deleting, Idle
<1>6. DeletersKnow'
  BY <1>3, <1>4 DEF FilesInvariant, DeletersKnow
<1>7. ConversionsKnow'
  BY <1>4, <1>5 DEF FilesInvariant, ConversionsKnow
<1>8. ContentKnown' /\ QueuedExist'
  BY <1>4 DEF FilesInvariant, ContentKnown, QueuedExist
<1> QED
  BY <1>2, <1>6, <1>7, <1>8 DEF FilesInvariant

(* Marking a file deleted after its objects went keeps files in order. *)
LEMMA MarkKeeps ==
  ASSUME FilesInvariant, NEW d \in Deleters, MarkDeleted(d)
  PROVE  FilesInvariant'
<1> DEFINE f == del[d].file
<1>1. /\ file \in [Files -> FileRows] /\ del \in [Deleters -> DeleterRows]
      /\ del[d] # Idle /\ del[d].step = "mark" /\ f \in Files /\ RowExists(f)
      /\ UNCHANGED <<objects, conv, clock, disturbed>>
      /\ f \notin disturbed => ContentOf(f) = {}
  <2>1. /\ del[d] # Idle /\ del[d].step = "mark" /\ UNCHANGED <<objects, conv, clock, disturbed>>
    BY DEF MarkDeleted, Idle
  <2> QED
    BY <2>1 DEF FilesInvariant, RetentionTypeOK, DeletersKnow
<1>2. /\ del' = [del EXCEPT ![d] = Idle] /\ Idle \in DeleterRows
      /\ file' = [file EXCEPT ![f].status = "deleted", ![f].converted = 0]
  BY DEF MarkDeleted, DeleterRows, Idle
<1>3. /\ file' \in [Files -> FileRows] /\ del' \in [Deleters -> DeleterRows]
      /\ \A g \in Files \ {f} : file'[g] = file[g]
      /\ file'[f].status = "deleted" /\ file'[f].converted = 0 /\ file'[f].queued = file[f].queued
      /\ \A e \in Deleters \ {d} : del'[e] = del[e]
      /\ del'[d] = Idle
  BY <1>1, <1>2 DEF FileRows
<1>4. /\ \A g \in Files : ContentOf(g)' = ContentOf(g) /\ ConversionRuns(g)' = ConversionRuns(g)
      /\ \A g \in Files, n \in Attempts : Converting(g, n)' = Converting(g, n)
      /\ \A g \in Files : RowExists(g) => RowExists(g)'
      /\ \A g \in Files \ {f} : HasContent(g)' = HasContent(g)
  BY <1>1, <1>3 DEF ContentOf, ConversionRuns, Converting, RowExists, HasContent
<1>5. /\ \A g \in Files : Deleting(g)' => Deleting(g)
      /\ Deleting(f)
  BY <1>1, <1>3, NoneAssumption DEF Deleting, Idle
<1>6. RetentionTypeOK'
  BY <1>1, <1>3 DEF FilesInvariant, RetentionTypeOK
<1>7. DeletersKnow'
  BY <1>1, <1>3, <1>4 DEF FilesInvariant, DeletersKnow
<1>8. ConversionsKnow'
  BY <1>1, <1>3, <1>4, <1>5 DEF FilesInvariant, ConversionsKnow
<1>9. ContentKnown'
  BY <1>1, <1>3, <1>4 DEF FilesInvariant, ContentKnown
<1>10. QueuedExist'
  BY <1>1, <1>3, <1>4 DEF FilesInvariant, QueuedExist
<1> QED
  BY <1>6, <1>7, <1>8, <1>9, <1>10 DEF FilesInvariant

(* Every step keeps files in order. *)
LEMMA FilesInductive ==
  ASSUME OrdersInvariant, FilesInvariant, [Next]_vars
  PROVE  FilesInvariant'
<1>1. CASE UNCHANGED <<file, retention>>
  <2>1. clock' \subseteq ClockCalls
    BY <1>1 DEF retention, FilesInvariant, RetentionTypeOK
  <2> QED
    BY <1>1, <2>1, CallsKeep DEF retention
<1>2. CASE \/ \E r \in Requests : EndOrder(r) \/ PrintOrder(r)
           \/ \E f \in Files : Reconcile(f)
           \/ \E c \in clock : CheckActive(c) \/ ClockCallDies(c)
  BY <1>2, ClockTypes, CallsKeep
<1>3. CASE \/ \E f \in Files : CreateFileRow(f) \/ EnqueueConversion(f) \/ TimePasses(f)
           \/ \E c \in clock : StartClock(c)
  BY <1>3, RowStepsKeep
<1>4. CASE \E f \in Files : StoreUpload(f)
  BY <1>4, UploadKeeps
<1>5. CASE \E f \in Files, n \in Attempts :
             \/ StartConversion(f, n) \/ MarkConverting(f, n) \/ StoreConverted(f, n)
             \/ MarkReady(f, n) \/ ConversionFails(f, n) \/ ConversionDies(f, n)
  BY <1>5, ConversionKeeps
<1>6. CASE \E f \in Files, d \in Deleters : PickDue(d, f)
  BY <1>6, PickKeeps
<1>7. CASE \E d \in Deleters : Erase(d) \/ DeletionFails(d)
  <2> PICK d \in Deleters : Erase(d) \/ DeletionFails(d)
    BY <1>7
  <2>1. CASE Erase(d)
    <3>1. /\ del[d] # Idle /\ del[d].keys \in SUBSET del[d].keys
          /\ objects' = objects \ del[d].keys /\ UNCHANGED <<file, conv, clock, disturbed>>
          /\ del[d].step = "erase" /\ del' = [del EXCEPT ![d].step = "mark"]
      BY <2>1 DEF Erase, Idle
    <3> QED
      BY <3>1, RemovalKeeps
  <2>2. CASE DeletionFails(d)
    BY <2>2, RemovalKeeps DEF DeletionFails
  <2> QED
    BY <2>1, <2>2
<1>8. CASE \E d \in Deleters : MarkDeleted(d)
  BY <1>8, MarkKeeps
<1> QED
  BY <1>1, <1>2, <1>3, <1>4, <1>5, <1>6, <1>7, <1>8 DEF Next, FileNext, vars

-----------------------------------------------------------------------------
(* The theorems. *)

(* At the start there is no file, order or request. *)
LEMMA RetentionInit == Init => RetentionInvariant
<1> SUFFICES ASSUME Init PROVE RetentionInvariant
  OBVIOUS
<1>1. MaxRequests \in Nat /\ None \notin Requests /\ MaxLost \in Nat /\ MaxFaults \in Nat
  BY CreationAssumption DEF Requests
<1>2. /\ \A r \in Requests : ~Sent(r) /\ ~Active(r) /\ order[r] = NoOrder
      /\ \A f \in Files : OrdersOn(f) = {}
  BY DEF Init, CreationInit, Sent, Active, ActiveStatuses, NoOrder, OrdersOn
<1>3. CreationTypeOK
  <2>1. page \in [Pages -> PageRows] /\ NoOrder \in Orders
    BY <1>1 DEF Init, CreationInit, PageRows, NoOrder, Orders, Rank, Inserted
  <2>2. req \in [Requests -> RequestRows]
    BY DEF Init, CreationInit, RequestRows, Steps
  <2> QED
    BY <1>1, <1>2, <2>1, <2>2 DEF Init, CreationInit, CreationTypeOK, PageRows, RequestRows
<1>4. FormsCount
  BY <1>1, <1>2 DEF Init, CreationInit, FormsCount, FormCounts
<1>5. RowsBegin /\ RowsCounted
  <2>1. Stamped = {} /\ Committed = {}
    BY <1>2 DEF Stamped, Committed, NoOrder
  <2>2. Cardinality(Stamped) = 0 /\ Cardinality(Committed) = 0
    BY <2>1, FS_EmptySet
  <2> QED
    BY <1>2, <2>2 DEF Init, CreationInit, RowsBegin, RowsCounted, NoOrder
<1>6. OrdersInvariant
  BY <1>2, <1>3, <1>4, <1>5
     DEF Init, CreationInit, OrdersInvariant, LockIsHeld, FreeForLock, OnePerLock, CheckedFirst,
         Critical, Inserting
<1>7. FilesInvariant
  <2>1. RetentionTypeOK
    BY RetentionAssumption DEF Init, RetentionTypeOK, FileRows, ConvSteps, DeleterRows, Idle
  <2>2. /\ \A f \in Files : ~ConversionRuns(f) /\ ContentOf(f) = {}
        /\ \A f \in Files, n \in Attempts : ~Converting(f, n)
    BY DEF Init, ConversionRuns, Converting, ContentOf
  <2> QED
    BY <2>1, <2>2 DEF Init, FilesInvariant, DeletersKnow, ConversionsKnow, ContentKnown, QueuedExist
<1> QED
  BY <1>6, <1>7 DEF RetentionInvariant

(* What the lock guards, who works on a file, and what the store   *)
(* holds of it (jobs/routes.ts, conversion.ts, fileRetention.ts).             *)
THEOREM RetentionInvariantHolds == Spec => []RetentionInvariant
<1>1. ASSUME RetentionInvariant, [Next]_vars PROVE RetentionInvariant'
  BY <1>1, OrdersInductive, FilesInductive DEF RetentionInvariant
<1> QED
  BY <1>1, RetentionInit, PTL DEF Spec

(* One file never backs two live orders while the lock is kept, nor without   *)
(* it unless the younger of two checked orders was committed first.           *)
THEOREM OneLiveOrderHolds == Spec => []OneLiveOrder
<1>1. RetentionInvariant => OneLiveOrder
  <2> SUFFICES ASSUME RetentionInvariant, NEW f \in Files,
                      NEW r \in OrdersOn(f), NEW s \in OrdersOn(f), r # s, Active(r), Active(s)
               PROVE  /\ {r, s} \cap slipped # {}
                      /\ order[r].checked /\ order[s].checked => CommittedOutOfTurn(r, s)
    BY DEF OneLiveOrder
  <2>1. r \in Requests /\ s \in Requests
    BY DEF OrdersOn
  <2>2. {r, s} \cap slipped # {}
    BY DEF RetentionInvariant, OrdersInvariant, OnePerLock
  <2>3. /\ order[r].stamp \in Nat /\ order[s].stamp \in Nat
        /\ order[r].seq \in Nat /\ order[s].seq \in Nat
    <3>1. \A n \in Rank : n \in Nat
      BY CreationAssumption DEF Rank
    <3> QED
      BY <2>1, <3>1 DEF RetentionInvariant, OrdersInvariant, CreationTypeOK, Orders
  <2>4. order[r].stamp # order[s].stamp
    BY <2>1 DEF RetentionInvariant, OrdersInvariant, RowsBegin, RowsCounted
  <2>5. /\ order[s].checked /\ order[r].stamp < order[s].stamp => order[r].seq > order[s].seq
        /\ order[r].checked /\ order[s].stamp < order[r].stamp => order[s].seq > order[r].seq
    BY DEF RetentionInvariant, OrdersInvariant, CheckedFirst
  <2>6. ASSUME order[r].checked, order[s].checked PROVE CommittedOutOfTurn(r, s)
    BY <2>3, <2>4, <2>5, <2>6 DEF CommittedOutOfTurn
  <2> QED
    BY <2>2, <2>6
<1> QED
  BY <1>1, RetentionInvariantHolds, PTL

(* Of a file marked deleted neither the upload nor a converted document is    *)
(* left, unless its conversion was torn.                                      *)
THEOREM NothingLeftBehindHolds == Spec => []NothingLeftBehind
<1>1. RetentionInvariant => NothingLeftBehind
  <2> SUFFICES ASSUME RetentionInvariant, NEW f \in Files \ disturbed, file[f].status = "deleted"
               PROVE  ~\E o \in objects : o[1] = f
    BY DEF NothingLeftBehind
  <2>1. ContentOf(f) = {}
    BY DEF RetentionInvariant, FilesInvariant, ContentKnown
  <2> QED
    BY <2>1 DEF ContentOf
<1> QED
  BY <1>1, RetentionInvariantHolds, PTL
================================================================================
