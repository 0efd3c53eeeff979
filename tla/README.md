# PrintQ: a TLA+ development

PrintQ lets students prepare a print order on the phone, stand in a live line at
a print shop, pay at the counter and collect the paper. This directory models
the parts of it where several actors change the same rows at once, checks them
with TLC on small instances, and proves the safety of most of them with TLAPS
for instances of every size.

Paths below are relative to `src/`; `api/` stands for `apps/api/src/`, `web/` for
`apps/web/src/`, `agent/` for `apps/agent/src/`.

## 1. Inventory

All lasting state is in PostgreSQL, with locks and counters in Redis. The API
(`apps/api`, Express and Prisma) and its workers (BullMQ, in the same process or
in one of their own) keep next to nothing in memory: the map `flights` of
`api/modules/queue/bands.ts` is the exception. Print agents (`apps/agent`) run on
the computers of a shop; students, staff and owners use one web client.
There is little row locking: a handler reads a row, awaits other things, and
then writes, at best with `UPDATE ... WHERE status = <what it read>`
(`applyTransition`). Nearly every question below is whether that guard says enough.

| Component | State | Operations | Meets | Hard because | Correct when |
|---|---|---|---|---|---|
| Order state machine (`packages/shared/src/stateMachine.ts`, `api/modules/jobs/transitions.ts`) | `Job.status` | one guarded update per event | everything | read and write are apart | every status write is an entry of the table |
| Print dispatch and leases (`api/modules/agents`, `jobs/printLease.ts`, `jobs/printCompletion.ts`) | claim, session, attempts, spool mark, error of a job; heartbeat and session of an agent | claim, download, complete, fail, heartbeat, sweep, confirm | agents, staff, timers | crashes, restarts, late and repeated reports | no paper without permission; a lost print comes back to staff; one outcome |
| Computers, printers, desktop app (`api/modules/agents`, `shops/printerTest.ts`, `agent/desktop.ts`) | detected and reachable printers, test results, processes of the app | report, link, test, remove, start, restart | owner, engines, timers | lists read and written back, two engines at once | a linked printer becomes reachable; an accepted test was printed |
| Counter desk and release (`web/pages/shop/Dashboard.tsx`, `api/modules/queue/release.ts`) | code field and panels; printer and payment of an order | look up, confirm, release, assign | staff, line, dispatch | panels, answers and requests of different orders | staff confirmed what is released; payments and collections agree |
| Walk-in line (`api/modules/queue/bands.ts`, `engine.ts`, `packages/shared/src/queueBands.ts`) | `queuedAt`, `revealedAt`, `revealDeadlineAt`, `counterCapacity`, `flights` | check-in, cancel, absence, timers, reveal pass, sweep | students, staff, timers, several processes | snapshots, coalesced passes, lost wake-ups, the same status twice | the counter is neither overfilled nor left idle; students are called in order |
| Order creation (`api/modules/jobs/routes.ts`, `lib/idempotency.ts`) | new jobs, Redis keys and locks | create, replay, withdraw | order form, files | checks without locks, expiring locks | one live order per file |
| Files (`api/modules/files`, `workers/conversion.ts`, `lib/fileRetention.ts`) | file status, deletion clock, objects | upload, convert, schedule, delete | order creation, confirmation | clock against new orders, conversion against deletion | every file is deleted in the end, with all of its content |
| Upload and status pages (`web/pages/student/ShopLanding.tsx`, `JobStatus.tsx`) | what the page shows and waits for | post, poll, push, refresh | files, orders | late, lost and reordered answers | the student is answered; the page ends up showing the order as it is |
| Fees and commission (`api/modules/fees`, `commission`) | entries, statements, payment orders, block | post, freeze, order, settle, block | payment provider, confirmation | repeated and late webhooks, replaced orders | each capture is credited once; the balance adds up; an overdue shop is blocked |
| Prices (`packages/shared/src/pricing.ts`, `pageRange.ts`, `capability.ts`, `web/pages/student/NewJob.tsx`, `Settings.tsx`) | menu and its version, quotes, coupon | save a menu, quote, order | owner, students | quotes out of order, a menu that changes | the student is charged what was shown |
| Accounts and sessions (`api/modules/auth`, `middleware`, `web/api.ts`, `web/firebasePhoneAuth.ts`) | session version, codes, brake, token in the browser | sign in, reset, renew, sign out | tabs, requests in flight | late answers, several statements per request | a session belongs to the present password; a signed-out student stays so |
| Shop life (`api/modules/shops`, `admin`) | status, publication, pause, block, waiting students | edit, submit, decide, publish, reopen | owner, administrators, heartbeats | decisions on rows read earlier | a decision stands; a ready shop goes live; who waits is told, but for the messages that are lost |
| Shop location (`web/components/ShopLocationEditor.tsx`, `lib/geocode.ts`, `lib/locationFlow.ts`, `lib/setupPolling.ts`, `pages/shop/ShopSetup.tsx`, `ShopRegister.tsx`) | pin and address of the page, what the editor filled in, numbers of lookups and positions, the step of the checklist | place, detect, look up, search, choose, type, save, poll | map service, device, owner | answers in any order, requests that outlive the editor that sent them | label and address are of the pin; typed text stays; a saved location shows |
| Outboxes (`api/providers/fcm/outbox.ts`, `realtime/projections.ts`) | deliveries, leases, projections | send, drain | every transition | leases, order of writes | each is delivered; the newest state wins |
| Refunds of the retired payment model, reports, discovery, providers, configuration, scripts | views, adapters | | | | not modelled, see 7 |

`PROJECT.json` lists every component with what is modelled of it, and the
hazards of the code at the lines where they bite.

## 2. Modules

```
JobStateMachine       abstract: the table of statuses
  ^ implemented by
PrintDispatch         from release to hand-over: agents, leases, staff, sweep
  PrintDispatchProps, PrintDispatch_proofs, MCPrintDispatch
CounterQueue          the line with its interleavings; uses QueueBands, the band rule
  CounterQueueProps, CounterQueue_proofs, MCCounterQueue

CounterDesk           the dashboard's desk and releaseByOtp
  CounterDesk_proofs, MCCounterDesk  (checked with the prices by MCCounter)

OrderCreation         the order form and POST /jobs
  ^ composed with the file by
FileRetention         upload, conversion, deletion clocks, deletion
  FileRetention_proofs, MCFileRetention
UploadScreen          the upload page          (checked by MCFilesAndUploads)

FeeBalance            abstract: what moves a shop's balance
  ^ implemented by
FeeLedger             entries, statements, payments, block
  ShopOffice_proofs, MCFeeLedger

Pricing               price, page range, capability as operators
  ^ used by
Checkout              menus, quotes, coupon, orders;  Checkout_proofs, MCCheckout

Sessions              accounts, codes, brake, tokens
  Sessions_proofs, MCSessions  (checked with the order forms by MCClients)
ShopLife              review, publication, availability;  ShopLife_proofs
LocationEditor        where the shop is: form, pin, editor, checklist
  ShopOffice_proofs, MCLocation
  the last two are instantiated by MCShop
PrinterSetup          computers, printers, tests;  ShopOffice_proofs
Outboxes              notifications and projections
StudentScreen         the status page
  the last three are instantiated by MCBackground
```

### How a handler becomes actions

A handler that reads, awaits and writes is a *read* action, which checks the
early returns and leaves a record with exactly what the code keeps
in local variables, and a *write* action, whose guard is the `WHERE` clause of the
update and whose effect is its `data`. Between the two, anything can
happen, also nothing ever again: a process may die (`Drop`, `Lost`, `Die`,
`HandlerDies`, `ConversionDies`). A handler of several statements (`POST /jobs`,
`releaseByOtp`, `confirmPasswordReset`) has one action for each, and a field
`step` that says how far it is. Handlers whose read and write are one statement
or one locking transaction are one action. Variables whose comment begins with
*history* exist for the properties and guard no action.

### What stands for what

| Module | Model | Code |
|---|---|---|
| PrintDispatch | `job[j]`, `agent[a]` | columns of `Job` and `Agent` that the handlers read |
| | `process`, `work` | the agent process on the computer, and how far its `printJob` is with each order |
| | `credit`, `slips`, `steady` | history: permissions minus documents printed; failures hidden by a late mark; whether the claiming process has been working all along |
| | `ClaimStart`, `ClaimCommit`; `ReportComplete`, `SpoolWrite`, `ConfirmWrite`; `ReportFailure`, `FailWrite` | `/claim`, `/complete`, `/fail` |
| | `Connect`, `SendBeat`, `BeatArrives`, `ReportPrinters`; `Sweep`, `LoseWrite` | `reconcileAgentSession`; `failOrphanedPrints`, `markPrintFailedAgentGone` |
| | `StaffRetry`, `RetryWrite`, `Dispatch`, `NoAgentWrite`, `StaffReturn`, `StaffConfirm`, `Handover` | the buttons of the dashboard and `dispatchJob` |
| CounterQueue | `place`, `visit`, `revealed`, `deadline`; `now` | `queuedAt`, `checkInCount`, `revealedAt` (the visit it was written in), `revealDeadlineAt`; the time of day it is compared with |
| | `sync`, `flight[p]` | processes with a `reconcileShopQueue` under way; their entry of `flights` |
| | `PassRead`, `PassWrite` | the statement of `lockedRevealPass`: ranks on its snapshot, then row updates re-checked against the current row |
| | `CheckInRead`, `CancelRead`, `AbsentRead`, `ExpireRead`, `GraceRead`, `CloseRead`, `LookUp`, `ReleaseRead` and `Write(r)` | the handlers of `engine.ts`, `jobs/routes.ts`, `release.ts` |
| CounterDesk | `desk[d]`, `list[d]`, `call[c]` | code field and panels of a dashboard, the rows it lists, a request and the statement it is at |
| OrderCreation | `page`, `req`, `order`, `idem`, `lock`; `lost` | the form's key (`attempt`: how often it was drawn) and the answer it awaits, the handler, the row, the Redis entries; history: requests whose answer the network lost |
| FileRetention | `file`, `objects`, `conv`, `clock`, `del` | `UploadedFile`, the object store, deliveries of the conversion, calls of `scheduleEarlierDeletion`, deleters |
| UploadScreen | `landing`, `document`, `posts`, `polls` | the state of `ShopLanding.tsx`, the document at the server, requests under way |
| StudentScreen | `mine`, `screen`, `reads`, `arrival` | the order, what the page shows, its refreshes, the optimistic check-in |
| FeeLedger | `posted`, `line`, `stmt`, `pay`, `alloc`, `shop` | entries, statement lines, statements, fee orders, allocations, the block |
| | `freeze`; `captured`, `credits` | the transaction that freezes a statement, with the payments its snapshot shows; what the provider took, and history: the orders credited, in order |
| Checkout | `menus`, `tab`, `page`, `quotes`, `order` | `printOptions` by version, Settings tabs, order pages, quote requests, `POST /jobs` |
| Sessions | `acct`, `token`, `device`, `call`, `renewal`, `signin`, `code`, `confirm`, `brake` | the account row, the token in storage, the Firebase device, requests, the renewal promise, sign-ins, code rows, confirmations, the PIN counter |
| ShopLife | `shop`, `printer`, `agent`, `interest`, `flight`; `noticed`, `waiting` | the rows, and handlers as lists of steps still to do; students who have an outbox row of the key `shop-reopened:<shop>`, and history: those promised a message and not told yet |
| PrinterSetup | `printer`, `computer`, `report`, `linkCall`, `removal`, `app`, `engine`, `page`, `result` | rows, the calls that write them back, the desktop app and its processes, test pages and their results |
| LocationEditor | `form`; `pin`, `address`, `card`, `reads` | `ShopRegister`, with the pin it leaves in the browser; the state of `ShopSetup`, its save and status requests |
| | `editor[e]`; `asks`, `looks`, `finds` | the editors shown one after the other, with their refs; positions, lookups and searches under way |
| | `strayed` | history: a hidden editor has moved the pin or written the address |
| Outboxes | `row`, `sender`, `events`, `drain`, `doc` | `NotificationDelivery`, a sender's batch, projection events, the drain, the Firestore documents |

Times are classes, not numbers: an age is 0 inside the grace of a heartbeat, 1
past it, 2 past the lease and claim timeouts, because the code compares them with
nothing else. The deadlines of the line are the exception, because the absent timer
compares one with a time it took earlier: there a clock `now` counts in a unit
longer than a pass may last (its timeout is 20 s, the shortest grace 30 s), a reveal writes
`now` plus the grace, and API and worker read the same clock. Error texts are classes by
what the code does with them.

## 3. Runs

All instances are small because the properties are about pairs: two computers on
one job, two students for one place, one handler between another's read and
write. Every bound is a named constant, and its comment says *bound*.

| Run | Instance | What it shows |
|---|---|---|
| `dispatch` | 1 job with binding, 2 processes for each computer; contested: 2 computers, one of them without session ids, 2 attempts; or lost: 1 attempt of 1 computer, which may fall silent, go offline or be deleted as the other was, a heartbeat in transit, simulated completion allowed | competing claims, restarts, late reports and staff never print without permission (`PrintBudget`), never both refund and confirm (`OneOutcome`), and follow the table (`FollowsStateMachine`); a working computer is not robbed (`WorkingComputerKeepsJob`), every print is confirmed or handed back (`EveryPrintSettles`) |
| `line_races` | 2 students (symmetric), one place, two processes that serve requests, one of them with the timers, two handlers of people and two of timers in flight | no wake-up is lost (`QuietLineIsServed`), the counter is not overfilled (`RevealsFitCounter`), calls go by the line (`StaysCalledInOrder`), a paid order is not cancelled (`PaidOrderStands`) |
| `line_repair` | a row of the retired timed-turn model, in the line and paid online or out of it and owing, which its student may forget and the hourly batch close; an order that may come back once; capacity 1 or 2, one fault, time up to the last deadline | a reveal keeps to its stay (`RevealBelongsToStay`), the absent timer strikes only an overdue one of the stay it read (`TimerStrikesItsReveal`); places are filled and deadlines end (`FreeSlotIsFilled`, `DeadlineEnds`) |
| `counter` | 1 desk, 2 orders, 2 printers, 2 requests under way, 5 acts of staff, 1 move of the line; or 2 students, 2 Settings tabs, 2 menus (one without colour), 2 sets of options, a coupon for one, 3 changes (all symmetric) | `ConfirmedWhatWasShown`, `ReleaseIsKept`; `TotalBelongsToOptions`, `ChargedAsShown` |
| `clients` | 1 file, 2 forms (symmetric), 3 requests, 1 lost answer, 1 fault of any kind; or 1 browser with 2 tabs, 2 requests, 2 confirmations (all symmetric), 1 code with 2 attempts, a brake of 1 PIN that ends once, 2 tokens, 2 passwords | `OneLiveOrder`; `SessionHasPassword`, `GuessesAreLimited`, `SignedOutStaysOut` |
| `order_retry` | 1 file, 1 form, 2 requests, 1 lost answer, 1 fault | expected to fail: a retry after a network failure makes a second order (`RetryMakesNoSecondOrder`, section 6) |
| `file_retention` | 1 file, 2 orders, 2 deliveries of the conversion, both clocks, 1 deleter; and an upload page with 2 documents | `NothingLeftBehind`, `FileGoneForGood`, `StudentIsAnswered` |
| `fees` | 2 prints of commission 1 and 2, 2 weeks, 2 payment orders, 1 lifted block, 1 switch of payments | the ledger implements `FeeBalance` (`BooksBalance`); allocations, payments and statements agree (`AllocationsAddUp`); `EveryCaptureIsCredited`, `OverdueShopIsBlocked` |
| `shop` | 1 shop, 1 student, 2 edits, 2 decisions, 1 outage, 2 handlers under way; or 2 places, 2 editors one after the other, 3 acts of the owner, 2 status reads under way | `AdminDecisionStands`, `ReviewedFactsShown`, `ReadyShopGoesLive`, `WaitingStudentIsTold`; `EditorFollowsPin`, `SavedLocationShows` |
| `shop_reopened` | 1 shop, 1 student, 3 acts, 1 handler under way | expected to fail: a second reopening drops a student untold (`WaitingStudentIsListed`, section 6) |
| `location_typed` | the places and editors of `shop` with 4 acts and 1 read | expected to fail: what a comment says of the editor is not what it does (section 6) |
| `background` | 2 senders, 2 notifications, 2 orders; or 2 computers, 2 printers, 3 engines, 2 tests; or a status page with 2 refreshes | `NotificationIsSent`, `ProjectionCatchesUp`; `AcceptedTestWasPrinted`, `LinkedPrinterIsReached`; `StudentScreenCatchesUp` |

Why the bounds are enough to be interesting: `MaxProcess = 2` gives one restart;
`MaxAttempts = 2` one reprint after a failure or a staff retry; `MaxPending` one
or two handlers between read and write beside the sweep's; `MaxVisit = 2` a
student who leaves and comes back, which is what it takes to meet an old timer,
an old check-in or an old reveal again; three requests of two forms are a repeat
and a rival; two deliveries of a conversion are the queue's repeat; two passwords
and two tokens are one reset and a session on either side of it; `MaxAttempts = 2`
and `MaxPins = 1` replace five, which the code compares with a counter and nothing
else; `MaxPolls`, `MaxTries`, `MaxRetries` replace 2, 3 and 3 in the same way. Three
acts are a pin, a text typed over its address and a second pin. The graces are one
unit, since the timer compares a deadline only with the time; messages go through the
outbox of FCM (`FcmEnabled`), which has the key that silences a second one. The safety properties of
these runs are also proved for every value of the bounds (section 5), and some windows are
left to those proofs. With one handler of staff or student beside the sweep's
(`MaxPending = 1`), and no beat in transit in the contested scene, `dispatch` does not put a
second claim or report between the two statements of a first: see `BudgetKept`, `OneOutcomeHolds`,
`QueueFollowsStateMachine` and `ImplementsStateMachine`. `line_races` has one capacity and one stay per
order: a capacity lowered during a pass is covered by `RevealsFitCounterHolds`, a student who leaves
and rejoins at the back by `StaysCalledInOrderHolds`.

`dispatch` bounds one instance in two ways (`Contested` and `Lost` of MCPrintDispatch); a behaviour keeps to one of
them. `background`, `clients`, `counter`, `file_retention` and `shop` check components that share nothing: a behaviour
moves one of them while the others are at rest with no fair action enabled, which
saves a TLC start for each and multiplies no states.

Deadlock is not checked: a shop whose orders are handed over, a student who
left, and a counter at its bound have nothing left to do.
Symmetry is used only where names are interchangeable and only in runs
without liveness.

For every property of every run `PROJECT.json` names a mutant: a plausible bug,
defined in a module beside the definition it replaces, under which TLC finds the
property violated. They document which line of the code a property rests on.

## 4. Fairness

Students, staff, owners, administrators and payment providers owe nothing
anywhere. What is fair is what a timer repeats or a running process continues.

| Run | Fair | Because |
|---|---|---|
| `dispatch` | time passes, a heartbeat in transit ends; strongly: the sweep of a job and its write | the worker repeats the sweep every thirty seconds (`workers/index.ts`) and does not die before its write every single time |
| `line_repair` | time passes, processes finish passes and handlers, the sweep repeats, a deadline is picked up | BullMQ timers and the ten-second sweep (`engine.ts:608`) |
| `file_retention` | time; strongly: a deleter picks a due file and completes its two steps. Upload page: timers, requests, workers; strongly: an answer to a poll | the sweep repeats every minute, and neither the object store nor the network fails it every time; pushes may always be lost |
| `fees` | the reconciler for each payment order, the evaluation of the block | repeated jobs of the worker; webhooks and callbacks may never come |
| `shop` | heartbeats, printer reports, the calls they make, the stale sweep | repeated by the agent every thirty seconds; a handler may still die while the outages last |
| | the page polls while the step is not done, a refresh is sent; strongly: a read that says done is answered | `setupPolling.ts` repeats every eight seconds while the page is visible and the shop is not ready; not every read fails |
| `background` | senders go on, leases lapse, the drain repeats; the desktop app continues its starts, an engine reports, requests end; the page polls and is read, strongly answered | intervals of the worker, the agent and the page |

## 5. What is proved

TLAPS proves the following for every set of orders, computers, printers, students,
files, requests and processes, and every value of the bounds, from the named
assumptions of the modules (`DispatchAssumption`, `QueueAssumption`, ...: sets that
are counted are finite, bounds are naturals, `None` is not a member of the sets it
stands beside). Every theorem has the form `Spec => []Inv`, `Spec => [][A]_vars`
or `Spec => Abstract!Spec`, by an inductive invariant: `Init => IInv`, one lemma
per action or group of actions for `IInv /\ [Next]_vars => IInv'`, and
`IInv => Inv`. TLC checked each invariant on the run's instance first.

Every safety property of the passing runs of section 3 is a theorem.

| Module | Theorems | What the inductive invariant adds to the properties |
|---|---|---|
| `PrintDispatch_proofs` | `TypeCorrect`, `PrintInvariantHolds`, `BudgetKept`, `OneOutcomeHolds`, `SettledForGoodHolds`, `WorkingComputerKeepsJobHolds`, `ImplementsStateMachine` | see below |
| `CounterQueue_proofs` | `QueueTypeCorrect`, `QueueInvariantHolds`, `RevealBelongsToStayHolds`, `RevealsFitCounterHolds`, `TimerStrikesItsRevealHolds`, `PaidOrderStandsHolds`, `StaysCalledInOrderHolds`, `QueueFollowsStateMachine`, `PassAppliesBandsHolds`, `BandsGoByPlace`, `QuietLineIsServedHolds` | see below |
| `CounterDesk_proofs` | `DeskTypeCorrect`, `DeskInvariantHolds`, `ConfirmedWhatWasShownHolds`, `CollectionsAreRecordedHolds`, `PrinterOfReleaseStaysHolds` and both as `ReleaseIsKeptHolds` | an open panel is about the code in the input until an answer comes late (`PanelsShowInput`); an override or a payment in a panel, an answer, a request or a write was agreed to (`PanelsAgreed`, `CallsAgreed`); a request between its two statements belongs to a released order (`CallsFitOrders`) |
| `FileRetention_proofs` | `RetentionInvariantHolds`, `OneLiveOrderHolds`, `NothingLeftBehindHolds` | who holds the lock between which statements (`LockIsHeld`), and that a file read as free is free of those who did not slip until the insert commits (`FreeForLock`); stamps and commit numbers are counts, and a checked order was committed before every older one (`CheckedFirst`); the store holds of an undisturbed file the upload, the row's conversion and one just stored (`ContentKnown`), and a deleter listed all of it (`DeletersKnow`) |
| `Checkout_proofs` | `CheckoutInvariantHolds`, `TotalBelongsToOptionsHolds`, `ChargedAsShownHolds` | each answer, quote and order carries the price of its own key on a menu the shop has had (`AnswersPriced`, `PagesPriced`, `OrdersPriced`); menus only grow |
| `Sessions_proofs` | `SessionsTypeCorrect`, `SessionInvariantHolds`, `SessionHasPasswordHolds`, `CodeWorksOnceHolds`, `WrongPinsBoundedHolds` and both as `GuessesAreLimitedHolds`, `SignedOutStaysOutHolds` | every token, stored or on its way, is of the present password or of an older version (`TokensAreFresh`); comparisons of a code, done and to be done, are within its tries (`CodesAreCounted`); sign-ins being looked at and wrong PINs hold slots (`SlotsAreCounted`); a signed-out browser has nothing that could renew (`NothingRenews`) |
| `ShopLife_proofs` | `ShopInvariantHolds`, `AdminDecisionStandsHolds`, `ReviewedFactsShownHolds` | what a parked submission may have read (`SubmissionsMayCount`), where a shop taken away rests (`DecisionKept`), the facts of a verified shop whether shown or not (`ReviewKept`) |
| `ShopOffice_proofs`, printers | `SetupInvariantHolds`, `ReleasedOrderHasPrinterHolds`, `AcceptedTestWasPrintedHolds` | a removal that counted no order still has none, but for one that crossed it (`RemovalCounted`); a result under way that says accepted is of a page a spooler took (`ResultsWereSpooled`) |
| `ShopOffice_proofs`, location | `LocationInvariantHolds`, `LabelIsOfPinHolds`, `AddressFollowsPinHolds` and both as `EditorFollowsPinHolds`, `TypedStaysButForStraysHolds` | one editor is on show (`OneEditorShown`); no lookup is ahead of its editor's number, no position of an editor not yet born (`LooksNumbered`, `AsksOfBorn`); without a stray the lookup that still counts is of the pin on show (`LookupIsOfPin`) |
| `ShopOffice_proofs`, ledger | `LedgerInvariantHolds`, `AllocationsAddUpHolds`, `BooksBalanceHolds` | see below |

`PrintDispatch_proofs`. `PrintBudget` alone is not inductive: a step that prints
uses up permission, so the invariant has to count the permissions that are
promised and not yet used. `BudgetCovered` does: one for every computer that has the
document in hand, and one more if it can still be downloaded (`Obtainable`). That
needs `ClaimsAreFresh` (a job waiting for staff has no claimant, and no computer
believes it holds a job that was not started for it) and `LossesWaitForStaff`
(whoever takes a print away marks it for staff). `WorkingComputerKeepsJob` needs
`ClaimIsSafe`: before the first attempt nobody has decided to take the job away;
while the claimant works nobody decides to; and every heartbeat under way that
was sent before the claim and so denies the job is still within the grace that
`printLease.ts:142` gives. The last part holds because such a heartbeat was
sent by the claimant before the claim, and a job ages past the grace only when
no heartbeat is in transit: the model's form of the code's premise that a message
arrives within two heartbeat intervals. `ImplementsStateMachine`: each
action moves at most one order, along one of the listed `Moves`, and each of those
is in the table.

`CounterQueue_proofs`. The invariant adds to the types that places are distinct,
also those that check-ins under way will write (`PlacesDiffer`); that a handler
holds a status it accepts (`ReadStatuses`); that only orders in the line are
revealed, in the stay they are in (`RevealedInLine`, `RevealBelongsToStay`); and that
a pass holding the lock has picked no more than fits (`PicksFit`). The last rests on
lemma `FewRanked`: among distinct places at most n have a rank of n or less,
which needs the first. `PaidOrderStands` follows from `LiveOrdersOwe`: the payment
is taken in the update that leaves the live statuses, so an order whose status a
later cancellation still finds live has not been paid. `StaysCalledInOrder`
follows from `PicksInOrder`: the picks are a prefix of the line as the snapshot
ranked it (ranks are monotone in places), a stay of the snapshot can only be
followed by a later one, and so of two students who still stand in the stays
that were seen the one ahead is picked first.
`PassAppliesBands` says that the rule of the counter, written once in SQL by
ranks and once in TypeScript as a pass over the line that counts the free places
down, is one rule. The pass is a recursive function; along the line by ascending
place, what is left of the free places after a student is the free places less the ranks
used up, by induction on the position (`GeneralInduction` is out of reach, so the least
position at which it fails is taken). `BandsGoByPlace` is the sentence of
`queueBands.ts:37-38` that ties `assignBands` to `queueBand`. `QuietLineIsServed` needs
`FreeSlotIsSeen`: while nothing has failed and a place is free for somebody who waits,
a reconcile is due, a pass has yet to read the line, or one that has read it will be followed by another
(a call that came meanwhile left `flight[p].next`) or picked enough to fill the counter or
to call all who wait; each writer either leaves the line as it is or reconciles after its write.
A shop without a worker would have nobody to do so: `QueueAssumption` asks for one.
The guard of the absent timer knows no stay; it compares the deadline it finds with the time
taken before its read. `TimerStrikesItsReveal` rests on `TimersKeepTime`: at the time a timer took, the deadline of
the stay it read had passed, and any reveal since has a deadline after that time, so a
deadline that the guard lets through is still that of the stay.

`ShopOffice_proofs` on the ledger. The balance is never stored: it is what the entries
not yet on a statement, the outstanding parts of the statements and the prepaid
rests of the payments add up to. The proof first builds the sums: over a finite set, as the
library's `SumFunctionOnSet` defines them, a sum is empty at the empty set, takes in one
member at a time and changes by what one summand changes (`SumEmpty`, `SumAdd`, `SumChange`,
`SumPlus`, `SumSplit`). Each is an induction on the cardinality, done by a least
counterexample. Every action is then a move of `FeeBalance` or leaves its variables
alone: posting adds an entry that was not there, freezing moves the entries of a week
to a statement and prepaid rests into `paid`, a capture splits its amount among
statements and rest. The invariant beneath: only posted entries are on a statement
(`LinesOfPosted`), an order exists exactly when it has an amount and orders are
numbered without gaps (`OrdersPriced`, `OrdersNumbered`), only a credited payment has
allocations and a rest, and each is credited once (`NothingPrepaid`, `CreditsOnce`), no
statement is paid beyond its amount (`NoneOverpaid`), what the provider took was
ordered (`CapturedWereAsked`), and while a freeze waits between its reads and its
writes its statement is not there (`FreezeWaits`). `AllocationsAddUp` is part of
it: the parts of a payment and its rest are the payment, and the parts a statement got
are what it shows as paid.

The theorems of PrinterSetup and LocationEditor are about `SetupSpec` and `LocationSpec`, the
specifications without the siblings of `MCBackground` and without fairness; those of FileRetention about `Spec`, of whose next-state
relation the one of `clients` is a part.

Only model-checked:

* the liveness properties (fairness and ENABLED are out of the prover's reach):
  `EveryPrintSettles`, `FreeSlotIsFilled`, `DeadlineEnds`, `FileGoneForGood`,
  `StudentIsAnswered`, `EveryCaptureIsCredited`, `OverdueShopIsBlocked`,
  `ReadyShopGoesLive`, `WaitingStudentIsTold`, `NotificationIsSent`,
  `ProjectionCatchesUp`, `LinkedPrinterIsReached`, `StudentScreenCatchesUp`,
  `SavedLocationShows`;
* what `Pricing` computes: Checkout_proofs reasons about prices without opening
  `Total`.

## 6. Where the code does more, or less, than it says

Nearly every property is stated for what the code does, and where a comment or a
reader would expect more, the exception is part of the property. Three comments are
stated as they stand, and a run refutes each.

`location_typed`: `web/lib/geocode.ts:81` says an address "may be overwritten by a lookup only while
it is empty or machine-filled" (`TypedAddressStays`). The clean-up of
`ShopLocationEditor.tsx:41` drops the lookup but not the position asked for
(`detectSeq` stays): when it comes, it moves the pin under the editor shown since, and its
lookup judges the address by what the hidden editor was last rendered with, and
writes over text typed since. `TypedStaysButForStrays` holds: nothing else does.

`order_retry`: `NewJob.tsx:214-215` says "a network failure keeps the key so a retry cannot
create a second order" (`RetryMakesNoSecondOrder`). `send` (`web/api.ts:218-225`) makes
every failed fetch an `ApiError(0)`, and the next line, `NewJob.tsx:216`, draws a new key for any `ApiError`; only an answer
whose body cannot be read leaves the old one. What stands between the retry and a second order is
then the lock on the file and the check for a rival, and where the lock fails open and two
orders commit against the order of their `createdAt`, both stay. `OneLiveOrder` has the same
exception; with the key the retry would have been refused.

`shop_reopened`: `availability.ts:68` says that students who wait are told
(`WaitingStudentIsListed`). The event key of the message is the same at every reopening (line 82), and the
outbox upserts by student and key with `update: {}` (`fcm/outbox.ts:24-35`): at the second reopening a student who was
told once gets nothing, while his new request is deleted (line 86).

The exceptions, and other things met while modelling:

**Dispatch.**
`spoolAcceptedAt` is written only while it is null and is not cleared by a retry
(`printCompletion.ts:94`), so a second attempt inherits the mark and the timeout of
the first. `retry-print` reads, awaits and writes by id (`shops/routes.ts:1025`): it can take a
job from a computer that was quicker. A failure report that was checked in time
can be applied to the next attempt (`agents/routes.ts:332`).
`jobs/printLease.ts:159` says a re-claim wins over the sweep; the guard
compares the claimant only, so a sweep that read an earlier claim can fail a later
print of the same computer, and `WorkingComputerKeepsJob` is stated for the first
attempt. `agents/routes.ts:26` says a failure that waits for staff is never
re-printed automatically; the second statement of a claim (line 179) can start such
a job, and `PrintBudget` says that no extra paper comes of it. A "no agent" mark
decided before a failure that waits for staff can overwrite it (`engine.ts:754`),
after which the job may print again unasked: `slips` counts exactly those.

**Line.**
`engine.ts:489` says only a fresh check-in brings an absent student back; a second
request read before the absence does too (line 403). `engine.ts:713` tells the student
he did not check in, of a batch read once (line 699), when he may have come and been marked
absent since. `bands.ts:264` says students are called in queue order; one who
rejoins at the back while the statement waits for his row keeps the rank of the
snapshot (line 193), so `StaysCalledInOrder` is stated for the stays the pass saw.
A reveal just after a lookup read the row arms a timer nobody disarms (`release.ts:143`),
and a lookup that is never finished leaves a revealed student without a deadline (line 146).

**Desk.**
`release.ts:32` and `:234-235` require staff to verify the amount and to agree to
serve out of turn. The panels are cleared with every new code, but an answer that comes after the
next code was typed opens its panel over it, and what staff then confirm is sent
with the other code: the exception in `ConfirmedWhatWasShown`. The dashboard
has no poll: without a push it shows what it last read.

**Orders and files.**
Two orders can share a file when a lock lapsed and their commits came out of turn.
An order inserted after a deleter read the orders of a file (`conversion.ts:225`, or
the batch of line 291) and before the objects are deleted loses its file. An order whose process dies between INSERT and code allocation
stays `pending_payment`. The counter code is checked for uniqueness and written in two
statements (`engine.ts:237`): two orders of one shop may get the same. `SECURITY.md:99` says the deletion clock is restarted at every terminal outcome;
`scheduleEarlierDeletion` only ever moves it earlier. A conversion that finishes
late brings a deleted row back until the next sweep.

**Upload page.**
It shows a failure while the queue retries the conversion (`conversion.ts:186`); it waits for
ever on a document that was deleted or whose job the queue gave up
(`ShopLanding.tsx:57-70`); a late poll of an earlier document resets it or takes it to the options.

**Prices.**
A stale Settings tab must not overwrite a newer menu (`schema.prisma:225-226`,
`shops/routes.ts:269`). A tab that saves anything else takes the version in the
answer for that of the menu it still shows (`Settings.tsx:301`), and its next menu
save overwrites the newer one unnoticed. A coupon's limit is checked when
an order is priced and counted after it was inserted.

**Sessions.**
A 401 of a request that carried an older token clears a token stored since
(`api.ts:270`, `ShopSignedIn.tsx:20`). A renewal in flight at the sign-out signs the student
in again (`firebasePhoneAuth.ts:138-139`). The slot a sign-in gives back after its
window ended leaves the counter of the next at minus one.

**Shop.**
A submission or a save decided on an older row can undo a decision or show
facts nobody reviewed: `overtaken` in the two invariants. An edit between the read and the write of an
administrator's verification counts as reviewed. Only the console asks that a shop be live before
it is unpublished, the handler does not (`admin/routes.ts:551`); the decision is followed where it took a
shown shop away. The list of waiting
students is deleted without being read again (`availability.ts:86`), so who asks during the round is not told,
and neither is a student whose message fails, because a failure to send or to enqueue is caught for
each (`notification/index.ts:24`): the exceptions of `WaitingStudentIsTold`. `feeBlockedAt` refuses uploads as well as orders
(`files/routes.ts:158`). The notice of a block is lost when the process dies after
the block (`enforcement.ts:69`), and a fee notice left pending is not retried (`notices.ts:114`).

**Location.**
`api/modules/shops/routes.ts:113-114` says legitimate use of the map "never has more than 2
in flight". The debounce of the editor spaces lookups and aborts none, so an owner who moves the
pin while a search and a lookup are slow has three requests under way; the limit
refuses the third, which reads as a pin without an address.

**Computers.**
`agents/routes.ts:94-95` says owners can still override which printers a computer reaches; its next report
undoes that (line 102). Two overlapping starts of the desktop app leave two engines
(`desktop.ts:113-123`), whose sessions take jobs from each other through
`reconcileAgentSession`. A spawn that fails with `error` and no `exit` is not
restarted. A test page that was spooled but whose answer was lost is reported failed.

## 7. Not modelled, and what it costs

* Who may call: authorization, limits per address, opening hours and geofence
  outside Sessions. The models let any student, staff member or computer of the shop
  act whenever the rows allow it.
* In PrintDispatch the walk-in line is one status, `queued`; in CounterQueue the
  order ends at `otp_verified`; in CounterDesk the line is a status of each order
  that moves by itself. The three meet in the release and are not composed.
* CounterDesk: every order is paid at the shop; a dashboard's refresh is one step; the
  panel offers any printer.
* UploadScreen: the student is signed in, a wrong slug is "no such shop", the notice
  that it takes long is left out. StudentScreen: place, waiting time and rating
  are left out, at most one student stands in front.
* PrinterSetup: a profile is named after its Windows printer, all engines see all
  of them; quitting and relaunching the app is left out.
* ShopLife: name, address, campus and location are one number, 0 for a shop without a
  location; the menu is never empty; the fifteen-second cache is left out.
* LocationEditor: a text is empty, the pinned text, typed, or what the map calls a place; an owner's
  typed texts are not told apart; places are points without a distance; the registration request
  succeeds at once, and the map service may fail or find nothing at any time.
* Sessions: the brake has one key per account; registration and administrators are left out.
* Outboxes: a Firebase call that delivers to some devices counts as delivered; one
  maintenance worker drains the projections.
* FeeLedger: notices by e-mail. Pricing: the rounding of floating-point numbers
  before they become paise.
* Refunds of online payments: only orders of the retired payment model reach them. A process that
  dies between reserving a refund and recording it leaves the order `refunding` (`refund.ts:23`).
* Earnings reports, receipts, discovery, exports: queries over the state of the others.
* Storage, payment, push and configuration adapters: pure I/O, present as what may fail,
  repeat or be lost in the modules that use them.
* Scheduled orders and `preparePayAtShopOrder`, which has no caller.

Where types are proved (`TypeOK` and its siblings) no run repeats them as an invariant; nor does
one repeat `PassAppliesBands`, `ReleasedOrderHasPrinter` and `TypedStaysButForStrays`, which are theorems.

## 8. Plan

1. A composition of CounterDesk, CounterQueue and PrintDispatch at the release, with
   `JobStateMachine` as the abstract specification of the whole.
2. Safety of `Outboxes`: no row is leased for ever, a lapsed lease is the only way to send twice.
