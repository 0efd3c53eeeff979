------------------------------ MODULE Checkout ------------------------------
(***************************************************************************)
(* Prices between the owner who changes them and the students who order by *)
(* them: the tabs of the owner's Settings page with the version they send  *)
(* along, the order page with its quotes under way, the coupon, and the    *)
(* order, which the server prices anew.                                    *)
(***************************************************************************)
EXTENDS Pricing, Sequences

CONSTANTS
  Tabs,           \* Settings pages the owner has open
  Students,       \* students with a converted file at this shop
  MenuChoices,    \* menus an owner may type in
  SpecChoices,    \* options a student may choose
  FirstSpecs,     \* the options the page starts with
  Profiles,       \* printer profiles of the shop
  Coupon,         \* the coupon students may know, with its redemption limit
  Pages,          \* pages of every document
  MarkupBps,      \* PLATFORM_MARKUP_BPS
  MaxActs         \* bound: changes typed or chosen by owner and students together

(* percent 0: a fixed amount.  limit: maxRedemptions.                         *)
Coupons == [percent: 0 .. 100, paise: Nat, limit: Nat]

ASSUME CheckoutAssumption ==
  /\ FirstSpecs \in SpecChoices /\ Pages \in Nat /\ MarkupBps \in 0 .. 10000
  /\ Coupon \in Coupons /\ MaxActs \in Nat

VARIABLES
  menus,     \* printOptions by version; the last is the shop's menu
  redeemed,  \* redeemedCount of the coupon
  tab,       \* the Settings tabs
  page,      \* the order pages
  quotes,    \* quote requests under way
  placed,    \* the order each student prepares
  acts       \* bound: changes so far

owner == <<menus, tab>>
student == <<page, quotes, placed, redeemed>>
checkoutVars == <<owner, student, acts>>

Acts == acts < MaxActs /\ acts' = acts + 1

-----------------------------------------------------------------------------
Version == Len(menus)
Menu == menus[Version]

(* What a quote or an order is about. *)
Key(specs, coupon) == [specs |-> specs, coupon |-> coupon]
OnScreen(s) == Key(page[s].specs, page[s].coupon)

Unpriced == [ok |-> FALSE, total |-> 0, version |-> 0]
NoQuote == [key |-> None, ok |-> FALSE, total |-> 0, version |-> 0]
NoOrder == [step |-> "none", key |-> None, shown |-> 0, seen |-> 0, total |-> 0, version |-> 0]

(* Fault: any quote at hand will do. *)
ShowsAny(s) == page[s].quote.ok

(* The quote answers exactly the options on screen, and they can be made.     *)
Shows(s) == page[s].quote.ok /\ page[s].quote.key = OnScreen(s)

Total(menu, key) ==
  LET full == StudentPrice(menu, key.specs, Pages, MarkupBps)
  IN  IF key.coupon THEN full - Discount(Coupon, full) ELSE full

Valid(coupon) == coupon => redeemed < Coupon.limit

(* computePrice has a price for them; and some printer can produce them.       *)
Priceable(specs) == OnMenu(Menu, specs, Pages)
Orderable(specs) == Priceable(specs) /\ Producible(Profiles, specs)

(* Rows and states.  Amounts: what the orders of the page can cost.            *)
Keys == [specs: SpecChoices, coupon: BOOLEAN]
Amounts ==
  {0} \cup {Total(x[1], x[2]) : x \in {y \in MenuChoices \X Keys : OnMenu(y[1], y[2].specs, Pages)}}

TabStates ==
  [step: {"open", "sent", "compared", "written"}, form: MenuChoices, draft: MenuChoices,
   saved: MenuChoices, version: Nat, other: BOOLEAN, changed: BOOLEAN]
Quotes == [key: Keys \cup {None}, ok: BOOLEAN, total: Amounts, version: Nat]
PageStates == [specs: SpecChoices, coupon: BOOLEAN, quote: Quotes, due: BOOLEAN]
QuoteRequests ==
  [student: Students, kind: {"timer", "coupon"}, key: Keys, answered: BOOLEAN,
   answer: [ok: BOOLEAN, total: Amounts, version: Nat]]
OrderStates ==
  [step: {"none", "sent", "priced", "resolved", "inserted", "prepared"},
   key: Keys \cup {None}, shown: Amounts, seen: Nat, total: Amounts, version: Nat]

CheckoutInit ==
  /\ menus \in [1 .. 1 -> MenuChoices]
  /\ redeemed = 0
  /\ tab = [t \in Tabs |-> [step |-> "open", form |-> menus[1], draft |-> menus[1], saved |-> menus[1],
                            version |-> 1, other |-> FALSE, changed |-> FALSE]]
  /\ page \in [Students -> [specs: {FirstSpecs}, coupon: {FALSE}, quote: {NoQuote}, due: {TRUE}]]
  /\ quotes = {}
  /\ placed = [s \in Students |-> NoOrder]
  /\ acts = 0

-----------------------------------------------------------------------------
(* The Settings page and PATCH /me.  form is the menu in the fields, draft the *)
(* one being saved; saved and version are the baseline the page compares with  *)
(* and sends.                                                                 *)

EditMenu(t, m) ==
  /\ Acts
  /\ tab[t].form # m
  /\ tab' = [tab EXCEPT ![t].form = m]
  /\ UNCHANGED <<menus, student>>

EditOther(t) ==
  /\ Acts
  /\ tab[t].step = "open" /\ ~tab[t].other
  /\ tab' = [tab EXCEPT ![t].other = TRUE]
  /\ UNCHANGED <<menus, student>>

(* buildSettingsPatch: only what differs from the baseline is sent.           *)
Sends(t) == tab[t].draft # tab[t].saved

Save(t) ==
  /\ tab[t].step = "open" /\ (tab[t].form # tab[t].saved \/ tab[t].other)
  /\ tab' = [tab EXCEPT ![t].step = "sent", ![t].draft = tab[t].form]
  /\ UNCHANGED <<acts, menus, student>>

Compare(t) ==
  /\ tab[t].step = "sent"
  /\ tab' = [tab EXCEPT ![t].step = "compared", ![t].changed = Sends(t) /\ tab[t].draft # Menu]
  /\ UNCHANGED <<acts, menus, student>>

(* Only a menu write is checked against the version the tab sent.             *)
WriteMenu(t) ==
  /\ tab[t].step = "compared"
  /\ \/ /\ ~tab[t].changed
        /\ tab' = [tab EXCEPT ![t].step = "written"]
        /\ UNCHANGED menus
     \/ /\ tab[t].changed /\ tab[t].version = Version
        /\ menus' = Append(menus, tab[t].draft)
        /\ tab' = [tab EXCEPT ![t].step = "written"]
  /\ UNCHANGED <<student, acts>>

Refused(t) ==
  /\ tab[t].step = "compared"
  /\ tab[t].changed /\ tab[t].version # Version
  /\ tab' = [tab EXCEPT ![t].step = "open", ![t].changed = FALSE]
  /\ UNCHANGED <<acts, menus, student>>

(* The answer carries the version the row has now; the page takes it for the  *)
(* version of its own menu, and shows the saved menu again.                   *)
SaveAnswered(t) ==
  /\ tab[t].step = "written"
  /\ tab' = [tab EXCEPT ![t].step = "open", ![t].saved = tab[t].draft, ![t].form = tab[t].draft,
                        ![t].version = Version, ![t].other = FALSE, ![t].changed = FALSE]
  /\ UNCHANGED <<acts, menus, student>>

Reload(t) ==
  /\ tab[t].step = "open"
  /\ tab' = [tab EXCEPT ![t] = [step |-> "open", form |-> Menu, draft |-> Menu, saved |-> Menu,
                                version |-> Version, other |-> FALSE, changed |-> FALSE]]
  /\ UNCHANGED <<acts, menus, student>>

-----------------------------------------------------------------------------
(* The order page. *)

(* A change on the page cancels the request its timer made, whose answer is   *)
(* then dropped, and starts the timer again.  The request of the coupon's     *)
(* Apply button carries no ticket: nothing cancels it.                        *)
OthersThan(s) == {q \in quotes : q.student # s \/ q.kind = "coupon"}

Choose(s, specs) ==
  /\ Acts
  /\ page[s].specs # specs
  /\ page' = [page EXCEPT ![s].specs = specs, ![s].due = TRUE]
  /\ quotes' = OthersThan(s)
  /\ UNCHANGED <<owner, placed, redeemed>>

RemoveCoupon(s) ==
  /\ Acts
  /\ page[s].coupon
  /\ page' = [page EXCEPT ![s].coupon = FALSE, ![s].due = TRUE]
  /\ quotes' = OthersThan(s)
  /\ UNCHANGED <<owner, placed, redeemed>>

QuoteRequest(s, kind, key) ==
  [student |-> s, kind |-> kind, key |-> key, answered |-> FALSE, answer |-> Unpriced]

AskQuote(s) ==
  /\ page[s].due
  /\ page' = [page EXCEPT ![s].due = FALSE]
  /\ quotes' = OthersThan(s) \cup {QuoteRequest(s, "timer", OnScreen(s))}
  /\ UNCHANGED <<acts, owner, placed, redeemed>>

ApplyCoupon(s) ==
  /\ Acts
  /\ ~page[s].coupon
  /\ quotes' = quotes \cup {QuoteRequest(s, "coupon", Key(page[s].specs, TRUE))}
  /\ UNCHANGED <<owner, page, placed, redeemed>>

(* The server prices the menu of this instant, and names the options the shop *)
(* cannot produce beside the price. *)
AnswerQuote(q) ==
  /\ ~q.answered
  /\ quotes' = (quotes \ {q}) \cup
       {[q EXCEPT !.answered = TRUE,
                  !.answer = IF Priceable(q.key.specs) /\ Valid(q.key.coupon)
                             THEN [ok |-> TRUE, total |-> Total(Menu, q.key), version |-> Version]
                             ELSE Unpriced]}
  /\ UNCHANGED <<acts, owner, page, placed, redeemed>>

(* Fault: the quote is filed under the options on screen when it comes. *)
FiledOnArrival(q) == OnScreen(q.student)

(* The quote is filed under the options it was asked for. *)
FiledUnder(q) == q.key

Filed(q) ==
  [key |-> FiledUnder(q), ok |-> q.answer.ok, total |-> q.answer.total, version |-> q.answer.version]

QuoteArrives(q) ==
  /\ q.answered /\ q.kind = "timer"
  /\ page' = [page EXCEPT ![q.student].quote = IF q.answer.ok THEN Filed(q) ELSE NoQuote]
  /\ quotes' = quotes \ {q}
  /\ UNCHANGED <<acts, owner, placed, redeemed>>

(* The coupon's answer is taken whenever it comes; it changes what is on the  *)
(* screen, so a new quote is due.                                             *)
CouponArrives(q) ==
  /\ q.answered /\ q.kind = "coupon"
  /\ IF q.answer.ok
     THEN /\ page' = [page EXCEPT ![q.student].quote = Filed(q), ![q.student].coupon = TRUE,
                                  ![q.student].due = TRUE]
          /\ quotes' = OthersThan(q.student) \ {q}
     ELSE /\ quotes' = quotes \ {q}
          /\ UNCHANGED page
  /\ UNCHANGED <<acts, owner, placed, redeemed>>

-----------------------------------------------------------------------------
(* POST /jobs: only the options and the code travel, never the total shown.   *)

Prepare(s) ==
  /\ placed[s].step = "none" /\ Shows(s) /\ Producible(Profiles, page[s].specs)
  /\ placed' = [placed EXCEPT ![s] = [NoOrder EXCEPT !.step = "sent", !.key = OnScreen(s),
                                                   !.shown = page[s].quote.total,
                                                   !.seen = page[s].quote.version]]
  /\ UNCHANGED <<acts, owner, page, quotes, redeemed>>

Fails(s) == placed' = [placed EXCEPT ![s] = NoOrder]

PriceOrder(s) ==
  /\ placed[s].step = "sent"
  /\ IF Orderable(placed[s].key.specs)
     THEN placed' = [placed EXCEPT ![s].step = "priced", ![s].total = Total(Menu, placed[s].key),
                                 ![s].version = Version]
     ELSE Fails(s)
  /\ UNCHANGED <<acts, owner, page, quotes, redeemed>>

ResolveCoupon(s) ==
  /\ placed[s].step = "priced"
  /\ IF Valid(placed[s].key.coupon) /\ placed[s].total >= MinOrderPaise
     THEN placed' = [placed EXCEPT ![s].step = "resolved"]
     ELSE Fails(s)
  /\ UNCHANGED <<acts, owner, page, quotes, redeemed>>

InsertOrder(s) ==
  /\ placed[s].step = "resolved"
  /\ placed' = [placed EXCEPT ![s].step = IF placed[s].key.coupon THEN "inserted" ELSE "prepared"]
  /\ UNCHANGED <<acts, owner, page, quotes, redeemed>>

(* A best-effort increment: nothing compares the count with the limit here.   *)
RedeemCoupon(s) ==
  /\ placed[s].step = "inserted"
  /\ redeemed' = redeemed + 1
  /\ placed' = [placed EXCEPT ![s].step = "prepared"]
  /\ UNCHANGED <<acts, owner, page, quotes>>

-----------------------------------------------------------------------------
CheckoutNext ==
  \/ \E t \in Tabs :
       \/ \E m \in MenuChoices : EditMenu(t, m)
       \/ EditOther(t) \/ Save(t) \/ Compare(t) \/ WriteMenu(t) \/ Refused(t) \/ SaveAnswered(t) \/ Reload(t)
  \/ \E s \in Students :
       \/ \E specs \in SpecChoices : Choose(s, specs)
       \/ RemoveCoupon(s) \/ AskQuote(s) \/ ApplyCoupon(s) \/ Prepare(s)
       \/ PriceOrder(s) \/ ResolveCoupon(s) \/ InsertOrder(s) \/ RedeemCoupon(s)
  \/ \E q \in quotes : AnswerQuote(q) \/ QuoteArrives(q) \/ CouponArrives(q)

CheckoutSpec == CheckoutInit /\ [][CheckoutNext]_checkoutVars

-----------------------------------------------------------------------------
CheckoutTypeOK ==
  /\ menus \in Seq(MenuChoices) /\ menus # <<>>
  /\ redeemed \in Nat /\ acts \in 0 .. MaxActs
  /\ tab \in [Tabs -> TabStates]
  /\ page \in [Students -> PageStates]
  /\ quotes \subseteq QuoteRequests
  /\ placed \in [Students -> OrderStates]

(* The total on the page is the price, on a menu the shop has had, of exactly *)
(* the options and the coupon on the screen, however late or out of order the *)
(* answers come (NewJob.tsx: quoteKey, latestQuote, applyCoupon).             *)
TotalBelongsToOptions ==
  \A s \in Students : Shows(s) =>
    page[s].quote.total = Total(menus[page[s].quote.version], OnScreen(s))

(* A student is charged what the page showed when the order was sent, unless  *)
(* the owner changed the menu in between (POST /jobs prices anew).            *)
ChargedAsShown ==
  \A s \in Students :
    placed[s].step \in {"priced", "resolved", "inserted", "prepared"} =>
      placed[s].total = placed[s].shown \/ placed[s].version > placed[s].seen
=============================================================================
