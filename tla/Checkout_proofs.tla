---------------------------- MODULE Checkout_proofs ----------------------------
(***************************************************************************)
(* For every menu, choice, coupon, tab and student: the total on the page  *)
(* is the price of what is on the page, and it is what is charged, unless  *)
(* the owner changed the menu in between.                                  *)
(***************************************************************************)
EXTENDS Checkout, SequenceTheorems, TLAPS

-----------------------------------------------------------------------------
(* The inductive invariant. *)

Versions == 1 .. Len(menus)

(* A total is the price of the key on the menu of its version.                *)
Priced(total, version, key) == version \in Versions /\ total = Total(menus[version], key)

(* An answer under way, and the quote on the page, are prices of their key.   *)
AnswersPriced ==
  \A q \in quotes : q.answered /\ q.answer.ok => Priced(q.answer.total, q.answer.version, q.key)

PagesPriced ==
  \A s \in Students : page[s].quote.ok =>
    Priced(page[s].quote.total, page[s].quote.version, page[s].quote.key)

(* What the student saw and what the server charges are prices of one key;    *)
(* the server's menu is not older.                                            *)
Charging == {"priced", "resolved", "inserted", "prepared"}

OrdersPriced ==
  \A s \in Students :
    /\ placed[s].step # "none" =>
         placed[s].key \in Keys /\ Priced(placed[s].shown, placed[s].seen, placed[s].key)
    /\ placed[s].step \in Charging =>
         /\ Priced(placed[s].total, placed[s].version, placed[s].key)
         /\ placed[s].version >= placed[s].seen

CheckoutInvariant == CheckoutTypeOK /\ AnswersPriced /\ PagesPriced /\ OrdersPriced

-----------------------------------------------------------------------------
(* Prices and menus. *)

(* A new menu leaves the prices of the earlier ones as they were.             *)
LEMMA MenusGrow ==
  ASSUME CheckoutTypeOK, NEW m \in MenuChoices, menus' = Append(menus, m)
  PROVE  \A total, version, key : Priced(total, version, key) => Priced(total, version, key)'
<1>1. /\ menus \in Seq(MenuChoices) /\ Len(menus') = Len(menus) + 1
      /\ \A v \in 1 .. Len(menus) : menus'[v] = menus[v]
  BY DEF CheckoutTypeOK
<1>2. Versions \subseteq Versions'
  BY <1>1 DEF Versions
<1> SUFFICES ASSUME NEW total, NEW version, NEW key, Priced(total, version, key)
             PROVE  Priced(total, version, key)'
  OBVIOUS
<1>3. version \in Versions' /\ menus'[version] = menus[version]
  BY <1>1, <1>2 DEF Priced, Versions
<1> QED
  BY <1>3 DEF Priced

(* The shop's menu of this instant, and what an order costs on it.            *)
LEMMA PriceNow ==
  ASSUME CheckoutTypeOK
  PROVE  /\ Version \in Versions /\ Version \in Nat /\ Menu \in MenuChoices
         /\ \A key \in Keys : Priceable(key.specs) => Total(Menu, key) \in Amounts
         /\ \A key : Priced(Total(Menu, key), Version, key)
<1>1. menus \in Seq(MenuChoices) /\ menus # <<>>
  BY DEF CheckoutTypeOK
<1>2. Version \in Versions /\ Version \in Nat /\ Menu \in MenuChoices
  BY <1>1 DEF Version, Versions, Menu
<1>3. ASSUME NEW key \in Keys, Priceable(key.specs) PROVE Total(Menu, key) \in Amounts
  <2>1. <<Menu, key>> \in MenuChoices \X Keys /\ OnMenu(Menu, key.specs, Pages)
    BY <1>2, <1>3 DEF Priceable
  <2> QED
    BY <2>1 DEF Amounts
<1>4. ASSUME NEW key PROVE Priced(Total(Menu, key), Version, key)
  BY <1>2 DEF Priced, Menu
<1> QED
  BY <1>2, <1>3, <1>4

-----------------------------------------------------------------------------
(* Types. *)

(* An action that is counted stays within the bound. *)
LEMMA ActsTypes == ASSUME CheckoutTypeOK, Acts PROVE acts' \in 0 .. MaxActs
  BY CheckoutAssumption DEF CheckoutTypeOK, Acts

(* The owner's tabs.                                                          *)
LEMMA TabTypes ==
  ASSUME CheckoutTypeOK, NEW t \in Tabs,
         \/ \E m \in MenuChoices : EditMenu(t, m)
         \/ EditOther(t) \/ Save(t) \/ Compare(t) \/ WriteMenu(t) \/ Refused(t) \/ SaveAnswered(t) \/ Reload(t)
  PROVE  CheckoutTypeOK'
<1> USE DEF owner, student
<1>1. tab \in [Tabs -> TabStates] /\ tab[t] \in TabStates
  BY DEF CheckoutTypeOK
<1>2. menus \in Seq(MenuChoices) /\ Version \in Nat /\ Menu \in MenuChoices
  BY PriceNow DEF CheckoutTypeOK
<1>3. ASSUME NEW m \in MenuChoices, EditMenu(t, m) PROVE CheckoutTypeOK'
  BY <1>1, <1>3, ActsTypes DEF EditMenu, CheckoutTypeOK, TabStates
<1>4. CASE EditOther(t)
  BY <1>1, <1>4, ActsTypes DEF EditOther, CheckoutTypeOK, TabStates
<1>5. CASE Save(t)
  BY <1>1, <1>5 DEF Save, CheckoutTypeOK, TabStates
<1>6. CASE Compare(t)
  <2>1. tab' \in [Tabs -> TabStates]
    BY <1>1, <1>6 DEF Compare, Sends, TabStates
  <2> QED
    BY <1>6, <2>1 DEF Compare, CheckoutTypeOK
<1>7. CASE WriteMenu(t)
  <2>1. tab' \in [Tabs -> TabStates]
    <3>1. tab' = [tab EXCEPT ![t].step = "written"]
      BY <1>7 DEF WriteMenu
    <3>2. [tab[t] EXCEPT !.step = "written"] \in TabStates
      BY <1>1 DEF TabStates
    <3> QED
      BY <1>1, <3>1, <3>2
  <2>2. tab[t].draft \in MenuChoices
    BY <1>1 DEF TabStates
  <2>3. menus' \in Seq(MenuChoices) /\ menus' # <<>>
    <3>1. Append(menus, tab[t].draft) \in Seq(MenuChoices) /\ Append(menus, tab[t].draft) # <<>>
      BY <1>2, <2>2
    <3>2. menus # <<>>
      BY DEF CheckoutTypeOK
    <3> QED
      BY <1>2, <1>7, <3>1, <3>2 DEF WriteMenu
  <2> QED
    BY <1>7, <2>1, <2>3 DEF WriteMenu, CheckoutTypeOK
<1>8. CASE Refused(t)
  BY <1>1, <1>8 DEF Refused, CheckoutTypeOK, TabStates
<1>9. CASE SaveAnswered(t)
  <2>1. tab' \in [Tabs -> TabStates]
    BY <1>1, <1>2, <1>9 DEF SaveAnswered, TabStates
  <2> QED
    BY <1>9, <2>1 DEF SaveAnswered, CheckoutTypeOK
<1>10. CASE Reload(t)
  <2>1. [step |-> "open", form |-> Menu, draft |-> Menu, saved |-> Menu,
         version |-> Version, other |-> FALSE, changed |-> FALSE] \in TabStates
    BY <1>2 DEF TabStates
  <2>2. tab' \in [Tabs -> TabStates]
    BY <1>1, <1>10, <2>1 DEF Reload
  <2> QED
    BY <1>10, <2>2 DEF Reload, CheckoutTypeOK
<1> QED
  BY <1>3, <1>4, <1>5, <1>6, <1>7, <1>8, <1>9, <1>10

(* The order pages and their quotes.                                          *)
LEMMA PageTypes ==
  ASSUME CheckoutTypeOK, NEW s \in Students,
         (\E specs \in SpecChoices : Choose(s, specs)) \/ RemoveCoupon(s) \/ AskQuote(s) \/ ApplyCoupon(s)
  PROVE  CheckoutTypeOK'
<1> USE DEF owner, student
<1>1. /\ page \in [Students -> PageStates] /\ page[s] \in PageStates
      /\ quotes \subseteq QuoteRequests /\ OthersThan(s) \subseteq quotes
  BY DEF CheckoutTypeOK, OthersThan
<1>2. page[s].specs \in SpecChoices /\ page[s].coupon \in BOOLEAN
  BY <1>1 DEF PageStates
<1>3. \A key \in Keys : /\ QuoteRequest(s, "timer", key) \in QuoteRequests
                        /\ QuoteRequest(s, "coupon", key) \in QuoteRequests
  BY DEF QuoteRequest, QuoteRequests, Unpriced, Amounts
<1>4. ASSUME NEW specs \in SpecChoices, Choose(s, specs) PROVE CheckoutTypeOK'
  <2>1. page' \in [Students -> PageStates]
    BY <1>1, <1>4 DEF Choose, PageStates
  <2> QED
    BY <1>1, <1>4, <2>1, ActsTypes DEF Choose, CheckoutTypeOK
<1>5. CASE RemoveCoupon(s)
  <2>1. page' \in [Students -> PageStates]
    BY <1>1, <1>5 DEF RemoveCoupon, PageStates
  <2> QED
    BY <1>1, <1>5, <2>1, ActsTypes DEF RemoveCoupon, CheckoutTypeOK
<1>6. CASE AskQuote(s)
  <2>1. page' \in [Students -> PageStates]
    BY <1>1, <1>6 DEF AskQuote, PageStates
  <2>2. OnScreen(s) \in Keys
    BY <1>2 DEF OnScreen, Key, Keys
  <2>3. quotes' \subseteq QuoteRequests
    BY <1>1, <1>3, <1>6, <2>2 DEF AskQuote
  <2> QED
    BY <1>6, <2>1, <2>3 DEF AskQuote, CheckoutTypeOK
<1>7. CASE ApplyCoupon(s)
  <2>1. Key(page[s].specs, TRUE) \in Keys
    BY <1>2 DEF Key, Keys
  <2>2. quotes' \subseteq QuoteRequests
    BY <1>1, <1>3, <1>7, <2>1 DEF ApplyCoupon
  <2> QED
    BY <1>7, <2>2, ActsTypes DEF ApplyCoupon, CheckoutTypeOK
<1> QED
  BY <1>4, <1>5, <1>6, <1>7

(* Answering a quote, and its arrival on the page, keep the types. *)
LEMMA QuoteTypes ==
  ASSUME CheckoutTypeOK, NEW q \in quotes, AnswerQuote(q) \/ QuoteArrives(q) \/ CouponArrives(q)
  PROVE  CheckoutTypeOK'
<1> USE DEF owner, student
<1>1. /\ q \in QuoteRequests /\ quotes \subseteq QuoteRequests
      /\ page \in [Students -> PageStates] /\ q.student \in Students /\ q.key \in Keys
  BY DEF CheckoutTypeOK, QuoteRequests
<1>2. OthersThan(q.student) \subseteq quotes
  BY DEF OthersThan
<1>3. Filed(q) \in Quotes /\ NoQuote \in Quotes
  BY <1>1 DEF Filed, FiledUnder, NoQuote, Quotes, QuoteRequests, Amounts
<1>4. CASE AnswerQuote(q)
  <2> DEFINE answer == IF Priceable(q.key.specs) /\ Valid(q.key.coupon)
                       THEN [ok |-> TRUE, total |-> Total(Menu, q.key), version |-> Version]
                       ELSE Unpriced
  <2>1. answer \in [ok: BOOLEAN, total: Amounts, version: Nat]
    <3>1. CASE Priceable(q.key.specs) /\ Valid(q.key.coupon)
      <4>1. Total(Menu, q.key) \in Amounts /\ Version \in Nat
        BY <1>1, <3>1, PriceNow
      <4> QED
        BY <3>1, <4>1
    <3>2. CASE ~(Priceable(q.key.specs) /\ Valid(q.key.coupon))
      BY <3>2 DEF Unpriced, Amounts
    <3> QED
      BY <3>1, <3>2
  <2>2. quotes' = (quotes \ {q}) \cup {[q EXCEPT !.answered = TRUE, !.answer = answer]}
    BY <1>4 DEF AnswerQuote
  <2> HIDE DEF answer
  <2>3. [q EXCEPT !.answered = TRUE, !.answer = answer] \in QuoteRequests
    BY <1>1, <2>1 DEF QuoteRequests
  <2> QED
    BY <1>1, <1>4, <2>2, <2>3 DEF AnswerQuote, CheckoutTypeOK
<1>5. CASE QuoteArrives(q)
  <2>1. page' \in [Students -> PageStates]
    BY <1>1, <1>3, <1>5 DEF QuoteArrives, PageStates
  <2> QED
    BY <1>1, <1>5, <2>1 DEF QuoteArrives, CheckoutTypeOK
<1>6. CASE CouponArrives(q)
  <2>1. page' \in [Students -> PageStates]
    BY <1>1, <1>3, <1>6 DEF CouponArrives, PageStates
  <2> QED
    BY <1>1, <1>2, <1>6, <2>1 DEF CouponArrives, CheckoutTypeOK
<1> QED
  BY <1>4, <1>5, <1>6

(* Each statement of POST /jobs keeps the types. *)
LEMMA OrderTypes ==
  ASSUME CheckoutTypeOK, OrdersPriced, NEW s \in Students,
         Prepare(s) \/ PriceOrder(s) \/ ResolveCoupon(s) \/ InsertOrder(s) \/ RedeemCoupon(s)
  PROVE  CheckoutTypeOK'
<1> USE DEF owner, student
<1>1. /\ placed \in [Students -> OrderStates] /\ placed[s] \in OrderStates
      /\ page[s] \in PageStates
  BY DEF CheckoutTypeOK
<1>2. NoOrder \in OrderStates
  BY DEF NoOrder, OrderStates, Amounts
<1>3. \A row \in OrderStates : [placed EXCEPT ![s] = row] \in [Students -> OrderStates]
  BY <1>1
<1>4. CASE Prepare(s)
  <2>1. /\ OnScreen(s) \in Keys /\ page[s].quote.total \in Amounts
        /\ page[s].quote.version \in Nat
    BY <1>1 DEF OnScreen, Key, Keys, PageStates, Quotes
  <2>2. [NoOrder EXCEPT !.step = "sent", !.key = OnScreen(s), !.shown = page[s].quote.total,
                        !.seen = page[s].quote.version] \in OrderStates
    BY <1>2, <2>1 DEF OrderStates
  <2>3. placed' \in [Students -> OrderStates]
    BY <1>3, <1>4, <2>2 DEF Prepare
  <2> QED
    BY <1>4, <2>3 DEF Prepare, CheckoutTypeOK
<1>5. CASE PriceOrder(s)
  <2>1. CASE Fails(s)
    BY <1>2, <1>3, <1>5, <2>1 DEF PriceOrder, Fails, CheckoutTypeOK
  <2>2. CASE /\ Orderable(placed[s].key.specs)
             /\ placed' = [placed EXCEPT ![s].step = "priced", ![s].total = Total(Menu, placed[s].key),
                                       ![s].version = Version]
    <3>1. Version \in Nat
      BY PriceNow
    <3>2. Total(Menu, placed[s].key) \in Amounts
      BY <1>5, <2>2, PriceNow DEF PriceOrder, OrdersPriced, Orderable
    <3>3. [placed[s] EXCEPT !.step = "priced", !.total = Total(Menu, placed[s].key),
                           !.version = Version] \in OrderStates
      BY <1>1, <3>1, <3>2 DEF OrderStates
    <3>4. placed' \in [Students -> OrderStates]
      BY <1>1, <2>2, <3>3
    <3> QED
      BY <1>5, <3>4 DEF PriceOrder, CheckoutTypeOK
  <2> QED
    BY <1>5, <2>1, <2>2 DEF PriceOrder
<1>6. CASE ResolveCoupon(s)
  <2>1. [placed[s] EXCEPT !.step = "resolved"] \in OrderStates
    BY <1>1 DEF OrderStates
  <2>2. placed' \in [Students -> OrderStates]
    BY <1>2, <1>3, <1>6, <2>1 DEF ResolveCoupon, Fails
  <2> QED
    BY <1>6, <2>2 DEF ResolveCoupon, CheckoutTypeOK
<1>7. CASE InsertOrder(s)
  BY <1>1, <1>7 DEF InsertOrder, OrderStates, CheckoutTypeOK
<1>8. CASE RedeemCoupon(s)
  <2>1. placed' \in [Students -> OrderStates]
    BY <1>1, <1>8 DEF RedeemCoupon, OrderStates
  <2>2. redeemed' \in Nat
    BY <1>8 DEF RedeemCoupon, CheckoutTypeOK
  <2> QED
    BY <1>8, <2>1, <2>2 DEF RedeemCoupon, CheckoutTypeOK
<1> QED
  BY <1>4, <1>5, <1>6, <1>7, <1>8

-----------------------------------------------------------------------------
(* Every total is the price of its key. *)

(* Every answer under way and quote on a page stays priced for its key. *)
LEMMA QuotesInductive ==
  ASSUME CheckoutTypeOK, AnswersPriced, PagesPriced, [CheckoutNext]_checkoutVars
  PROVE  AnswersPriced' /\ PagesPriced'
<1> USE DEF owner, student
<1>1. page \in [Students -> PageStates] /\ quotes \subseteq QuoteRequests
  BY DEF CheckoutTypeOK
<1>2. ASSUME UNCHANGED menus, NEW total, NEW version, NEW key, Priced(total, version, key)
      PROVE  Priced(total, version, key)'
  BY <1>2 DEF Priced, Versions
<1>3. ASSUME UNCHANGED menus,
             \A q \in quotes' : q \in quotes \/ ~(q.answered /\ q.answer.ok)
                                \/ Priced(q.answer.total, q.answer.version, q.key)
      PROVE  AnswersPriced'
  BY <1>2, <1>3 DEF AnswersPriced
<1>4. ASSUME UNCHANGED menus, \A s \in Students : page'[s].quote = page[s].quote
      PROVE  PagesPriced'
  BY <1>2, <1>4 DEF PagesPriced
<1>5. \A s \in Students : OthersThan(s) \subseteq quotes
  BY DEF OthersThan
<1>6. ASSUME NEW t \in Tabs, WriteMenu(t) PROVE AnswersPriced' /\ PagesPriced'
  <2>1. quotes' = quotes /\ page' = page
    BY <1>6 DEF WriteMenu
  <2>2. CASE UNCHANGED menus
    BY <1>3, <1>4, <2>1, <2>2
  <2>3. CASE menus' = Append(menus, tab[t].draft)
    <3>1. tab[t].draft \in MenuChoices
      BY DEF CheckoutTypeOK, TabStates
    <3>2. \A total, version, key : Priced(total, version, key) => Priced(total, version, key)'
      BY <2>3, <3>1, MenusGrow
    <3> QED
      BY <2>1, <3>2 DEF AnswersPriced, PagesPriced
  <2> QED
    BY <1>6, <2>2, <2>3 DEF WriteMenu
<1>7. ASSUME NEW t \in Tabs,
             \/ \E m \in MenuChoices : EditMenu(t, m)
             \/ EditOther(t) \/ Save(t) \/ Compare(t) \/ Refused(t) \/ SaveAnswered(t) \/ Reload(t)
      PROVE  AnswersPriced' /\ PagesPriced'
  BY <1>3, <1>4, <1>7 DEF EditMenu, EditOther, Save, Compare, Refused, SaveAnswered, Reload
<1>8. ASSUME NEW s \in Students,
             (\E specs \in SpecChoices : Choose(s, specs)) \/ RemoveCoupon(s)
      PROVE  AnswersPriced' /\ PagesPriced'
  <2>1. UNCHANGED menus /\ quotes' = OthersThan(s)
    BY <1>8 DEF Choose, RemoveCoupon
  <2>2. \A s2 \in Students : page'[s2].quote = page[s2].quote
    <3>1. page[s] \in PageStates
      BY <1>1
    <3>2. ASSUME NEW specs \in SpecChoices, Choose(s, specs)
          PROVE  \A s2 \in Students : page'[s2].quote = page[s2].quote
      BY <1>1, <3>1, <3>2 DEF Choose, PageStates
    <3>3. CASE RemoveCoupon(s)
      BY <1>1, <3>1, <3>3 DEF RemoveCoupon, PageStates
    <3> QED
      BY <1>8, <3>2, <3>3
  <2> QED
    BY <1>3, <1>4, <1>5, <2>1, <2>2
<1>9. ASSUME NEW s \in Students, AskQuote(s) \/ ApplyCoupon(s)
      PROVE  AnswersPriced' /\ PagesPriced'
  <2>1. UNCHANGED menus /\ \A q \in quotes' : q \in quotes \/ ~q.answered
    <3>1. \A kind, key : ~QuoteRequest(s, kind, key).answered
      BY DEF QuoteRequest
    <3>2. UNCHANGED menus
      BY <1>9 DEF AskQuote, ApplyCoupon
    <3>3. \E kind, key : quotes' \subseteq quotes \cup {QuoteRequest(s, kind, key)}
      BY <1>5, <1>9 DEF AskQuote, ApplyCoupon
    <3> QED
      BY <3>1, <3>2, <3>3
  <2>2. \A s2 \in Students : page'[s2].quote = page[s2].quote
    <3>1. page[s] \in PageStates
      BY <1>1
    <3>2. CASE AskQuote(s)
      BY <1>1, <3>1, <3>2 DEF AskQuote, PageStates
    <3>3. CASE ApplyCoupon(s)
      BY <3>3 DEF ApplyCoupon
    <3> QED
      BY <1>9, <3>2, <3>3
  <2> QED
    BY <1>3, <1>4, <2>1, <2>2
<1>10. ASSUME NEW s \in Students,
              Prepare(s) \/ PriceOrder(s) \/ ResolveCoupon(s) \/ InsertOrder(s) \/ RedeemCoupon(s)
       PROVE  AnswersPriced' /\ PagesPriced'
  BY <1>3, <1>4, <1>10 DEF Prepare, PriceOrder, ResolveCoupon, InsertOrder, RedeemCoupon
<1>11. ASSUME NEW q \in quotes, AnswerQuote(q) PROVE AnswersPriced' /\ PagesPriced'
  <2> DEFINE answer == IF Priceable(q.key.specs) /\ Valid(q.key.coupon)
                       THEN [ok |-> TRUE, total |-> Total(Menu, q.key), version |-> Version]
                       ELSE Unpriced
             answered == [q EXCEPT !.answered = TRUE, !.answer = answer]
  <2>1. UNCHANGED menus /\ page' = page /\ quotes' = (quotes \ {q}) \cup {answered}
    BY <1>11 DEF AnswerQuote
  <2>2. answered.key = q.key /\ answered.answer = answer
    BY <1>1 DEF QuoteRequests
  <2>3. answer.ok => Priced(answer.total, answer.version, q.key)
    BY PriceNow DEF Unpriced
  <2> HIDE DEF answered, answer
  <2>4. answered.answer.ok => Priced(answered.answer.total, answered.answer.version, answered.key)
    BY <2>2, <2>3
  <2> QED
    BY <1>3, <1>4, <2>1, <2>4
<1>12. ASSUME NEW q \in quotes, QuoteArrives(q) \/ CouponArrives(q)
       PROVE  AnswersPriced' /\ PagesPriced'
  <2>1. UNCHANGED menus /\ quotes' \subseteq quotes
    BY <1>5, <1>12 DEF QuoteArrives, CouponArrives, CheckoutTypeOK, QuoteRequests, OthersThan
  <2>2. q.answered /\ q.student \in Students
    BY <1>1, <1>12 DEF QuoteArrives, CouponArrives, QuoteRequests
  <2>3. q.answer.ok => Priced(q.answer.total, q.answer.version, q.key)
    BY <2>2 DEF AnswersPriced
  <2>4. \A s \in Students :
          \/ page'[s].quote = page[s].quote
          \/ ~page'[s].quote.ok
          \/ page'[s].quote = Filed(q) /\ q.answer.ok
    BY <1>1, <1>12, <2>2 DEF QuoteArrives, CouponArrives, PageStates, NoQuote
  <2>5. q.answer.ok => Priced(Filed(q).total, Filed(q).version, Filed(q).key)
    BY <2>3 DEF Filed, FiledUnder
  <2>6. PagesPriced'
    BY <1>2, <2>1, <2>4, <2>5 DEF PagesPriced
  <2> QED
    BY <1>3, <2>1, <2>6
<1>13. CASE UNCHANGED checkoutVars
  BY <1>3, <1>4, <1>13 DEF checkoutVars
<1> QED
  BY <1>6, <1>7, <1>8, <1>9, <1>10, <1>11, <1>12, <1>13 DEF CheckoutNext

(* Every order stays charged by a menu no older than the one shown. *)
LEMMA OrdersInductive ==
  ASSUME CheckoutTypeOK, PagesPriced, OrdersPriced, [CheckoutNext]_checkoutVars
  PROVE  OrdersPriced'
<1> USE DEF owner, student
<1>1. placed \in [Students -> OrderStates] /\ page \in [Students -> PageStates]
  BY DEF CheckoutTypeOK
<1>2. ASSUME UNCHANGED menus, NEW total, NEW version, NEW key, Priced(total, version, key)
      PROVE  Priced(total, version, key)'
  BY <1>2 DEF Priced, Versions
<1>3. ASSUME UNCHANGED placed, \A total, version, key :
                                Priced(total, version, key) => Priced(total, version, key)'
      PROVE  OrdersPriced'
  BY <1>3 DEF OrdersPriced
<1>4. ASSUME NEW t \in Tabs, WriteMenu(t) PROVE OrdersPriced'
  <2>1. tab[t].draft \in MenuChoices
    BY DEF CheckoutTypeOK, TabStates
  <2>2. \A total, version, key : Priced(total, version, key) => Priced(total, version, key)'
    BY <1>2, <1>4, <2>1, MenusGrow DEF WriteMenu
  <2> QED
    BY <1>3, <1>4, <2>2 DEF WriteMenu
<1>5. ASSUME NEW t \in Tabs,
             \/ \E m \in MenuChoices : EditMenu(t, m)
             \/ EditOther(t) \/ Save(t) \/ Compare(t) \/ Refused(t) \/ SaveAnswered(t) \/ Reload(t)
      PROVE  OrdersPriced'
  BY <1>2, <1>3, <1>5 DEF EditMenu, EditOther, Save, Compare, Refused, SaveAnswered, Reload
<1>6. ASSUME NEW s \in Students,
             \/ \E specs \in SpecChoices : Choose(s, specs)
             \/ RemoveCoupon(s) \/ AskQuote(s) \/ ApplyCoupon(s)
      PROVE  OrdersPriced'
  BY <1>2, <1>3, <1>6 DEF Choose, RemoveCoupon, AskQuote, ApplyCoupon
<1>7. ASSUME NEW q \in quotes, AnswerQuote(q) \/ QuoteArrives(q) \/ CouponArrives(q)
      PROVE  OrdersPriced'
  BY <1>2, <1>3, <1>7 DEF AnswerQuote, QuoteArrives, CouponArrives
<1>8. CASE UNCHANGED checkoutVars
  BY <1>2, <1>3, <1>8 DEF checkoutVars
<1>9. ASSUME NEW s \in Students,
             Prepare(s) \/ PriceOrder(s) \/ ResolveCoupon(s) \/ InsertOrder(s) \/ RedeemCoupon(s)
      PROVE  OrdersPriced'
  <2>1. UNCHANGED menus
    BY <1>9 DEF Prepare, PriceOrder, ResolveCoupon, InsertOrder, RedeemCoupon
  <2>2. \A s2 \in Students : s2 # s => placed'[s2] = placed[s2]
    BY <1>1, <1>9 DEF Prepare, PriceOrder, ResolveCoupon, InsertOrder, RedeemCoupon, Fails
  <2>3. placed[s] \in OrderStates /\ page[s] \in PageStates
    BY <1>1
  <2> SUFFICES /\ placed'[s].step # "none" =>
                    placed'[s].key \in Keys /\ Priced(placed'[s].shown, placed'[s].seen, placed'[s].key)
               /\ placed'[s].step \in Charging =>
                    /\ Priced(placed'[s].total, placed'[s].version, placed'[s].key)
                    /\ placed'[s].version >= placed'[s].seen
    BY <1>2, <2>1, <2>2 DEF OrdersPriced, Priced, Versions
  <2>4. CASE placed'[s].step = "none"
    BY <2>4 DEF Charging
  <2>5. CASE Prepare(s)
    <3>1. /\ placed'[s].step = "sent" /\ placed'[s].key = OnScreen(s)
          /\ placed'[s].shown = page[s].quote.total /\ placed'[s].seen = page[s].quote.version
      BY <1>1, <2>5 DEF Prepare, NoOrder
    <3>2. page[s].quote.ok /\ page[s].quote.key = OnScreen(s)
      BY <2>5 DEF Prepare, Shows
    <3>3. OnScreen(s) \in Keys
      BY <2>3 DEF OnScreen, Key, Keys, PageStates
    <3> QED
      BY <3>1, <3>2, <3>3 DEF PagesPriced, Charging
  <2>6. CASE PriceOrder(s) /\ ~Fails(s)
    <3>1. /\ placed[s].step = "sent"
          /\ placed' = [placed EXCEPT ![s].step = "priced", ![s].total = Total(Menu, placed[s].key),
                                    ![s].version = Version]
      BY <2>6 DEF PriceOrder
    <3>2. /\ placed'[s].key = placed[s].key /\ placed'[s].shown = placed[s].shown
          /\ placed'[s].seen = placed[s].seen
          /\ placed'[s].total = Total(Menu, placed[s].key) /\ placed'[s].version = Version
      BY <1>1, <2>3, <3>1 DEF OrderStates
    <3>3. placed[s].key \in Keys /\ Priced(placed[s].shown, placed[s].seen, placed[s].key)
      BY <3>1 DEF OrdersPriced
    <3>4. Version >= placed[s].seen
      <4>1. placed[s].seen \in 1 .. Len(menus) /\ Len(menus) \in Nat
        BY <3>3, PriceNow DEF Priced, Versions, Version
      <4> QED
        BY <4>1 DEF Version
    <3> QED
      BY <3>2, <3>3, <3>4, PriceNow
  <2>7. CASE /\ placed[s].step \in {"priced", "resolved", "inserted"}
             /\ \E step \in Charging : placed' = [placed EXCEPT ![s].step = step]
    <3>1. /\ placed'[s].key = placed[s].key /\ placed'[s].shown = placed[s].shown
          /\ placed'[s].seen = placed[s].seen
          /\ placed'[s].total = placed[s].total /\ placed'[s].version = placed[s].version
      BY <1>1, <2>3, <2>7 DEF OrderStates
    <3> QED
      BY <2>7, <3>1 DEF OrdersPriced, Charging
  <2>8. Fails(s) => placed'[s].step = "none"
    BY <1>1 DEF Fails, NoOrder
  <2> QED
    BY <1>9, <2>4, <2>5, <2>6, <2>7, <2>8
       DEF PriceOrder, ResolveCoupon, InsertOrder, RedeemCoupon, Charging
<1> QED
  BY <1>4, <1>5, <1>6, <1>7, <1>8, <1>9 DEF CheckoutNext

-----------------------------------------------------------------------------
(* The theorems. *)

(* Nothing is quoted or ordered at the start. *)
LEMMA CheckoutBegins == CheckoutInit => CheckoutInvariant
<1> SUFFICES ASSUME CheckoutInit PROVE CheckoutInvariant
  OBVIOUS
<1>1. menus \in [1 .. 1 -> MenuChoices]
  BY DEF CheckoutInit
<1>2. menus \in Seq(MenuChoices) /\ menus # <<>> /\ menus[1] \in MenuChoices
  <2>1. menus \in Seq(MenuChoices)
    BY <1>1, SeqDef, 1 \in Nat
  <2>2. DOMAIN menus = 1 .. 1 /\ menus[1] \in MenuChoices
    BY <1>1
  <2>3. DOMAIN <<>> # 1 .. 1
    <3>1. DOMAIN <<>> = 1 .. 0
      OBVIOUS
    <3> QED
      BY <3>1
  <2> QED
    BY <2>1, <2>2, <2>3
<1>3. tab \in [Tabs -> TabStates]
  BY <1>2 DEF CheckoutInit, TabStates
<1>4. /\ page \in [Students -> PageStates]
      /\ \A s \in Students : ~page[s].quote.ok
  <2>1. NoQuote \in Quotes
    BY DEF NoQuote, Quotes, Amounts
  <2>2. FirstSpecs \in SpecChoices
    BY CheckoutAssumption
  <2>3. ASSUME NEW s \in Students
        PROVE  page[s] \in PageStates /\ page[s].quote = NoQuote
    <3>1. page[s] \in [specs: {FirstSpecs}, coupon: {FALSE}, quote: {NoQuote}, due: {TRUE}]
      BY DEF CheckoutInit
    <3>2. page[s] = [specs |-> FirstSpecs, coupon |-> FALSE, quote |-> NoQuote, due |-> TRUE]
      BY <3>1
    <3> QED
      BY <2>1, <2>2, <3>2 DEF PageStates
  <2>4. page = [s \in Students |-> page[s]]
    BY DEF CheckoutInit
  <2> QED
    BY <2>3, <2>4 DEF NoQuote
<1>5. /\ placed \in [Students -> OrderStates]
      /\ \A s \in Students : placed[s].step = "none"
  BY DEF CheckoutInit, NoOrder, OrderStates, Amounts
<1>6. CheckoutTypeOK
  <2>1. MaxActs \in Nat
    BY CheckoutAssumption
  <2>2. redeemed = 0 /\ quotes = {} /\ acts = 0
    BY DEF CheckoutInit
  <2> QED
    BY <1>2, <1>3, <1>4, <1>5, <2>1, <2>2 DEF CheckoutTypeOK
<1>7. AnswersPriced /\ PagesPriced /\ OrdersPriced
  BY <1>4, <1>5 DEF CheckoutInit, AnswersPriced, PagesPriced, OrdersPriced, Charging
<1> QED
  BY <1>6, <1>7 DEF CheckoutInvariant

(* Every quote, total and charge is the price of its key on a menu the shop   *)
(* has had, whatever is typed, saved, asked and answered in whatever order.   *)
THEOREM CheckoutInvariantHolds == CheckoutSpec => []CheckoutInvariant
<1>1. ASSUME CheckoutInvariant, [CheckoutNext]_checkoutVars PROVE CheckoutInvariant'
  <2>1. CheckoutTypeOK'
    <3>1. CASE UNCHANGED checkoutVars
      BY <1>1, <3>1 DEF checkoutVars, owner, student, CheckoutInvariant, CheckoutTypeOK
    <3> QED
      BY <1>1, <3>1, TabTypes, PageTypes, QuoteTypes, OrderTypes DEF CheckoutNext, CheckoutInvariant
  <2> QED
    BY <1>1, <2>1, QuotesInductive, OrdersInductive DEF CheckoutInvariant
<1> QED
  BY <1>1, CheckoutBegins, PTL DEF CheckoutSpec

(* The total the page shows is the price of the options and the coupon on the *)
(* screen, on a menu the shop has had.                                        *)
THEOREM TotalBelongsToOptionsHolds == CheckoutSpec => []TotalBelongsToOptions
<1>1. CheckoutInvariant => TotalBelongsToOptions
  BY DEF CheckoutInvariant, PagesPriced, Priced, TotalBelongsToOptions, Shows
<1> QED
  BY <1>1, CheckoutInvariantHolds, PTL

(* A student is charged what the page showed, unless a newer menu was priced. *)
THEOREM ChargedAsShownHolds == CheckoutSpec => []ChargedAsShown
<1>1. CheckoutInvariant => ChargedAsShown
  <2> SUFFICES ASSUME CheckoutInvariant, NEW s \in Students,
                      placed[s].step \in {"priced", "resolved", "inserted", "prepared"}
               PROVE  placed[s].total = placed[s].shown \/ placed[s].version > placed[s].seen
    BY DEF ChargedAsShown
  <2>1. /\ Priced(placed[s].shown, placed[s].seen, placed[s].key)
        /\ Priced(placed[s].total, placed[s].version, placed[s].key)
        /\ placed[s].version >= placed[s].seen
    BY DEF CheckoutInvariant, OrdersPriced, Charging
  <2>2. placed[s].version \in Nat /\ placed[s].seen \in Nat
    BY DEF CheckoutInvariant, CheckoutTypeOK, OrderStates
  <2>3. placed[s].version = placed[s].seen \/ placed[s].version > placed[s].seen
    BY <2>1, <2>2
  <2> QED
    BY <2>1, <2>3 DEF Priced
<1> QED
  BY <1>1, CheckoutInvariantHolds, PTL
================================================================================
