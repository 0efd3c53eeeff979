------------------------------- MODULE Pricing -------------------------------
(***************************************************************************)
(* What a job costs, in paise, and whether the shop can make it: the pure  *)
(* functions of packages/shared that the server, the quote and the owner's *)
(* preview share.  A page range is a set of parts <<first, last>>, or None *)
(* for the whole document.                                                 *)
(***************************************************************************)
EXTENDS Integers, FiniteSets

CONSTANT None

RangeFits(range, pages) ==
  range # None => \A part \in range : 1 <= part[1] /\ part[1] <= part[2] /\ part[2] <= pages

SelectedPages(range, pages) ==
  IF range = None THEN 1 .. pages ELSE UNION {part[1] .. part[2] : part \in range}

PagesPerCopy(range, pages) == Cardinality(SelectedPages(range, pages))

(* menu.papers[id] is [bw, color], color None where the paper has no colour   *)
(* price; menu.bindings[id] is a price per job.                               *)
PerPage(menu, specs) ==
  IF specs.color THEN menu.papers[specs.paper].color ELSE menu.papers[specs.paper].bw

PerBinding(menu, specs) == IF specs.binding = None THEN 0 ELSE menu.bindings[specs.binding]

(* computePrice throws for anything else. *)
OnMenu(menu, specs, pages) ==
  /\ specs.paper \in DOMAIN menu.papers
  /\ specs.color => menu.papers[specs.paper].color # None
  /\ specs.binding # None => specs.binding \in DOMAIN menu.bindings
  /\ RangeFits(specs.range, pages)

Price(perPage, perBinding, specs, pages) ==
  perPage * PagesPerCopy(specs.range, pages) * specs.copies + perBinding

(* Math.round: halves go up. *)
Rounded(numerator, denominator) == (2 * numerator + denominator) \div (2 * denominator)

Marked(paise, bps) == Rounded(paise * (10000 + bps), 10000)

(* What a student pays before a coupon: the mark-up is put on each page and   *)
(* each binding, then multiplied.                                             *)
StudentPrice(menu, specs, pages, bps) ==
  Price(Marked(PerPage(menu, specs), bps), Marked(PerBinding(menu, specs), bps), specs, pages)

MinOrderPaise == 100

(* coupon.percent 0 means a fixed amount. *)
Discount(coupon, total) ==
  LET raw == IF coupon.percent # 0 THEN Rounded(total * coupon.percent, 100) ELSE coupon.paise
      most == IF total > MinOrderPaise THEN total - MinOrderPaise ELSE 0
  IN  IF raw < most THEN raw ELSE most

(* unsupportedSpecs is empty: some configured printer, online or not, can do  *)
(* the whole combination; a shop without printers is not asked.               *)
Producible(printers, specs) ==
  printers = {} \/
  \E p \in printers :
    /\ specs.paper \in p.papers
    /\ specs.color => p.color
    /\ specs.binding # None => specs.binding \in p.finishing
==============================================================================
