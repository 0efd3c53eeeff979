------------------------------ MODULE FeeBalance ------------------------------
(***************************************************************************)
(* What the platform's books promise a shop: its balance rises by the      *)
(* commission of every verified print, falls by it again when the print is *)
(* refunded, falls by every payment that was captured, each of the three   *)
(* at most once, and nothing else ever moves it: no statement, no change   *)
(* of a due date, no block.                                                *)
(***************************************************************************)
EXTENDS Integers

CONSTANTS
  Prints,     \* orders that may be printed
  Commission, \* Commission[j]: totalPaise - shopBasePaise of the order, at least 0
  Payments    \* orders for payment at the provider

VARIABLES
  balance,    \* what the shop owes; negative when it has paid ahead
  charged,    \* prints whose commission was posted
  reversed,   \* prints whose commission was reversed
  price,      \* price[o]: what a payment was asked for; 0: not yet
  credited    \* payments that were credited

vars == <<balance, charged, reversed, price, credited>>

Init ==
  /\ balance = 0
  /\ charged = {} /\ reversed = {} /\ credited = {}
  /\ price = [o \in Payments |-> 0]

Charge(j) ==
  /\ j \in Prints \ charged
  /\ charged' = charged \cup {j}
  /\ balance' = balance + Commission[j]
  /\ UNCHANGED <<reversed, price, credited>>

Reverse(j) ==
  /\ j \in charged \ reversed
  /\ reversed' = reversed \cup {j}
  /\ balance' = balance - Commission[j]
  /\ UNCHANGED <<charged, price, credited>>

(* A payment is asked for one amount, for good. *)
Ask(o) ==
  /\ price[o] = 0
  /\ price'[o] \in Nat \ {0}
  /\ price' = [price EXCEPT ![o] = price'[o]]
  /\ UNCHANGED <<balance, charged, reversed, credited>>

Credit(o) ==
  /\ price[o] # 0
  /\ o \notin credited
  /\ credited' = credited \cup {o}
  /\ balance' = balance - price[o]
  /\ UNCHANGED <<charged, reversed, price>>

Next ==
  \/ \E j \in Prints : Charge(j) \/ Reverse(j)
  \/ \E o \in Payments : Ask(o) \/ Credit(o)

Spec == Init /\ [][Next]_vars
===============================================================================
