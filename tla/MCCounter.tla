------------------------------ MODULE MCCounter ------------------------------
(* What screens show while the server moves on: the desk at the counter, and  *)
(* the prices of the order form and of the Settings page.  The two share      *)
(* nothing: a behaviour moves one of them while the other is at rest.         *)
EXTENDS MCCheckout, MCCounterDesk

VARIABLE side

(* Orders, printers and requests of the desk are alike, and so are students   *)
(* and tabs: orders, printers and students swap together, requests and tabs do.*)
Customers == {[x \in Orders \cup Printers \cup Students |-> x],
              o1 :> o2 @@ o2 :> o1 @@ p1 :> p2 @@ p2 :> p1 @@ s1 :> s2 @@ s2 :> s1}
Repeats == {[x \in Calls \cup Tabs |-> x], c1 :> c2 @@ c2 :> c1 @@ t1 :> t2 @@ t2 :> t1}
Names == {f @@ g : f \in Customers, g \in Repeats}

Start ==
  /\ CheckoutInit /\ DeskInit
  /\ \/ side = "prices" /\ online = {} /\ ~auto
          /\ \A o \in Orders : order[o].status = "away" /\ order[o].printer = Nil
     \/ side = "desk" /\ menus = <<Cheap>>

Step ==
  /\ UNCHANGED side
  /\ \/ side = "prices" /\ CheckoutNext /\ UNCHANGED deskVars
     \/ side = "desk" /\ DeskNext /\ UNCHANGED checkoutVars

Counter == Start /\ [][Step]_<<checkoutVars, deskVars, side>>
==============================================================================
