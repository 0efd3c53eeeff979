------------------------------ MODULE MCClients ------------------------------
(* What clients repeat: the forms of an order, and the tabs, requests and     *)
(* sign-ins of a browser.  The two share nothing: a behaviour moves one of    *)
(* them while the other is at rest.                                           *)
EXTENDS MCFileRetention, MCSessions

VARIABLE side

(* Forms and requests swap together.                                          *)
Together ==
  {[x \in Pages \cup Calls |-> x],
   p1 :> p2 @@ p2 :> p1 @@ c1 :> c2 @@ c2 :> c1}
Names == {f @@ g : f \in Together, g \in Permutations(Tabs)}

Start ==
  /\ Init /\ SessionsInit
  /\ side \in {"orders", "sessions"}
  /\ side = "orders" => role = "shop"

Step ==
  /\ UNCHANGED side
  /\ \/ side = "orders" /\ OrderNext /\ UNCHANGED sessionVars
     \/ side = "sessions" /\ SessionsNext /\ UNCHANGED vars

Clients == Start /\ [][Step]_<<vars, sessionVars, side>>
==============================================================================
