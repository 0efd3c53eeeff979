-------------------------------- MODULE MCShop --------------------------------
(* A small shop: its life, and its place on the map.  The two share nothing:  *)
(* a behaviour moves one of them while the other is at rest, with no fair      *)
(* action enabled.                                                             *)
EXTENDS ShopLife, MCLocation

VARIABLE side

(* Registered, with a computer that does not run. *)
Asleep ==
  /\ autoLive = TRUE
  /\ shop = [status |-> "draft", published |-> FALSE, facts |-> 0, accepting |-> TRUE,
             blocked |-> FALSE]
  /\ printer = [linked |-> FALSE, online |-> TRUE]
  /\ agent = [status |-> "offline", connected |-> FALSE, runs |-> FALSE]
  /\ interest = {} /\ flight = {}
  /\ lastAction = "none" /\ reviewed = 0 /\ overtaken = {}
  /\ waiting = {} /\ noticed = {}
  /\ spent = [edits |-> 0, decisions |-> 0, outages |-> 0]

Begin ==
  /\ LocationInit
  /\ \/ side = "life" /\ Init
     \/ side = "place" /\ Asleep

Move ==
  /\ UNCHANGED side
  /\ \/ side = "life" /\ Next /\ UNCHANGED locationVars
     \/ side = "place" /\ LocationNext /\ UNCHANGED vars

Shop == Begin /\ [][Move]_<<vars, locationVars, side>> /\ LifeFairness /\ LocationFairness
===============================================================================
