---------------------------- MODULE MCBackground ----------------------------
(* Small instances of what goes on around an order: the two outboxes, a       *)
(* shop's computers and printers, and a student's page.  They share nothing,  *)
(* so a behaviour moves one of them while the others are at rest, with no     *)
(* fair action enabled.  The API sends one notification at a time, the worker *)
(* many.                                                                      *)
EXTENDS Outboxes, PrinterSetup, StudentScreen

CONSTANTS api, worker

VARIABLE side

OneAndMany == [p \in Senders |-> IF p = api THEN 1 ELSE 100]

all == <<vars, setupVars, screenVars, side>>

Start ==
  \/ side = "outboxes" /\ Init /\ SetupRest /\ ScreenRest
  \/ side = "setup" /\ Rest /\ SetupInit /\ ScreenRest
  \/ side = "screen" /\ Rest /\ SetupRest /\ ScreenRest

Step ==
  /\ UNCHANGED side
  /\ \/ side = "outboxes" /\ Next /\ UNCHANGED <<setupVars, screenVars>>
     \/ side = "setup" /\ SetupNext /\ UNCHANGED <<vars, screenVars>>
     \/ side = "screen" /\ ScreenNext /\ UNCHANGED <<vars, setupVars>>

Background == Start /\ [][Step]_all /\ Fairness /\ SetupFairness /\ ScreenFairness
=============================================================================
