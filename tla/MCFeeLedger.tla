----------------------------- MODULE MCFeeLedger -----------------------------
(* A small instance: commissions of one and two units.                        *)
EXTENDS FeeLedger, TLC

CONSTANTS j1, j2

OneAndTwo == (j1 :> 1 @@ j2 :> 2)
==============================================================================
