------------------------------ MODULE MCLocation ------------------------------
(* Two places with names of their own; one editor after the other.            *)
EXTENDS LocationEditor

CONSTANTS p1, p2

Names == [p \in Places |-> IF p = p1 THEN "Market Road" ELSE "Station Road"]

FairLocation == LocationSpec /\ LocationFairness
===============================================================================
