------------------------------ MODULE MCSessions ------------------------------
(* One browser with two tabs; requests, tabs and confirmations are alike.     *)
EXTENDS Sessions, TLC

CONSTANTS b1, t1, t2, c1, c2, r1, r2

OneBrowser == [t \in Tabs |-> b1]
Alike == {f @@ g @@ h : f \in Permutations({t1, t2}), g \in Permutations({c1, c2}),
                        h \in Permutations({r1, r2})}
===============================================================================
