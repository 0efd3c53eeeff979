----------------------------- MODULE MCCheckout -----------------------------
(* Small instances: two menus, two sets of options, one coupon.               *)
EXTENDS Checkout, TLC

CONSTANTS a4, a3, staple, s1, s2, t1, t2

Cheap == [papers |-> (a4 :> [bw |-> 101, color |-> 500]), bindings |-> (staple :> 250)]
Dear == [papers |-> (a4 :> [bw |-> 150, color |-> None]) @@ (a3 :> [bw |-> 333, color |-> 900]),
         bindings |-> (staple :> 250)]
TwoMenus == {Cheap, Dear}

Plain == [paper |-> a4, color |-> FALSE, binding |-> None, copies |-> 2, range |-> None]
Chosen == [paper |-> a4, color |-> TRUE, binding |-> staple, copies |-> 1,
           range |-> {<<1, 2>>, <<2, 2>>}]
TwoSpecs == {Plain, Chosen}

OneProfile == {[papers |-> {a4}, color |-> TRUE, finishing |-> {staple}]}
TenPercent == [percent |-> 10, paise |-> 0, limit |-> 1]
==============================================================================
