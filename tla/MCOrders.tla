------------------------------ MODULE MCOrders ------------------------------
(* Small instances of Orders for TLC. *)
EXTENDS Orders, TLC

CONSTANTS r1, r2, r3, e1, e2, ub, gone

Symmetric == Permutations(Req) \cup Permutations(ExtId)

Path2    == <<"PICKED UP", "DELIVERED">>
PathBack == <<"MANIFESTED", "PICKED UP">>
=============================================================================
