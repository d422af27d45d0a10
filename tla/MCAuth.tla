------------------------------- MODULE MCAuth -------------------------------
(* Small instances of Auth for TLC. *)
EXTENDS Auth, TLC

CONSTANTS r1, r2, r3, r4, e1, e2

Symmetric == Permutations(Req) \cup Permutations(Email)
=============================================================================
