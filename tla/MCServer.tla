------------------------------ MODULE MCServer ------------------------------
(* Small instances of Server for TLC. *)
EXTENDS Server

CONSTANTS i1, p1, c1, c2, j1

\* the same for all limiters: RegisterWindow is about their differences
Windows == [l \in Limiter |-> 1]
Limits  == [l \in Limiter |-> 2]

OneIp == [c \in Conn |-> i1]
=============================================================================
