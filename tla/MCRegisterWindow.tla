-------------------------- MODULE MCRegisterWindow --------------------------
(* A small instance of RegisterWindow for TLC. *)
EXTENDS RegisterWindow

CONSTANTS i1, p1, c1

\* the code's windows in quarters of an hour, the courier's minute as one;
\* its limit of registrations, and the others far enough above it
Windows == [l \in Limiter |-> IF l = "register" THEN 4 ELSE 1]
Limits  == [l \in Limiter |-> IF l = "register" THEN 5 ELSE 10]

OneIp == [c \in Conn |-> i1]
=============================================================================
