--------------------------- MODULE MCCourierHttp ---------------------------
(* Small instances of CourierHttp for TLC. *)
EXTENDS CourierHttp

CONSTANTS c1, c2
=============================================================================
