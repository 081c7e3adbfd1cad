------------------------------ MODULE MCLeadership ------------------------------
(* Instances of Leadership for TLC. *)
EXTENDS Leadership

CONSTANTS c1, c2

MCTwo == {c1, c2}
================================================================================
