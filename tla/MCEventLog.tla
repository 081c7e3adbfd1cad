------------------------------- MODULE MCEventLog -------------------------------
(* EventLog with interchangeable controllers, and mutants of its definitions. *)
EXTENDS EventLog, TLC

Symmetry == Permutations(Controllers)
====
