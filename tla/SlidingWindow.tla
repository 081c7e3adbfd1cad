------------------------------ MODULE SlidingWindow ------------------------------
(***************************************************************************)
(* What a rate limit promises: it remembers everything it ever admitted,    *)
(* and admits one thing more for a key only while fewer than its maximum    *)
(* lie in the window that ends now.  ActionLimiter (ratelimit.go) and       *)
(* CircuitBreaker (circuit.go) forget what is old, and the breaker also     *)
(* forgets everything after a trip; they are to behave as if they did not.  *)
(***************************************************************************)
EXTENDS Integers, FiniteSets

CONSTANTS
    Keys,       \* what is limited: the kinds of change, or the workloads
    Width,      \* the instants of a window
    Limit       \* Limit[k]: how many a window may hold

VARIABLES
    now,
    log         \* log[k]: everything admitted for k, as records with an instant t

Init == now = 0 /\ log = [k \in Keys |-> {}]

InWindow(k) == {e \in log[k] : e.t > now - Width}

(* One thing that was not admitted before, at this instant. *)
Admit(k) ==
    /\ Cardinality(InWindow(k)) < Limit[k]
    /\ \E e \in log'[k] \ log[k] :
          e.t = now /\ log' = [log EXCEPT ![k] = @ \cup {e}]
    /\ now' = now

TimePasses == now' \in Nat /\ now' >= now /\ log' = log

Next == TimePasses \/ \E k \in Keys : Admit(k)

Spec == Init /\ [][Next]_<<now, log>>
=================================================================================
