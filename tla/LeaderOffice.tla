------------------------------ MODULE LeaderOffice ------------------------------
(***************************************************************************)
(* What leader election promises to the rest of a controller, whatever the *)
(* lease and the elector do: the loops and handlers of a controller only    *)
(* ask IsLeader (leader.go), and leaderLoops (run.go) asks it once for a    *)
(* group of checks.                                                         *)
(*                                                                          *)
(* One controller at a time is in office.  It is told so later, and it is   *)
(* told only after it has left that it is no longer.  A process that has    *)
(* left does not come back; a new process of the pod may.                   *)
(***************************************************************************)
CONSTANT Controllers

VARIABLES
    leading,    \* who is in office: {} or one controller
    told,       \* for whom IsLeader answers true
    ousted,     \* who has left the office, since its process started
    busy        \* who runs checks that only the leader may start

vars == <<leading, told, ousted, busy>>

Init == leading = {} /\ told = {} /\ ousted = {} /\ busy = {}

(* The office is free, and c was never in it. *)
Elected(c) ==
    /\ leading = {} /\ c \notin told \cup ousted
    /\ leading' = {c} /\ UNCHANGED <<told, ousted, busy>>

ToldOfOffice(c) ==
    /\ c \in leading
    /\ told' = told \cup {c} /\ UNCHANGED <<leading, ousted, busy>>

Leaves(c) ==
    /\ c \in leading
    /\ leading' = {} /\ ousted' = ousted \cup {c} /\ UNCHANGED <<told, busy>>

ToldOfLoss(c) ==
    /\ c \in ousted
    /\ told' = told \ {c} /\ UNCHANGED <<leading, ousted, busy>>

(* Leadership is asked for once, before the checks. *)
StartsChecks(c) ==
    /\ c \in told
    /\ busy' = busy \cup {c} /\ UNCHANGED <<leading, told, ousted>>

EndsChecks(c) == busy' = busy \ {c} /\ UNCHANGED <<leading, told, ousted>>

(* The process of c ends, and with it all that it was told and runs. *)
Ends(c) ==
    /\ leading' = leading \ {c} /\ told' = told \ {c}
    /\ ousted' = ousted \ {c} /\ busy' = busy \ {c}

Next ==
    \E c \in Controllers :
        \/ Elected(c) \/ ToldOfOffice(c) \/ Leaves(c) \/ ToldOfLoss(c)
        \/ StartsChecks(c) \/ EndsChecks(c) \/ Ends(c)

Spec == Init /\ [][Next]_vars
=================================================================================
