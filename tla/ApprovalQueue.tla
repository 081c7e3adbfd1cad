----------------------------- MODULE ApprovalQueue -----------------------------
(***************************************************************************)
(* What the approval queue promises, whatever number of controllers work   *)
(* on it: a queued change is decided once, for good; it leaves the queue   *)
(* only after that; and it is carried out at most once, after it was       *)
(* approved.  Approvals implements this specification.                     *)
(***************************************************************************)
EXTENDS Integers

CONSTANT Ids

VARIABLES
    decision,   \* decision[id]: what became of id, kept when id is dropped
    held,       \* the ids in the queue
    runs        \* runs[id]: how often the change was carried out

queueVars == <<decision, held, runs>>

Verdicts == {"approved", "rejected", "expired"}

QueueInit ==
    /\ decision = [id \in Ids |-> "none"]
    /\ held = {}
    /\ runs = [id \in Ids |-> 0]

Moved(d, v) == {id \in Ids : decision[id] = d /\ decision'[id] = v}

(* One committed write of the queue. *)
Commit ==
    /\ \A id \in Ids :
          \/ decision'[id] = decision[id]
          \/ decision[id] = "none" /\ decision'[id] = "pending"
          \/ decision[id] = "pending" /\ decision'[id] \in Verdicts
    (* one write answers one request: at most one change is queued or decided *)
    (* by a person, while any number expire                                   *)
    /\ \A i, j \in Moved("none", "pending") \cup Moved("pending", "approved")
                      \cup Moved("pending", "rejected") : i = j
    (* ids enter when they are queued, and leave once they are decided *)
    /\ \A id \in held' \ held : decision[id] = "none" /\ decision'[id] = "pending"
    /\ \A id \in held \ held' : decision'[id] \in Verdicts
    /\ Moved("none", "pending") \subseteq held'
    /\ runs' = runs

(* Carry out an approved change, which may have been dropped since. *)
Run(id) ==
    /\ decision[id] = "approved"
    /\ runs[id] = 0
    /\ runs' = [runs EXCEPT ![id] = 1]
    /\ UNCHANGED <<decision, held>>

QueueNext == Commit \/ \E id \in Ids : Run(id)

QueueSpec == QueueInit /\ [][QueueNext]_queueVars
================================================================================
