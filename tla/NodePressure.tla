------------------------------ MODULE NodePressure ------------------------------
(***************************************************************************)
(* Node pressure (kube/nodes.go): the agent on a node cordons it and evicts *)
(* pods while it is short of memory or disk, and uncordons it afterwards.   *)
(* An update of the node starts a handler only when the pressure changed;   *)
(* the handler works on the copy of the node that came with the update,     *)
(* next to the handlers of other updates.  The informer delivers every      *)
(* version of the node in turn, unless its watch breaks.                    *)
(***************************************************************************)
EXTENDS Naturals, Sequences

CONSTANTS
    Conditions,   \* memory and disk pressure
    Handlers,     \* the slots of the handler pool that node updates get
    Evictable,    \* pods on the node in the fix scope, not critical, no StatefulSet's
    MaxFaults,    \* bound: dropped updates, refused or failed changes, restarts
    MaxLag        \* bound: versions ahead of which no one else changes the node

VARIABLES
    versions,     \* the node as the informer last delivered it, and all versions since
    jobs,         \* jobs[h]: the handler in slot h
    silenced,     \* the NodePressure key was seen less than a TTL ago
    cordoner,     \* history: who made the node unschedulable last
    missed,       \* history: the end of the pressure was missed, see below
    faults

vars == <<versions, jobs, silenced, cordoner, missed, faults>>

Node == [pressure : SUBSET Conditions, unschedulable : BOOLEAN, mark : BOOLEAN]
NoJob == [step |-> "none", copy |-> [pressure |-> {}, unschedulable |-> FALSE, mark |-> FALSE],
          todo |-> {}]

(* The shapes of the node and of the handlers. *)
TypeOK ==
    /\ versions \in Seq(Node) /\ versions # <<>>
    /\ jobs \in [Handlers -> [step : {"none", "look", "uncordon", "cordon", "list", "evict"},
                              copy : Node, todo : SUBSET Evictable]]
    /\ silenced \in BOOLEAN
    /\ cordoner \in {"nobody", "agent", "operator"}
    /\ missed \in BOOLEAN /\ faults \in 0..MaxFaults

Init ==
    /\ versions = <<NoJob.copy>>
    /\ jobs = [h \in Handlers |-> NoJob]
    /\ silenced = FALSE
    /\ cordoner = "nobody" /\ missed = FALSE /\ faults = 0

Pressed(n) == n.pressure # {}

(* The node in the API server, and a write to it.  A patch that changes      *)
(* nothing gives no new version.                                             *)
Server == versions[Len(versions)]
Becomes(n) == versions' = IF n = Server THEN versions ELSE Append(versions, n)

Fault == faults < MaxFaults /\ faults' = faults + 1
Goes(h, to) == jobs' = [jobs EXCEPT ![h].step = to]
Ends(h) == jobs' = [jobs EXCEPT ![h] = NoJob]

-----------------------------------------------------------------------------
(* The informer *)

(* One of the two conditions changed.                                        *)
PressureChanged(old, new) == old.pressure # new.pressure

(* The UpdateFunc: a handler starts, unless the pool is full.                *)
Update(old, new) ==
    \/ ~PressureChanged(old, new) /\ UNCHANGED <<jobs, missed, faults>>
    \/ /\ PressureChanged(old, new)
       /\ \E h \in Handlers :
             /\ jobs[h] = NoJob
             /\ jobs' = [jobs EXCEPT ![h] = [step |-> "look", copy |-> new, todo |-> {}]]
       /\ UNCHANGED <<missed, faults>>
    \/ /\ PressureChanged(old, new)
       /\ Fault /\ missed' = (missed \/ (~Pressed(new) /\ ~Pressed(Server))) /\ UNCHANGED jobs

(* The next version is delivered.                                            *)
Deliver ==
    /\ Len(versions) > 1 /\ versions' = Tail(versions)
    /\ Update(versions[1], versions[2])
    /\ UNCHANGED <<silenced, cordoner>>

(* The watch breaks and the node is listed: the versions between are skipped,*)
(* and with them an end of the pressure that had begun after the last one.   *)
Relist ==
    /\ Len(versions) > 2 /\ versions' = <<Server>>
    /\ IF Pressed(versions[1]) \/ Pressed(Server) THEN Update(versions[1], Server)
       ELSE missed' = TRUE /\ UNCHANGED <<jobs, faults>>
    /\ UNCHANGED <<silenced, cordoner>>

-----------------------------------------------------------------------------
(* handleNodePressure *)

(* The pressure is over: only a node with our mark is uncordoned.  Or it is  *)
(* there: once per TTL, and in suggest or observe mode only as a message.    *)
LookDeduped(h) ==
    LET c == jobs[h].copy
    IN  /\ jobs[h].step = "look"
        /\ \/ silenced /\ Ends(h) /\ UNCHANGED silenced
           \/ /\ ~silenced /\ silenced' = TRUE
              /\ IF Pressed(c) THEN Goes(h, IF c.unschedulable THEN "list" ELSE "cordon")
                 ELSE IF c.unschedulable /\ c.mark THEN Goes(h, "uncordon") ELSE Ends(h)
        /\ UNCHANGED <<versions, cordoner, missed, faults>>
Look(h) ==
    LET c == jobs[h].copy
    IN  /\ jobs[h].step = "look"
        /\ \/ /\ ~Pressed(c) /\ c.unschedulable /\ c.mark
              /\ Goes(h, "uncordon") /\ UNCHANGED silenced
           \/ /\ ~Pressed(c) /\ ~(c.unschedulable /\ c.mark)
              /\ Ends(h) /\ UNCHANGED silenced
           \/ /\ Pressed(c) /\ silenced
              /\ Ends(h) /\ UNCHANGED silenced
           \/ /\ Pressed(c) /\ ~silenced /\ silenced' = TRUE
              /\ Ends(h) \/ Goes(h, IF c.unschedulable THEN "list" ELSE "cordon")
        /\ UNCHANGED <<versions, cordoner, missed, faults>>

(* The gate applies the patch: schedulable again, and the mark is removed.   *)
Uncordon(h) ==
    /\ jobs[h].step = "uncordon" /\ Ends(h)
    /\ Becomes([Server EXCEPT !.unschedulable = FALSE, !.mark = FALSE])
    /\ cordoner' = "nobody"
    /\ UNCHANGED <<silenced, missed, faults>>

(* A guardrail refuses the patch, or the API server does.  No later update   *)
(* changes the pressure again, so nothing repeats it.                        *)
UncordonRefused(h) ==
    /\ jobs[h].step = "uncordon" /\ Fault /\ Ends(h)
    /\ missed' = TRUE
    /\ UNCHANGED <<versions, silenced, cordoner>>

(* The gate applies the cordon, with the mark, or does not; either way the   *)
(* evictions follow.  If the pressure is over by then, the version that      *)
(* ended it is without the cordon, and no later one will end it.             *)
Cordon(h) ==
    /\ jobs[h].step = "cordon" /\ Goes(h, "list")
    /\ \/ /\ Becomes([Server EXCEPT !.unschedulable = TRUE, !.mark = TRUE])
          /\ cordoner' = "agent"
          /\ missed' = (missed \/ ~Pressed(Server))
       \/ UNCHANGED <<versions, cordoner, missed>>
    /\ UNCHANGED <<silenced, faults>>

ListPods(h) ==
    /\ jobs[h].step = "list"
    /\ \/ jobs' = [jobs EXCEPT ![h].step = "evict", ![h].todo = Evictable]
       \/ Ends(h)    \* the list failed
    /\ UNCHANGED <<versions, silenced, cordoner, missed, faults>>

(* One eviction after the other: a refusal by a PodDisruptionBudget goes on  *)
(* with the next pod, the first block of the gate ends the pass.             *)
Evict(h) ==
    /\ jobs[h].step = "evict"
    /\ \/ \E p \in jobs[h].todo :
             IF jobs[h].todo = {p} THEN Ends(h) ELSE jobs' = [jobs EXCEPT ![h].todo = @ \ {p}]
       \/ Ends(h)
    /\ UNCHANGED <<versions, silenced, cordoner, missed, faults>>

HandlerStep(h) ==
    Look(h) \/ Uncordon(h) \/ UncordonRefused(h) \/ Cordon(h) \/ ListPods(h) \/ Evict(h)

-----------------------------------------------------------------------------
(* The node, an operator, the process *)

(* A pressure that begins will also end: a new chance to uncordon.           *)
PressureFlips ==
    /\ Len(versions) < MaxLag
    /\ \E c \in Conditions :
          LET n == [Server EXCEPT !.pressure = IF c \in @ THEN @ \ {c} ELSE @ \cup {c}]
          IN  Becomes(n) /\ missed' = (missed /\ ~Pressed(n))
    /\ UNCHANGED <<jobs, silenced, cordoner, faults>>

(* kubectl cordon and uncordon, which know nothing of the mark.              *)
OperatorCordons ==
    /\ Len(versions) < MaxLag
    /\ Becomes([Server EXCEPT !.unschedulable = ~@])
    /\ cordoner' = IF Server.unschedulable THEN "nobody" ELSE "operator"
    /\ UNCHANGED <<jobs, silenced, missed, faults>>

TTLEnds ==
    /\ silenced /\ silenced' = FALSE
    /\ UNCHANGED <<versions, jobs, cordoner, missed, faults>>

(* The new process gets the node as an add, which nothing handles.           *)
Restart ==
    /\ Fault
    /\ versions' = <<Server>> /\ jobs' = [h \in Handlers |-> NoJob] /\ silenced' = FALSE
    /\ missed' = (missed \/ ~Pressed(Server))
    /\ UNCHANGED cordoner

Next ==
    \/ Deliver \/ Relist \/ PressureFlips \/ OperatorCordons \/ TTLEnds \/ Restart
    \/ \E h \in Handlers : HandlerStep(h)

Spec == Init /\ [][Next]_vars

-----------------------------------------------------------------------------
(* Properties. *)

StillCordoned == Server.unschedulable /\ cordoner = "agent"

(* When the pressure is over and nothing is under way any more, the node     *)
(* that the agent cordoned is schedulable again, unless the end was missed:  *)
(* its update was dropped with a full pool, skipped by a new list or came    *)
(* while the process was restarted, the gate or the API server refused the   *)
(* patch, or the cordon was applied when the pressure was over.              *)
UncordonedUnlessMissed ==
    ~Pressed(Server) /\ Len(versions) = 1 /\ (\A h \in Handlers : jobs[h] = NoJob) =>
        (StillCordoned => missed)
================================================================================
