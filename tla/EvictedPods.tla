------------------------------ MODULE EvictedPods ------------------------------
(***************************************************************************)
(* Evicted pods of one workload in the leader's job group (run.go):         *)
(* CleanupEvictedPods (workloads.go) deletes them, and later in the same    *)
(* pass CheckEphemeralStorageFull (pod_extended.go) reports the ones that   *)
(* the kubelet evicted for local storage.                                   *)
(***************************************************************************)
EXTENDS Naturals

CONSTANTS
    Pods,        \* pod names; a StatefulSet gives a name to a new pod again
    TTL, Day     \* the dedup TTL and terminalPodWindow, in ticks

VARIABLES
    cleans,      \* mode and scope let the cleanup through
    pods,        \* pods[p]: the pod of that name
    at,          \* where the pass of the job group is
    todo,        \* the names that the cleanup listed
    uidSeen,     \* what is left of the detector's window for the pod's UID
    left,        \* what is left of report's window for the workload
    covered,     \* history: a report covers the pod: of it, or within the window
    unseen,      \* history: the agent removed an evicted pod nobody was told of
    unread       \* history: the detector's last list failed

vars == <<cleans, pods, at, todo, uidSeen, left, covered, unseen, unread>>

States == {"running", "evicted", "storage", "gone"}
Removable == {"evicted", "storage"}       \* Failed, with a reason of evictedReasons

(* Shapes of the pods and of the pass.                                       *)
TypeOK ==
    /\ cleans \in BOOLEAN /\ pods \in [Pods -> States]
    /\ at \in {"idle", "delete", "detect"} /\ todo \subseteq Pods
    /\ uidSeen \in [Pods -> 0..Day] /\ left \in 0..TTL
    /\ covered \in [Pods -> BOOLEAN] /\ unseen \in BOOLEAN /\ unread \in BOOLEAN

Init ==
    /\ cleans \in BOOLEAN /\ pods = [p \in Pods |-> "running"]
    /\ at = "idle" /\ todo = {}
    /\ uidSeen = [p \in Pods |-> 0] /\ left = 0
    /\ covered = [p \in Pods |-> FALSE] /\ unseen = FALSE /\ unread = FALSE

(* CleanupEvictedPods lists the failed pods and asks the gate, once for all  *)
(* of them; observe and suggest mode and the guardrails withhold it, and a   *)
(* list that fails ends it.                                                  *)
ListEvicted ==
    /\ at = "idle"
    /\ LET names == {p \in Pods : pods[p] \in Removable}
       IN  \/ cleans /\ names # {} /\ at' = "delete" /\ todo' = names
           \/ at' = "detect" /\ todo' = {}
    /\ UNCHANGED <<cleans, pods, uidSeen, left, covered, unseen, unread>>

(* Apply deletes by name, one after the other; an error goes on with the     *)
(* next.                                                                     *)
DeleteListed ==
    /\ at = "delete"
    /\ \/ \E p \in todo :
             /\ todo' = todo \ {p}
             /\ \/ /\ pods' = [pods EXCEPT ![p] = "gone"]
                   /\ unseen' = (unseen \/ (pods[p] = "storage" /\ ~covered[p]))
                \/ UNCHANGED <<pods, unseen>>
             /\ UNCHANGED at
       \/ todo = {} /\ at' = "detect" /\ UNCHANGED <<todo, pods, unseen>>
    /\ UNCHANGED <<cleans, uidSeen, left, covered, unread>>

(* failedPods has no answer: the detector finds nothing in the namespace.    *)
FailedPodsUnread ==
    /\ at = "detect" /\ at' = "idle" /\ unread' = TRUE
    /\ UNCHANGED <<cleans, pods, todo, uidSeen, left, covered, unseen>>

(* CheckEphemeralStorageFull: once per pod, and then report's window for the *)
(* workload.                                                                 *)
CheckEphemeralStorageFull ==
    /\ at = "detect" /\ at' = "idle" /\ unread' = FALSE
    /\ LET found == {p \in Pods : pods[p] = "storage" /\ uidSeen[p] = 0}
       IN  /\ uidSeen' = [p \in Pods |-> IF p \in found THEN Day ELSE uidSeen[p]]
           /\ covered' = [p \in Pods |-> covered[p] \/ p \in found]
           /\ left' = IF found # {} /\ left = 0 THEN TTL ELSE left
    /\ UNCHANGED <<cleans, pods, todo, unseen>>

(* The kubelet evicts a pod: for local storage, or for another reason.       *)
KubeletEvicts(p) ==
    /\ pods[p] = "running"
    /\ \E s \in Removable : pods' = [pods EXCEPT ![p] = s]
    /\ UNCHANGED <<cleans, at, todo, uidSeen, left, covered, unseen, unread>>

(* A controller puts a new pod, with a new UID, in the place of a failed or  *)
(* removed one of that name.                                                 *)
ReplacedKeepsKey(p) ==
    /\ pods[p] # "running" /\ pods' = [pods EXCEPT ![p] = "running"]
    /\ covered' = [covered EXCEPT ![p] = FALSE]
    /\ UNCHANGED <<cleans, at, todo, uidSeen, left, unseen, unread>>
Replaced(p) ==
    /\ pods[p] # "running" /\ pods' = [pods EXCEPT ![p] = "running"]
    /\ uidSeen' = [uidSeen EXCEPT ![p] = 0] /\ covered' = [covered EXCEPT ![p] = FALSE]
    /\ UNCHANGED <<cleans, at, todo, left, unseen, unread>>

Less(n) == IF n > 0 THEN n - 1 ELSE 0
Tick ==
    /\ uidSeen' = [p \in Pods |-> Less(uidSeen[p])] /\ left' = Less(left)
    /\ UNCHANGED <<cleans, pods, at, todo, covered, unseen, unread>>

Next ==
    \/ ListEvicted \/ DeleteListed \/ FailedPodsUnread \/ CheckEphemeralStorageFull
    \/ \E p \in Pods : KubeletEvicts(p) \/ Replaced(p)
    \/ Tick

Spec == Init /\ [][Next]_vars

-----------------------------------------------------------------------------
(* Properties. *)

(* An eviction for local storage is reported before the agent removes the    *)
(* pod, and with it what the report is made of.                              *)
EvictionTold == ~unseen

(* A pass of the detector that has read the failed pods leaves none that was *)
(* evicted for local storage without a report of its own or of its workload  *)
(* within the window, also when a pod of the same name was reported before   *)
(* and when earlier passes could not read the pods.                          *)
DetectorStep ==
    at = "detect" /\ at' = "idle" /\ ~unread' => \A p \in Pods : pods[p] = "storage" => covered'[p]
EvictionsCovered == [][DetectorStep]_vars
================================================================================
