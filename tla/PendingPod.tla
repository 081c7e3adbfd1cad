------------------------------- MODULE PendingPod -------------------------------
(***************************************************************************)
(* A pod that is bound to a node and stays Pending for more than            *)
(* pendingAfter.  Two processes look at it, each with its own deduplicator, *)
(* and leave it to each other: handlePending (kube/handlers.go) of the      *)
(* agent on the node tells of it unless its volumes fail, CheckPodStates    *)
(* (kube/podstate.go) of the leader tells only of failing volumes.  Both    *)
(* read the events of the pod at times of their own.  Times are what is     *)
(* left of a window, in ticks; a handler ends within its tick.              *)
(***************************************************************************)
EXTENDS Naturals

CONSTANT TTL      \* the dedup window, in ticks

VARIABLES
    volumeFails,  \* the events of the pod say that a volume is not attached or mounted
    elsewhere,    \* handlePodUpdate returns before it comes to Pending: an annotation
                  \*   excludes the pod, or a container of it waits for a reason of its own
    keyLeft,      \* the agent: what is left of the Pending key of the workload
    reading,      \* the agent: handlePending has not read the events yet
    eventsSeen,   \* the leader: what its pass has listed, "none" outside of a pass
    volumeLeft,   \* the leader: what is left of report's window for the volume
    updated,      \* the agent got an update of the pod in this tick
    checked,      \* the leader ended a pass in this tick
    silent        \* history: ticks for which nothing was told, see Tick

vars == <<volumeFails, elsewhere, keyLeft, reading, eventsSeen, volumeLeft, updated, checked, silent>>

(* Shapes of the windows and of what was read.                               *)
TypeOK ==
    /\ volumeFails \in BOOLEAN /\ elsewhere \in BOOLEAN /\ reading \in BOOLEAN
    /\ updated \in BOOLEAN /\ checked \in BOOLEAN
    /\ keyLeft \in 0..TTL /\ volumeLeft \in 0..TTL
    /\ eventsSeen \in {"none", "failing", "fine"} /\ silent \in 0..(TTL + 1)

Init ==
    /\ volumeFails \in BOOLEAN /\ elsewhere \in BOOLEAN
    /\ keyLeft = 0 /\ volumeLeft = 0 /\ reading = FALSE /\ eventsSeen = "none"
    /\ updated = FALSE /\ checked = FALSE /\ silent = 0

Tells == silent' = 0

-----------------------------------------------------------------------------
(* The agent on the node *)

(* handlePodUpdate, at a change or at the resync.  The key of the workload   *)
(* is consumed before a place for the handler is sought; without one the     *)
(* update is dropped, and the pod waits for the next window.                 *)
PodUpdateSliding ==
    /\ ~updated /\ updated' = TRUE
    /\ IF elsewhere THEN UNCHANGED <<keyLeft, reading, silent>>
       ELSE /\ keyLeft' = TTL
            /\ IF keyLeft > 0 THEN UNCHANGED <<reading, silent>>
               ELSE \/ reading' = TRUE /\ UNCHANGED silent
                    \/ silent' = 0 /\ UNCHANGED reading
    /\ UNCHANGED <<volumeFails, elsewhere, eventsSeen, volumeLeft, checked>>
PodUpdate ==
    /\ ~updated /\ updated' = TRUE
    /\ IF elsewhere \/ keyLeft > 0 THEN UNCHANGED <<keyLeft, reading, silent>>
       ELSE /\ keyLeft' = TTL
            /\ \/ reading' = TRUE /\ UNCHANGED silent
               \/ silent' = 0 /\ UNCHANGED reading
    /\ UNCHANGED <<volumeFails, elsewhere, eventsSeen, volumeLeft, checked>>

(* handlePending reads the events: a volume that fails is left to the        *)
(* leader.  A read that fails gives no event, so it tells.                   *)
handlePendingSilent ==
    /\ reading /\ reading' = FALSE /\ (silent' = silent \/ (~volumeFails /\ Tells))
    /\ UNCHANGED <<volumeFails, elsewhere, keyLeft, eventsSeen, volumeLeft, updated, checked>>
handlePending ==
    /\ reading /\ reading' = FALSE
    /\ \/ volumeFails /\ UNCHANGED silent
       \/ Tells
    /\ UNCHANGED <<volumeFails, elsewhere, keyLeft, eventsSeen, volumeLeft, updated, checked>>

(* A handler of another pod of the workload consumes the key, for a message  *)
(* about that pod or to leave that one to the leader.                        *)
OtherPod ==
    /\ keyLeft = 0 /\ keyLeft' = TTL /\ silent' = 0
    /\ UNCHANGED <<volumeFails, elsewhere, reading, eventsSeen, volumeLeft, updated, checked>>

AgentRestarts ==
    /\ keyLeft' = 0 /\ reading' = FALSE /\ silent' = 0
    /\ UNCHANGED <<volumeFails, elsewhere, eventsSeen, volumeLeft, updated, checked>>

-----------------------------------------------------------------------------
(* The leader *)

(* CheckPodStates lists the pods and the events of all namespaces first.  A  *)
(* failing list of events counts as an empty one; one of pods ends it.       *)
ListPodStates ==
    /\ ~checked /\ eventsSeen = "none"
    /\ \/ eventsSeen' = (IF volumeFails THEN "failing" ELSE "fine") /\ UNCHANGED <<checked, silent>>
       \/ eventsSeen' = "fine" /\ silent' = 0 /\ UNCHANGED checked
       \/ checked' = TRUE /\ silent' = 0 /\ UNCHANGED eventsSeen
    /\ UNCHANGED <<volumeFails, elsewhere, keyLeft, reading, volumeLeft, updated>>

(* checkVolumeFailures, and report with its window.                          *)
checkVolumeFailures ==
    /\ eventsSeen # "none" /\ eventsSeen' = "none" /\ checked' = TRUE
    /\ IF eventsSeen = "failing" /\ volumeLeft = 0 THEN volumeLeft' = TTL /\ Tells
       ELSE UNCHANGED <<volumeLeft, silent>>
    /\ UNCHANGED <<volumeFails, elsewhere, keyLeft, reading, updated>>

(* Another process leads, with a deduplicator of its own.                    *)
LeaderChanges ==
    /\ volumeLeft' \in 0..TTL /\ eventsSeen' = "none" /\ silent' = 0
    /\ UNCHANGED <<volumeFails, elsewhere, keyLeft, reading, updated, checked>>

-----------------------------------------------------------------------------
(* The pod and the clock *)

(* Events of failing volumes come, or expire.                                *)
EventsChange ==
    /\ volumeFails' = ~volumeFails /\ silent' = 0
    /\ UNCHANGED <<elsewhere, keyLeft, reading, eventsSeen, volumeLeft, updated, checked>>

(* A container comes to wait for a reason of its own, or no longer does.     *)
StateChanges ==
    /\ elsewhere' = ~elsewhere /\ silent' = 0
    /\ UNCHANGED <<volumeFails, keyLeft, reading, eventsSeen, volumeLeft, updated, checked>>

(* A tick in which both looked at the pod, and the one that owes a message   *)
(* told nothing.                                                             *)
Owed == volumeFails \/ ~elsewhere
Less(n) == IF n > 0 THEN n - 1 ELSE 0
Tick ==
    /\ ~reading
    /\ keyLeft' = Less(keyLeft) /\ volumeLeft' = Less(volumeLeft)
    /\ updated' = FALSE /\ checked' = FALSE
    /\ silent' = IF ~(updated /\ checked /\ Owed) THEN 0 ELSE IF silent <= TTL THEN silent + 1 ELSE silent
    /\ UNCHANGED <<volumeFails, elsewhere, reading, eventsSeen>>

Next ==
    \/ PodUpdate \/ handlePending \/ OtherPod \/ AgentRestarts
    \/ ListPodStates \/ checkVolumeFailures \/ LeaderChanges
    \/ EventsChange \/ StateChanges \/ Tick

Spec == Init /\ [][Next]_vars

-----------------------------------------------------------------------------
(* Properties. *)

(* A pod that cannot start for one and the same reason is told of within a   *)
(* dedup window, by the one of the two that the reason falls to, whatever    *)
(* the other one read before: the events changed between the two reads, the  *)
(* key was consumed when the pod was left to the leader, or the handler's    *)
(* read failed.  A dropped update, a list of the leader that fails, a new    *)
(* process and another pod that takes the key begin the window anew.         *)
PendingTold == silent <= TTL
=================================================================================
