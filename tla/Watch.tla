--------------------------------- MODULE Watch ---------------------------------
(***************************************************************************)
(* The pod watcher of a node agent (kube/watcher.go, handlers*.go), with    *)
(* the deduplicator, the pool of handlers, the escalation of failed fixes   *)
(* and the order of the shutdown (run.go).                                  *)
(*                                                                          *)
(* An update of a pod names one finding, its deduplication key is consumed, *)
(* and a handler runs in the pool if a slot is free.  A handler collects    *)
(* what it reports, may send one change through the gate (see Gate), has it *)
(* audited and then tells people.  Times are what is left of a period, in   *)
(* ticks: Tick lets one tick pass everywhere.                               *)
(***************************************************************************)
EXTENDS Naturals, Sequences, FiniteSets, SequencesExt

CONSTANTS
    Pods,
    Workloads,
    OwnerOf,         \* OwnerOf[p]: the workload that ownerName gives for p
    Ignored,         \* pods in unwatched namespaces or with the exclusion annotation
    Kinds,           \* names of the statuses that pods may have
    StatusOf,        \* StatusOf[n]: what the watcher reads of such a pod
    Fresh,           \* the kind of a pod that was just created
    GitOps,          \* "none", "pr" or "live"
    Slots,           \* maxConcurrentHandlers
    MaxInFlight,     \* maxInFlight, escalations sent at once
    Channels,        \* configured escalation channels, each with channelTimeout of a tick
    TTL,             \* the dedup TTL, in ticks
    HandlerTimeout   \* handlerTimeout, in ticks

FixFailed == "EscalateFailedFix"

(* What the watcher reads of a container: why it waits ("" if it does not),  *)
(* whether it was last killed for memory, its restarts, and whether it has   *)
(* been running without being ready for longer than notReadyAfter.           *)
Container == [waiting : STRING, oom : BOOLEAN, restarts : Nat, unready : BOOLEAN]

(* And of a pod: its init and other containers, what the messages of a      *)
(* failing image pull mention, whether it has been pending for longer than  *)
(* pendingAfter, whether it has no node, and whether its events tell of     *)
(* volumes that could not be mounted.                                       *)
Status == [init : Seq([name : STRING, waiting : STRING]), containers : Seq(Container),
           pull : SUBSET STRING, pending : BOOLEAN, unbound : BOOLEAN, volumes : BOOLEAN]

ASSUME WatchAssumption ==
    /\ OwnerOf \in [Pods -> Workloads] /\ Ignored \subseteq Pods
    /\ Fresh \in Kinds /\ \A n \in Kinds : StatusOf[n] \in Status
    /\ GitOps \in {"none", "pr", "live"}
    /\ {Slots, MaxInFlight, Channels, TTL, HandlerTimeout} \subseteq Nat \ {0}

-----------------------------------------------------------------------------
(* What is wrong with a pod: handlePodUpdate, in its order. *)

InitReasons == {"CrashLoopBackOff", "Error", "ImagePullBackOff"}
AdditionalReasons == {"RunContainerError", "ContainerCannotRun", "PostStartHookError",
                      "PreStopHookError", "InvalidImageName", "ErrImageNeverPull", "StartError"}

(* The checks of one container, with the reason that is part of the key.     *)
Checks(c) ==
    << <<"CrashLoopBackOff", c.waiting = "CrashLoopBackOff">>,
       <<"ImagePullBackOff", c.waiting \in {"ImagePullBackOff", "ErrImagePull"}>>,
       <<"OOMKilled", c.oom>>,
       <<"ConfigError", c.waiting = "CreateContainerConfigError">>,
       <<"RestartStorm", c.restarts >= 5>>,
       <<c.waiting, c.waiting \in AdditionalReasons>>,
       <<"NotReady", c.unready /\ c.restarts = 0>> >>

(* The first check that a container fails.                                   *)
ContainerFinding(c) ==
    LET i == SelectInSeq(Checks(c), LAMBDA x : x[2])
    IN  IF i = 0 THEN "" ELSE Checks(c)[i][1]

NoFinding == <<"", "">>

(* The first finding of a pod; what comes after it is not looked at.  That   *)
(* of an init container has the container's name.                            *)
Finding(st) ==
    LET i == SelectInSeq(st.init, LAMBDA c : c.waiting \in InitReasons)
        j == SelectInSeq(st.containers, LAMBDA c : ContainerFinding(c) # "")
    IN  IF i # 0 THEN <<"InitFailed", st.init[i].name>>
        ELSE IF j # 0 THEN <<ContainerFinding(st.containers[j]), "">>
        ELSE IF st.pending THEN <<"Pending", "">>
        ELSE NoFinding

FindingOf == [n \in Kinds |-> Finding(StatusOf[n])]
Fixes == {"none", "delete_pod", "gitops_commit", "open_pr"}
Keys == Workloads \X (({FindingOf[n] : n \in Kinds} \ {NoFinding}) \cup ({FixFailed} \X Fixes))

(* classifyPull: the first kind of message found decides, and only an        *)
(* unreachable registry or an unknown cause is retried.                      *)
PullRetries(st) == st.pull \cap {"ratelimited", "unauthorized", "notfound"} = {}

(* The change that the handler of a finding attempts.                        *)
FixFor(reason, st) ==
    IF reason \in {"CrashLoopBackOff", "NotReady", "InitFailed"}
          \/ (reason = "ImagePullBackOff" /\ PullRetries(st)) THEN "delete_pod"
    ELSE IF reason = "OOMKilled" THEN [none |-> "none", pr |-> "open_pr", live |-> "gitops_commit"][GitOps]
    ELSE "none"

-----------------------------------------------------------------------------
VARIABLES
    status,    \* status[p]: the pod, as the API server and the informer have it
    seen,      \* Deduplicator.seen: ticks until a key may be processed again
    pool,      \* the handlers that run, by slot
    sends,     \* Chain.inFlight: the escalations under way, by place
    phase,     \* "up", "draining" (WaitIdle), "closing" (the logs) or "down"
    expired,   \* WaitIdle gave up
    gap        \* history: ticks until the last deletion for a key is TTL old

vars == <<status, seen, pool, sends, phase, expired, gap>>

Free == [pod |-> "none", key |-> <<>>, fix |-> "none", step |-> "none", left |-> 0, reached |-> FALSE]
NoSend == [key |-> <<>>, left |-> 0, age |-> 0]

Steps == {"gather", "gate", "open_pr", "audit", "audit_failed", "tell"}
Handler == [pod : Pods, key : Keys, fix : Fixes, step : Steps,
            left : 0..HandlerTimeout, reached : BOOLEAN]

(* An escalation: the channels left to try, and the ticks since it began.    *)
Sending == {s \in [key : Keys, left : 1..Channels, age : 0..Channels] : s.age + s.left <= Channels}

(* The shapes of the handlers, of the escalations and of the windows. *)
TypeOK ==
    /\ status \in [Pods -> Kinds]
    /\ seen \in [Keys -> 0..TTL]
    /\ pool \in [1..Slots -> Handler \cup {Free}]
    /\ sends \in [1..MaxInFlight -> Sending \cup {NoSend}]
    /\ phase \in {"up", "draining", "closing", "down"} /\ expired \in BOOLEAN
    /\ gap \in [Keys -> 0..TTL]

Idle == [i \in 1..Slots |-> Free]
Quiet == [k \in Keys |-> 0]

(* startWork and NewDeduplicator: every process starts with empty memory.    *)
EmptyMemory ==
    /\ expired' = FALSE /\ seen' = Quiet /\ gap' = Quiet
    /\ pool' = Idle /\ sends' = [i \in 1..MaxInFlight |-> NoSend]

Init ==
    /\ status = [p \in Pods |-> Fresh]
    /\ seen = Quiet /\ pool = Idle /\ sends = [i \in 1..MaxInFlight |-> NoSend]
    /\ phase = "up" /\ expired = FALSE /\ gap = Quiet

-----------------------------------------------------------------------------
(* Deduplicator and pool *)

Reported(p) == p \notin Ignored /\ FindingOf[status[p]] # NoFinding
Key(p) == <<OwnerOf[p], FindingOf[status[p]]>>

(* Deduplicator.Check: TRUE once, then not until the TTL is over.            *)
Checked(k) == seen[k] = 0 /\ seen' = [seen EXCEPT ![k] = TTL]

FreeSlots == {i \in 1..Slots : pool[i] = Free}

(* An update of a pod, by a change or a resync: the key is consumed, then    *)
(* runHandler starts the handler or drops the event.  The informers are not  *)
(* waited for at the shutdown and may still deliver.                         *)
PodUpdate(p) ==
    /\ phase # "down" /\ Reported(p)
    /\ Checked(Key(p))
    /\ IF FreeSlots = {} THEN UNCHANGED pool
       ELSE \E i \in FreeSlots :
               pool' = [pool EXCEPT ![i] =
                          [pod |-> p, key |-> Key(p), fix |-> FixFor(Key(p)[2][1], StatusOf[status[p]]),
                           step |-> "gather", left |-> HandlerTimeout, reached |-> FALSE]]
    /\ UNCHANGED <<status, sends, phase, expired, gap>>

(* The context of a handler ends with its timeout and with the process's.    *)
AliveUntilTimeout(i) == pool[i].left > 0
AliveUntilShutdown(i) == phase = "up"
Alive(i) == pool[i].left > 0 /\ phase = "up"

Step(i, from, to) == pool[i].step = from /\ pool' = [pool EXCEPT ![i].step = to]

AfterGather == [none |-> "tell", open_pr |-> "open_pr",
                delete_pod |-> "gate", gitops_commit |-> "gate"]

(* handlePending leaves a pod without a node, or with failing volumes, to    *)
(* CheckPodStates; a read of its events that fails gives none.               *)
LeftToChecks(st, read) == st.unbound \/ (st.volumes /\ read)

(* Logs, events and the bundle are collected.                                *)
Gather(i) ==
    /\ pool[i].step = "gather"
    /\ \E read \in BOOLEAN :
          pool' = [pool EXCEPT ![i] =
                     IF @.key[2][1] = "Pending" /\ LeftToChecks(StatusOf[status[@.pod]], read) THEN Free
                     ELSE [@ EXCEPT !.step = AfterGather[pool[i].fix]]]
    /\ UNCHANGED <<status, seen, sends, phase, expired, gap>>

(* The gate does not apply the change: mode, scope or a guardrail.           *)
Withheld(i) ==
    /\ Step(i, "gate", "tell")
    /\ UNCHANGED <<status, seen, sends, phase, expired, gap>>

(* m.Apply reaches the API server (or the Git host); its answer may be lost. *)
(* A deleted pod is created again by its controller.                         *)
Apply(i) ==
    /\ pool[i].step = "gate" /\ Alive(i)
    /\ \E to \in {"audit", "audit_failed"} :
          pool' = [pool EXCEPT ![i].step = to, ![i].reached = TRUE]
    /\ IF pool[i].fix = "delete_pod"
       THEN /\ status' = [status EXCEPT ![pool[i].pod] = Fresh]
            /\ gap' = [gap EXCEPT ![pool[i].key] = TTL]
       ELSE UNCHANGED <<status, gap>>
    /\ UNCHANGED <<seen, sends, phase, expired>>

(* m.Apply fails: refused, or the context is over before it is sent.         *)
ApplyFails(i) ==
    /\ Step(i, "gate", "audit_failed")
    /\ UNCHANGED <<status, seen, sends, phase, expired, gap>>

(* OpenPR is outside of the gate; only a pull request that was opened is     *)
(* audited.                                                                  *)
OpenPR(i) ==
    /\ \/ /\ Alive(i) /\ pool[i].step = "open_pr"
          /\ pool' = [pool EXCEPT ![i].step = "audit", ![i].reached = TRUE]
       \/ Step(i, "open_pr", "tell")
    /\ UNCHANGED <<status, seen, sends, phase, expired, gap>>

(* auditAction "success", and tryFixAction hands the action to FixTracker.   *)
Audit(i) ==
    /\ Step(i, "audit", "tell")
    /\ UNCHANGED <<status, seen, sends, phase, expired, gap>>

FailedKey(i) == <<pool[i].key[1], <<FixFailed, pool[i].fix>>>>
FreePlaces == {j \in 1..MaxInFlight : sends[j] = NoSend}

(* Chain.Send: in the background, or dropped when too many are under way.    *)
Send(k) ==
    IF FreePlaces = {} THEN UNCHANGED sends
    ELSE \E j \in FreePlaces : sends' = [sends EXCEPT ![j] = [key |-> k, left |-> Channels, age |-> 0]]

(* auditAction "failed", then escalateFailedFix, once per dedup window.      *)
AlwaysEscalates(i) ==
    /\ Step(i, "audit_failed", "tell")
    /\ Send(FailedKey(i))
    /\ UNCHANGED <<seen, status, phase, expired, gap>>
AuditFailed(i) ==
    /\ Step(i, "audit_failed", "tell")
    /\ \/ Checked(FailedKey(i)) /\ Send(FailedKey(i))
       \/ seen[FailedKey(i)] > 0 /\ UNCHANGED <<seen, sends>>
    /\ UNCHANGED <<status, phase, expired, gap>>

(* postIncident, fireAlert, createTicket and recordEvent; then the slot is   *)
(* free again.                                                               *)
TellLeaks(i) ==
    /\ pool[i].step = "tell" /\ UNCHANGED vars
Tell(i) ==
    /\ pool[i].step = "tell"
    /\ pool' = [pool EXCEPT ![i] = Free]
    /\ UNCHANGED <<status, seen, sends, phase, expired, gap>>

Escalated(s) == IF s.left > 1 THEN [s EXCEPT !.left = @ - 1] ELSE NoSend

(* Chain.Escalate: one channel after the other, each answered or failed      *)
(* within its timeout; a failed one does not keep the next from being tried. *)
Escalate(j) ==
    /\ sends[j] # NoSend
    /\ sends' = [sends EXCEPT ![j] = Escalated(@)]
    /\ UNCHANGED <<status, seen, pool, phase, expired, gap>>

-----------------------------------------------------------------------------
(* Time, the cluster and the process *)

Less(n) == IF n > 0 THEN n - 1 ELSE 0
Tick ==
    /\ phase # "down"
    /\ seen' = [k \in Keys |-> Less(seen[k])]
    /\ gap' = [k \in Keys |-> Less(gap[k])]
    /\ pool' = [i \in 1..Slots |-> IF pool[i] = Free THEN Free ELSE [pool[i] EXCEPT !.left = Less(@)]]
    /\ sends' = [j \in 1..MaxInFlight |->
                   IF sends[j] = NoSend THEN NoSend
                   ELSE Escalated([sends[j] EXCEPT !.age = @ + 1])]
    /\ UNCHANGED <<status, phase, expired>>

StatusChange(p) ==
    /\ \E n \in Kinds : status' = [status EXCEPT ![p] = n]
    /\ UNCHANGED <<seen, pool, sends, phase, expired, gap>>

(* SIGTERM: the context of the process ends, shutdown begins.                *)
Sigterm ==
    /\ phase = "up" /\ phase' = "draining"
    /\ UNCHANGED <<status, seen, pool, sends, expired, gap>>

(* WaitIdle and the wait for the leader loops: until nothing runs, or until  *)
(* handlerGrace is over.                                                     *)
WaitIdle ==
    /\ phase = "draining" /\ phase' = "closing"
    /\ expired' = (pool # Idle)
    /\ UNCHANGED <<status, seen, pool, sends, gap>>

(* The forwarder and the logs are closed and the process ends, with whatever *)
(* still runs; Escalation.Wait is not called.                                *)
Exit == phase = "closing" /\ phase' = "down" /\ EmptyMemory /\ UNCHANGED status

Crash == phase # "down" /\ phase' = "down" /\ EmptyMemory /\ UNCHANGED status

Start == phase = "down" /\ phase' = "up" /\ EmptyMemory /\ UNCHANGED status

HandlerStep(i) ==
    Gather(i) \/ Withheld(i) \/ Apply(i) \/ ApplyFails(i) \/ OpenPR(i)
        \/ Audit(i) \/ AuditFailed(i) \/ Tell(i)

Next ==
    \/ \E p \in Pods : PodUpdate(p) \/ StatusChange(p)
    \/ \E i \in 1..Slots : HandlerStep(i)
    \/ \E j \in 1..MaxInFlight : Escalate(j)
    \/ Tick \/ Sigterm \/ WaitIdle \/ Exit \/ Crash \/ Start

Spec == Init /\ [][Next]_vars

(* The informer resyncs every pod again and again, handlers and the clock    *)
(* go on.  Nothing else is promised: pods may stay as they are.              *)
Fairness ==
    /\ \A p \in Pods : WF_vars(PodUpdate(p))
    /\ \A i \in 1..Slots : WF_vars(HandlerStep(i))
    /\ WF_vars(Tick)

FairSpec == Spec /\ Fairness

-----------------------------------------------------------------------------
(* Properties. *)

(* No delete-recreate-delete storm: while the process runs, it deletes pods  *)
(* of a workload under one key (a reason, or one failing init container) at  *)
(* most once in a TTL less the time a handler may take between the check of  *)
(* the key and the deletion, however many pods fail and however often they   *)
(* are created again.  Every node's agent has keys of its own.               *)
NoDeleteStorm ==
    [][\A i \in 1..Slots :
          pool[i].step = "gate" /\ pool[i].fix = "delete_pod" /\ pool'[i].reached =>
              gap[pool[i].key] <= HandlerTimeout]_vars

(* Once WaitIdle has seen no handler, no handler that reached the API server *)
(* is without its audit record and its event when the logs are closed, also  *)
(* if informers delivered updates meanwhile.                                 *)
ShutdownKeepsRecords ==
    phase = "closing" /\ ~expired => \A i \in 1..Slots : ~pool[i].reached

(* A failing fix takes a place for an escalation once in a dedup window:     *)
(* two escalations under way for the same workload and action were begun a   *)
(* TTL apart, which happens only if the channels are slower than the TTL.    *)
OnePagePerFix ==
    \A i, j \in 1..MaxInFlight :
        i # j /\ sends[i] # NoSend /\ sends[i].key = sends[j].key =>
            sends[i].age >= sends[j].age + TTL \/ sends[j].age >= sends[i].age + TTL

Problems == {Key(p) : p \in {q \in Pods : Reported(q)}}

(* A lasting problem that is alone gets a new handler again and again,       *)
(* although its updates may have been dropped, with their key, while the     *)
(* pool was full.                                                            *)
LoneProblemHandled ==
    \A p \in Pods :
        <>[](phase = "up" /\ Reported(p) /\ Cardinality(Problems) = 1) =>
            []<>(Reported(p) /\ \E i \in 1..Slots : pool[i].step = "gather" /\ pool[i].key = Key(p))
================================================================================
