--------------------------------- MODULE MCAgent ---------------------------------
(***************************************************************************)
(* Instances for TLC of the parts of a process that share nothing but the   *)
(* process: Init chooses the part that runs, and the others rest.           *)
(***************************************************************************)
EXTENDS Agent, TLC

-----------------------------------------------------------------------------
(* What the checks can see *)

Bool == BOOLEAN
Events == SUBSET [reason : {"FailedAttachVolume", "FailedMount", "Scheduled"}, volume : {"v", "unknown"}]
Pending == [pending : Bool, old : Bool, bound : Bool, deleting : {FALSE},
            scheduled : {"none", "True", "Unschedulable"}, events : Events]
Policy == [types : {{}, {"Ingress"}, {"Egress"}},
           rules : {{}, {{}}, {{[all |-> FALSE, name |-> "web", from |-> 0, to |-> 0]}},
                    {{[all |-> FALSE, name |-> "-", from |-> 70, to |-> 80]}},
                    {{[all |-> TRUE, name |-> "-", from |-> 0, to |-> 0]}}}]
Target == [port : {"p"}, num : {0, 70, 80, 81}, name : {"", "web"}]
Claim == [phase : {"Bound", "Lost", "Pending"}, class : {"unset", "", "fast"}, classes : SUBSET {"fast"},
          defaults : SUBSET {"fast"}, classesRead : Bool]
Node == [ready : {"none", "True", "False", "Unknown"}, runtime : Bool, long : Bool, pid : Bool,
         network : Bool, unschedulable : Bool, mark : Bool, cordonOld : Bool,
         beats : Bool, heartbeat : {-2, -1, 14, 15}]
Event == [recent : Bool, limitRanges : Bool, reason : {"FailedCreate", "FailedUpdate", "Killing"},
          text : {"limitrange", "webhook", "rbac", "other"}]

(* What each check can see of an object.                                     *)
MCObserved == [
  StuckTerminating |-> {checkStuckTerminating(p) : p \in [deleting : Bool, overdue : Bool]},
  CannotStart |-> {checkVolumeFailures(p) \cup checkUnschedulable(p) : p \in Pending},
  Probes |-> {checkProbeFailures(p) : p \in
                [deleting : Bool, crashLooping : Bool, failures : [{"liveness", "readiness"} -> {4, 5}]]
                \cup [deleting : Bool, crashLooping : Bool, failures : [{"startup"} -> {4, 5}]]},
  ReadinessGates |-> {checkReadinessGates(p) : p \in
                [running : Bool, deleting : Bool, old : Bool, gates : SUBSET {"never", "False", "True"}]},
  Preemptions |-> {checkPreemptions(es) : es \in
                SUBSET [uid : {"e1", "e2"}, reason : {"Preempted"}, recent : Bool]},
  FailedPods |-> {CheckDeadlineExceeded(p) \cup CheckEphemeralStorageFull(p) : p \in
                [phase : {"Failed", "Running"}, reason : {"Evicted", "DeadlineExceeded", ""}, ephemeral : Bool]},
  StatefulSets |-> {CheckStatefulSetStuck(s) : s \in
                [ready : 0..2, replicas : {2}, selected : Bool, pods : [1..2 -> {Ready, 1, stuckFor}]]},
  DaemonSets |-> {CheckDaemonSetMissing(d) : d \in
                [ready : 0..2, desired : {2}, current : 1..2, updated : 1..2, observed : Bool,
                 selected : Bool, pods : [1..2 -> {Ready, 1, stuckFor}]]},
  HPAs |-> {checkHPA(h) : h \in
                [limited : {"none", "TooFewReplicas", "TooManyReplicas"}, long : Bool, min : {0, 3}, max : {3},
                 ceiling : {0, 3, 4}, active : {"none", "True", "ScalingDisabled", "FailedGetResourceMetric"}]},
  CronJobs |-> {CheckCronJobMissed(c) : c \in
                [suspended : Bool, events : SUBSET {"MissSchedule", "TooManyMissedTimes", "SawCompletedJob"}]},
  PausedDeployments |-> {CheckDeploymentPaused(d) : d \in [paused : Bool, known : Bool, long : Bool]},
  ReplicaSets |-> {CheckReplicaSetFailure(r) : r \in [replicaFailure : SUBSET {"True", "False"}]},
  FailedJobs |-> {CheckFailedJobs(j) : j \in [failed : Bool, recent : Bool]},
  Services |-> {CheckServiceEndpoints(s) \cup checkLoadBalancerPending(s) : s \in
                [selector : Bool, externalName : Bool, old : Bool, ready : 0..1, loadBalancer : Bool, address : Bool]},
  NetworkPolicies |-> {policyBlocks(s) : s \in
                [selector : Bool, targets : {{t} : t \in Target},
                 backing : {{}, {[policies |-> {}]}} \cup {{[policies |-> {p}]} : p \in Policy}
                           \cup {{[policies |-> {}], [policies |-> {p}]} : p \in Policy}]},
  NetworkNodes |-> {CheckSandboxFailures(n) \cup CheckConntrack(n) : n \in
                [events : SUBSET {"FailedCreatePodSandBox", "NetworkNotReady", "Pulled"}, percent : {89, 90}]},
  NetworkPods |-> {CheckSystemNetworkPods(p) : p \in [watched : Bool, since : {Ready, 1, stuckFor}]},
  Ingresses |-> {checkIngressTLS(i) \cup checkIngressBackends(i) : i \in
                [tlsCertCheck : Bool, inCeiling : Bool, secrets : SUBSET {"", "s"}, have : SUBSET {"s"},
                 backends : {{}} \cup {{b} : b \in [name : {"b"}, exists : Bool, ready : 0..1]}]},
  DNS |-> {CheckCoreDNS(d) \cup checkDNSHealth(d) : d \in
                [servfail : {-1, 4, 5}, p99 : {-1, 499, 500}, watched : Bool, pods : {0, 2}, ready : 0..2]},
  Claims |-> {CheckStorageIssues(c) : c \in Claim},
  PendingClaims |-> {CheckPendingPVCs(c) : c \in
                [phase : {"Pending", "Bound"}, old : Bool, newest : {"none", "WaitForFirstConsumer"}]},
  FullVolumes |-> {checkVolumeFullness(c) : c \in
                [percent : {84, 85, 94, 95}, watched : Bool, exists : Bool, class : {"unset", "fast"},
                 allows : Bool, capacity : 0..1]},
  StuckDeletions |-> {checkNamespaceStuck(n) \cup checkPVCStuck(n) : n \in
                [watched : Bool, deleting : Bool, long : Bool, finalizers : SUBSET {"pvc-protection"}]},
  Budgets |-> {checkPDB(b) : b \in [expected : 0..1, allowed : 0..1, long : Bool]},
  Nodes |-> {CheckNodeHealth(n) \cup CheckNodeExtended(n) : n \in Node},
  ControlPlane |-> {checkEtcd(e) \cup checkDeprecatedAPIs(e) : e \in
                [leader : {-1, 0, 1}, changes : {3, 4}, quota : {79, 80}, requested : Bool, removed : Bool]},
  Throttled |-> {checkCPUThrottling(c) : c \in
                [percent : {24, 25}, watched : Bool, exists : Bool, limit : 0..1,
                 owner : {"none", "Job", "StatefulSet", "DaemonSet", "ReplicaSet-hash", "ReplicaSet"}]},
  Certificates |-> {checkCertExpiry(s) : s \in
                [tlsCertCheck : Bool, inCeiling : Bool, parses : Bool, days : {-1, 0, 29, 30}]},
  Refusals |-> {checkLimitRangeViolations(e) \cup CheckWebhookBlocking(e) \cup CheckRBACDenied(e) : e \in Event},
  Quotas |-> {quotaFindings(q) : q \in [used : [{"cpu"} -> {8, 9, 10}], hard : [{"cpu"} -> {0, 10}]]},
  Anomalies |-> {CheckAnomalies(a) : a \in [watched : Bool, promql : Bool, value : 0..3, threshold : {-1, 0, 2}]},
  Agent |-> {SelfCheck(d) : d \in [configured : SUBSET {"prometheus", "slack"}, unreachable : SUBSET {"slack"}]}]

-----------------------------------------------------------------------------
(* Settings and policies of the autoscaler *)

MCGlobal == [min |-> 1, max |-> 3, step |-> 2, up |-> 1, down |-> 2, threshold |-> 70]
Limits(min, max) == [enabled |-> TRUE, min |-> min, max |-> max, step |-> 1, cooldown |-> 2, override |-> TRUE]
MCLimits == {{}, {Limits(3, 2)}, {Limits(2, 0)}, {Limits(0, 2)}}

(* A workload whose learned baseline is low, and one without a baseline.     *)
Baselines == {{}, {[samples |-> 50, high |-> 10]}}
MCAnswers == [
  quiet |-> [hpa : {"absent"}, cpu : {20}, gates : {{}, {"calm", "error"}}, learned : Baselines],
  busy  |-> [hpa : {"absent"}, cpu : {99}, gates : {{}, {"error", "load"}}, learned : Baselines],
  any   |-> [hpa : {"absent", "present", "error"}, cpu : {-1, 20, 60, 99},
             gates : {{}, {"calm"}, {"load"}, {"error"}}, learned : Baselines]]

-----------------------------------------------------------------------------
(* AutoRemediationPolicies *)

Unset == <<"unset", 0>>
Broken == [spec |-> FALSE, selector |-> {}, restart |-> "unset", bump |-> Unset,
           scale |-> [enabled |-> FALSE, min |-> Unset, max |-> Unset, step |-> Unset, override |-> FALSE],
           cooldown |-> 0, perHour |-> Unset, approval |-> FALSE, rules |-> {}]
NoObject == [Broken EXCEPT !.cooldown = -1]
Manual == [Broken EXCEPT !.spec = TRUE, !.selector = {"web"}, !.approval = TRUE]
Tuned == [Broken EXCEPT !.spec = TRUE, !.restart = "false", !.bump = <<"int64", 20>>, !.perHour = <<"float64", 3>>,
            !.scale = [enabled |-> TRUE, min |-> <<"float64", 3>>, max |-> <<"float64", 7>>,
                       step |-> <<"int64", 6>>, override |-> FALSE],
            !.rules = {[promql |-> "q", threshold |-> <<"int64", 2>>]}]

MCNs == [a1 |-> "a", a2 |-> "a", b1 |-> "b"]
MCTooBig == -Half
MCWritten == [a1 |-> {Manual}, a2 |-> {Broken, Tuned}, b1 |-> {Manual}]

-----------------------------------------------------------------------------
VARIABLE part     \* the part that runs

all == <<part, vars, nvars, pvars, wvars, fvars, evars, cvars, svars>>

(* A part that rests is in one of its initial states.                        *)
DRests ==
    /\ check = "Agent" /\ sights = {{}, {Warning("SelfCheckFailed")}}
    /\ key = <<"SelfCheckFailed", "object">> /\ obs = {}
    /\ lead = TRUE /\ ran = FALSE /\ own = 0 /\ reported = 0 /\ told = {} /\ quiet = Heard
NRests == N!Init /\ target[1] = "dns"
PRests == P!Init
WRests == PP!Init /\ volumeFails /\ elsewhere
FRests == F!Init
ERests == E!Init /\ cleans
CRests == C!Init /\ \A n \in DOMAIN objects : objects[n] = NoObject
SRests == S!Init /\ cp = {} /\ replicas = 1

AgentInit ==
    \/ part = "detectors" /\ Init /\ NRests /\ PRests /\ WRests /\ FRests /\ ERests /\ CRests /\ SRests
    \/ part = "probes" /\ N!Init /\ DRests /\ PRests /\ WRests /\ FRests /\ ERests /\ CRests /\ SRests
    \/ part = "pressure" /\ P!Init /\ DRests /\ NRests /\ WRests /\ FRests /\ ERests /\ CRests /\ SRests
    \/ part = "waiting" /\ PP!Init /\ DRests /\ NRests /\ PRests /\ FRests /\ ERests /\ CRests /\ SRests
    \/ part = "fixes" /\ F!Init /\ DRests /\ NRests /\ PRests /\ WRests /\ ERests /\ CRests /\ SRests
    \/ part = "evicted" /\ E!Init /\ DRests /\ NRests /\ PRests /\ WRests /\ FRests /\ CRests /\ SRests
    \/ part = "policies" /\ C!Init /\ DRests /\ NRests /\ PRests /\ WRests /\ FRests /\ ERests /\ SRests
    \/ part = "scaler" /\ S!Init /\ DRests /\ NRests /\ PRests /\ WRests /\ FRests /\ ERests /\ CRests

AgentNext ==
    /\ UNCHANGED part
    /\ \/ part = "detectors" /\ Next /\ UNCHANGED <<nvars, pvars, wvars, fvars, evars, cvars, svars>>
       \/ part = "probes" /\ N!Next /\ UNCHANGED <<vars, pvars, wvars, fvars, evars, cvars, svars>>
       \/ part = "pressure" /\ P!Next /\ UNCHANGED <<vars, nvars, wvars, fvars, evars, cvars, svars>>
       \/ part = "waiting" /\ PP!Next /\ UNCHANGED <<vars, nvars, pvars, fvars, evars, cvars, svars>>
       \/ part = "fixes" /\ F!Next /\ UNCHANGED <<vars, nvars, pvars, wvars, evars, cvars, svars>>
       \/ part = "evicted" /\ E!Next /\ UNCHANGED <<vars, nvars, pvars, wvars, fvars, cvars, svars>>
       \/ part = "policies" /\ C!Next /\ UNCHANGED <<vars, nvars, pvars, wvars, fvars, evars, svars>>
       \/ part = "scaler" /\ S!Next /\ UNCHANGED <<vars, nvars, pvars, wvars, fvars, evars, cvars>>

(* Passes follow each other and time goes on.                                *)
(* The gate applies a scaling that is asked for again and again.             *)
ScalerGoesOn ==
    /\ WF_svars(part = "scaler" /\ S!Tick)
    /\ \A l \in Leaders :
          /\ WF_svars(part = "scaler" /\ S!List(l))
          /\ WF_svars(part = "scaler" /\ (S!ScaleUp(l) \/ S!ScaleDown(l) \/ S!LeavesIt(l)))
          /\ SF_svars(part = "scaler" /\ S!ScaleUp(l)) /\ SF_svars(part = "scaler" /\ S!ScaleDown(l))

(* The loops of a leader go on, and so does its pass over the fixes.         *)
FixesGoOn ==
    /\ WF_fvars(part = "fixes" /\ F!Tick)
    /\ WF_fvars(part = "fixes" /\ (F!VerifyFixes \/ F!VerifyNext \/ F!VerifyEnd))

AgentSpec == AgentInit /\ [][AgentNext]_all /\ ScalerGoesOn /\ FixesGoOn
==================================================================================
