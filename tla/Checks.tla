--------------------------------- MODULE Checks ---------------------------------
(***************************************************************************)
(* What the periodic checks of the leader find.  An operator translates one *)
(* check for one object, from what the check reads of it; "old", "long" and *)
(* the like stand for the comparison with the check's own time constant.    *)
(* Lists of events, pods or rules are sets of what their elements say.      *)
(* A pass whose list fails is PassFails in Detectors.                       *)
(***************************************************************************)
EXTENDS Integers, FiniteSets

(* A finding.  Its subject separates findings with one reason; one that      *)
(* belongs to the workload of a pod shares its key with the other pods'.     *)
(* window is the check's own window ("none" without one), consumed before    *)
(* that of report; proposal is the change offered for approval.              *)
Finding(reason, severity) ==
    [reason |-> reason, severity |-> severity, subject |-> "object",
     window |-> "none", proposal |-> "none"]
Info(reason) == Finding(reason, "info")
Warning(reason) == Finding(reason, "warning")
Critical(reason) == Finding(reason, "critical")
Offering(f, action) == [f EXCEPT !.proposal = action]
About(f, subject) == [f EXCEPT !.subject = subject]
Once(f, window) == [f EXCEPT !.window = window]
Only(condition, f) == IF condition THEN {f} ELSE {}

-----------------------------------------------------------------------------
(* Pods: podstate.go, pod_extended.go *)

checkStuckTerminating(p) == Only(p.deleting /\ p.overdue, Warning("PodStuckTerminating"))

(* The age is that of the condition, or of the pod when that has none.       *)
checkUnschedulable(p) ==
    Only(~p.bound /\ p.pending /\ ~p.deleting /\ p.scheduled = "Unschedulable" /\ p.old,
         Warning("Unschedulable"))

(* One failure per reason and volume; a message may name no volume.          *)
volumeFailures(events) ==
    {<<"VolumeAttachFailed", e.volume>> : e \in {x \in events : x.reason = "FailedAttachVolume"}}
    \cup {<<"VolumeMountFailed", e.volume>> : e \in {x \in events : x.reason = "FailedMount"}}

checkVolumeFailures(p) ==
    IF p.bound /\ p.pending /\ p.old
    THEN {About(Critical(f[1]), f[2]) : f \in volumeFailures(p.events)} ELSE {}

(* failures[k]: the recent Unhealthy events of the probe k, counted.         *)
probeFailureMin == 5
probeReason == [liveness |-> "LivenessProbeFailing", readiness |-> "ReadinessProbeFailing",
                startup |-> "StartupProbeFailing"]
checkProbeFailures(p) ==
    IF p.deleting \/ p.crashLooping THEN {}
    ELSE {Warning(probeReason[k]) : k \in {j \in DOMAIN p.failures : p.failures[j] >= probeFailureMin}}

(* gates: the states of the conditions that its readiness gates name.        *)
checkReadinessGates(p) ==
    Only(p.running /\ ~p.deleting /\ p.old /\ p.gates \ {"True"} # {}, Warning("ReadinessGateUnmet"))

(* One finding for each event that names a victim.                           *)
checkPreemptions(events) ==
    {About(Info("Preempted"), e.uid) : e \in {x \in events : x.reason = "Preempted" /\ x.recent}}

(* A Failed pod does not change: it is told once a day by its UID.           *)
CheckDeadlineExceeded(p) ==
    Only(p.phase = "Failed" /\ p.reason = "DeadlineExceeded", Once(Warning("DeadlineExceeded"), "day"))
CheckEphemeralStorageFull(p) ==
    Only(p.phase = "Failed" /\ p.reason = "Evicted" /\ p.ephemeral,
         About(Once(Warning("EphemeralStorageFull"), "day"), "workload"))

-----------------------------------------------------------------------------
(* Workloads: workload_extended.go, jobs.go *)

(* A pod is how long it has not been ready, in minutes, or Ready.            *)
Ready == -1
notReadyFor(p, n) == p # Ready /\ p >= n
stuckFor == 5

(* pods[i] is the pod with ordinal i: only the lowest that is not ready      *)
(* counts.                                                                   *)
lowestNotReady(pods) ==
    {i \in DOMAIN pods : pods[i] # Ready /\ \A j \in DOMAIN pods : pods[j] # Ready => i <= j}
CheckStatefulSetStuck(s) ==
    Only(s.ready < s.replicas /\ s.selected /\ \E i \in lowestNotReady(s.pods) : notReadyFor(s.pods[i], stuckFor),
         Warning("StatefulSetStuck"))

CheckDaemonSetMissing(d) ==
    LET stuck == \E i \in DOMAIN d.pods : notReadyFor(d.pods[i], stuckFor)
        rolled == d.observed /\ d.updated >= d.desired
        f == Warning("DaemonSetMissing")
    IN  Only(d.ready < d.desired /\ d.selected /\ (stuck \/ (rolled /\ d.current < d.desired)),
             IF stuck THEN Offering(f, "delete_stuck_pods") ELSE f)

(* Half again the maximum, never above the ceiling of the policy (0: none).  *)
proposeMaxReplicas(max, ceiling) ==
    LET p == max + (max + 1) \div 2 IN IF ceiling > 0 /\ p > ceiling THEN ceiling ELSE p
checkHPA(h) ==
    LET f == Warning("HPAMaxedOut")
    IN  Only(h.limited = "TooManyReplicas" /\ h.long /\ ~(h.min >= h.max),
             IF proposeMaxReplicas(h.max, h.ceiling) > h.max THEN Offering(f, "raise_hpa_max") ELSE f)
        \cup Only(h.active \notin {"none", "True", "ScalingDisabled"}, Warning("HPAScalingFailed"))

(* One finding however many of its events are recent.                        *)
CheckCronJobMissed(c) ==
    Only(~c.suspended /\ c.events \cap {"MissSchedule", "TooManyMissedTimes"} # {},
         Offering(Warning("CronJobMissed"), "run_cronjob_now"))

(* The controller must have seen the pause; told of once a day.              *)
CheckDeploymentPaused(d) ==
    Only(d.paused /\ d.known /\ d.long, Offering(Once(Info("DeploymentPaused"), "day"), "resume_deployment"))

CheckReplicaSetFailure(r) == Only("True" \in r.replicaFailure, Critical("ReplicaSetFailure"))

(* Told of once by its UID, for as long as the failure is news (a day); its  *)
(* message does not go through report.                                       *)
CheckFailedJobs(j) == Only(j.failed /\ j.recent, Once(Warning("JobFailed"), "day"))

-----------------------------------------------------------------------------
(* Services and networks: workloads.go, netchecks.go, storage_network.go *)

CheckServiceEndpoints(s) ==
    Only(s.selector /\ ~s.externalName /\ s.old /\ s.ready = 0, Critical("NoEndpoints"))

CheckSandboxFailures(n) ==
    Only(n.events \cap {"FailedCreatePodSandBox", "NetworkNotReady"} # {}, Critical("PodSandboxFailed"))

CheckSystemNetworkPods(p) ==
    Only(p.watched /\ notReadyFor(p.since, stuckFor), Critical("NetworkPodDown"))

(* A policy without types restricts ingress.                                 *)
ingressPolicies(p) == {pol \in p.policies : pol.types = {} \/ "Ingress" \in pol.types}

(* The port of a rule: every port, a container port's name, or a range.      *)
Admits(rp, target) ==
    \/ rp.all
    \/ rp.name = target.name /\ target.name # ""
    \/ target.num # 0 /\ rp.from # 0 /\ rp.from <= target.num /\ target.num <= rp.to
portAllowed(target, pols) ==
    \E pol \in pols : \E rule \in pol.rules : rule = {} \/ \E rp \in rule : Admits(rp, target)

(* Every pod behind the Service is selected, and no rule lets the port in.   *)
policyBlocks(s) ==
    IF ~s.selector \/ s.backing = {} THEN {}
    ELSE {About(Critical("NetworkPolicyBlocksService"), t.port) :
            t \in {x \in s.targets : \A p \in s.backing :
                      ingressPolicies(p) # {} /\ ~portAllowed(x, ingressPolicies(p))}}

(* Secrets are read with TLS_CERT_CHECK and inside the ceiling only.         *)
checkIngressTLS(i) ==
    IF i.tlsCertCheck /\ i.inCeiling
    THEN {About(Critical("IngressTLSSecretMissing"), s) : s \in i.secrets \ (i.have \cup {""})} ELSE {}

CheckConntrack(n) == Only(n.percent >= 90, Warning("ConntrackNearFull"))

(* Two queries; a negative value is one that gave nothing.                   *)
CheckCoreDNS(d) ==
    Only(d.servfail >= 5, Critical("CoreDNSErrors")) \cup Only(d.p99 >= 500, Warning("CoreDNSSlow"))

(* The second selector is tried when the first gives no pod.                 *)
checkDNSHealth(d) ==
    IF ~d.watched \/ d.pods = 0 \/ d.ready = d.pods THEN {}
    ELSE IF d.ready = 0 THEN {Critical("DNSDown")} ELSE {Warning("DNSDegraded")}

checkLoadBalancerPending(s) ==
    Only(s.loadBalancer /\ ~s.address /\ s.old, Warning("LoadBalancerPending"))

(* backends: the Services that it routes to, the default backend included.   *)
checkIngressBackends(i) ==
    {About(Critical("IngressBackendMissing"), b.name) : b \in {x \in i.backends : ~x.exists}}
    \cup {About(Critical("IngressNoBackends"), b.name) : b \in {x \in i.backends : x.exists /\ x.ready = 0}}

-----------------------------------------------------------------------------
(* Storage: storage_network.go, pvc.go, promchecks.go, lifecycle.go *)

(* class: the name in the claim, "unset" without one.                        *)
classProblem(c) ==
    IF c.class # "unset" THEN Only(c.class # "" /\ c.class \notin c.classes, Critical("StorageClassNotFound"))
    ELSE Only(c.defaults = {}, Critical("NoDefaultStorageClass"))
CheckStorageIssues(c) ==
    IF c.phase = "Lost" THEN {Critical("PVCLost")}
    ELSE IF c.phase = "Pending" /\ c.classesRead THEN classProblem(c) ELSE {}

CheckPendingPVCs(c) ==
    Only(c.phase = "Pending" /\ c.old /\ c.newest # "WaitForFirstConsumer", Warning("PVCPending"))

(* An unreadable class counts as one that does not expand.                   *)
volumeExpandable(c) == c.class \notin {"unset", ""} /\ c.allows
checkVolumeFullness(c) ==
    LET f == Finding("VolumeAlmostFull", IF c.percent >= 95 THEN "critical" ELSE "warning")
    IN  Only(c.percent >= 85 /\ c.watched /\ c.exists,
             IF volumeExpandable(c) /\ c.capacity > 0 THEN Offering(f, "expand_pvc") ELSE f)

checkNamespaceStuck(n) == Only(n.watched /\ n.deleting /\ n.long, Warning("NamespaceStuckTerminating"))
checkPVCStuck(c) == Only(c.deleting /\ c.finalizers # {} /\ c.long, Warning("PVCStuckTerminating"))

(* The age is that of the condition, or of the budget when it has none.      *)
checkPDB(b) == Only(b.expected > 0 /\ b.allowed = 0 /\ b.long, Warning("PDBBlocksDisruption"))

-----------------------------------------------------------------------------
(* Nodes and the control plane: nodecheck.go, node_extended.go, promchecks.go *)

(* ready: the status of the Ready condition, "none" without one.             *)
runtimeDown(n) == n.ready # "True" /\ n.runtime
CheckNodeHealth(n) ==
    Only(n.ready # "none" /\ n.ready # "True" /\ ~runtimeDown(n) /\ n.long, Critical("NodeNotReady"))

forgottenCordon(n) ==
    Only(n.unschedulable /\ ~n.mark /\ n.ready = "True" /\ n.cordonOld,
         Once(Info("CordonedForgotten"), "day"))

skewAhead == 2
skewBehind == 15
(* heartbeat: its age in minutes, negative when it is from the future.       *)
clockSkew(n) ==
    Only(n.ready = "True" /\ n.beats /\ (n.heartbeat <= 0 - skewAhead \/ n.heartbeat >= skewBehind),
         Warning("ClockSkew"))

CheckNodeExtended(n) ==
    Only(n.pid, Critical("PIDPressure"))
    \cup Only(n.network, Critical("NetworkUnavailable"))
    \cup Only(n.ready # "none" /\ runtimeDown(n) /\ n.long, Critical("ContainerRuntimeDown"))
    \cup forgottenCordon(n) \cup clockSkew(n)

checkEtcd(e) ==
    Only(e.leader = 0, Critical("EtcdNoLeader"))
    \cup Only(e.changes > 3, Warning("EtcdLeaderChurn"))
    \cup Only(e.quota >= 80, Warning("EtcdDBNearQuota"))

checkDeprecatedAPIs(a) ==
    Only(a.requested, Finding("DeprecatedAPIInUse", IF a.removed THEN "warning" ELSE "info"))

(* templateOwner: the controller is a StatefulSet or a DaemonSet, or a       *)
(* ReplicaSet with the pod's template hash in its name.                      *)
templateOwner(p) == p.owner \in {"StatefulSet", "DaemonSet", "ReplicaSet-hash"}
checkCPUThrottling(c) ==
    LET f == Warning("CPUThrottled")
    IN  Only(c.percent >= 25 /\ c.watched /\ c.exists /\ c.limit > 0,
             IF templateOwner(c) THEN Offering(f, "raise_cpu_limit") ELSE f)

-----------------------------------------------------------------------------
(* Security, quotas, anomalies, the agent itself *)

(* Once a day for each reason; data that does not parse is no finding.       *)
certFinding(s) ==
    IF ~s.parses THEN {}
    ELSE IF s.days < 0 THEN {Critical("CertExpired")}
    ELSE IF s.days < 30 THEN {Warning("CertExpiringSoon")} ELSE {}
checkCertExpiry(s) ==
    IF s.tlsCertCheck /\ s.inCeiling THEN {Once(f, "day") : f \in certFinding(s)} ELSE {}

(* text: which of the three refusals the message reads like.                 *)
checkLimitRangeViolations(e) ==
    Only(e.recent /\ e.limitRanges /\ e.reason = "FailedCreate" /\ e.text = "limitrange",
         Warning("LimitRangeViolation"))
CheckWebhookBlocking(e) ==
    Only(e.recent /\ e.reason \in {"FailedCreate", "FailedUpdate"} /\ e.text = "webhook", Warning("WebhookBlocking"))
CheckRBACDenied(e) == Only(e.recent /\ e.text = "rbac", Warning("RBACDenied"))

(* The key of the hour does not depend on the severity.                      *)
quotaFindings(q) ==
    {Once(About(Finding("QuotaExhaustion", IF q.used[r] >= q.hard[r] THEN "critical" ELSE "warning"), r), "hour") :
        r \in {x \in DOMAIN q.used : q.hard[x] > 0 /\ 10 * q.used[x] >= 9 * q.hard[x]}}

(* A threshold that is not positive is 1.                                    *)
CheckAnomalies(a) ==
    Only(a.watched /\ a.promql /\ a.value > (IF a.threshold <= 0 THEN 1 ELSE a.threshold), Warning("Anomaly"))

SelfCheck(d) == Only(\E e \in d.configured : e \in d.unreachable, Warning("SelfCheckFailed"))
=================================================================================
