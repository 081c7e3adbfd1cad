# TLA+ models of auto-agent-k8s

auto-agent-k8s watches a Kubernetes cluster, finds broken workloads and, within
limits, repairs them. It runs as two or more *controllers* (one leads, by a
lease) and one *node agent* per node. This directory holds TLA+ models of the
parts in which several goroutines, processes or failures meet, the TLC
configurations that check them on small instances, and proofs that TLAPS checks
for every instance.

`PROJECT.json` lists the components, the runs, the source lines behind every
definition (`map`), the hazards of the code and the theorems.

## 1. Inventory

| Component | State it keeps | Operations | Hard behaviour | What makes it correct |
|---|---|---|---|---|
| Approval queue (`internal/kube/approvals.go`, `approval_store.go`) | the queue in one ConfigMap; a copy and a mutex in each controller | propose, ApproveFix, RejectFix, recordResult, ListApprovals, expiry, pruning | several controllers on one object, conflicts and retries, lost answers, late writes, crashes | a change is decided once and carried out at most once, only after approval; nothing pending is lost |
| Mutation gate (`gate.go`, `policycheck.go`, `dryrun.go`, `auditlog.go`, `internal/ratelimit`) | rate limiters, circuit breaker, blast radius, policy budgets, audit log | applyMutation, SimulateAction, gate preview | many callers, each guardrail has its own mutex, windows of time | every limit holds in every window; dry-run answers as the guardrails would, with exceptions that can be named |
| Policy snapshot and fix scope (`internal/policy`, `httpapi/scope.go`, `kube/scope_settings.go`) | one immutable snapshot behind an atomic pointer; two ConfigMaps | Load, Start, reload, setScope, SaveFixScope | informer handlers race Start and saves; restarts | a stored choice is never bypassed; no invalid snapshot; changes arrive |
| Config reload (`internal/kube/reload.go`) | debounced changes, waves, versions that stalled | queueChange, tick, advance, verifyReload | leader change during the debounce, rollouts that stall, data that changes under a wave | no change is lost; a version that stalled is not applied again; waves end |
| Leader election and proxy (`internal/leader`, `run.go`, `httpapi/proxy.go`) | the lease; `leader` flag and `current` identity | elector callbacks, leaderLoops, leader target | outages, lease handover, crashes | at most one leader; a successor takes over; requests reach the leader |
| Event log (`internal/events`) | recorder ring and file, forwarder queue, replica copy | Record, Flush, Ingest, Backfill, Tee | lost answers, full queues, start of a standby, ids after a restart | no event is lost or doubled beyond what is counted; ids grow as long as the file can be read |
| Watchers, deduplication, handler pool (`kube/watcher.go`, `handlers*.go`, `ratelimit.go`) | deduplicator keys, slots, in-flight count | pod updates, runHandler, the handlers, WaitIdle | full pool after the key was consumed, timeouts, shutdown | no delete storm in one process; what was done is on record; a lasting problem is handled |
| Escalation (`internal/escalation`) | sends in flight | Send, Escalate, Wait | limit of concurrent sends | a failing fix does not fill all places |
| Node pressure (`kube/nodes.go`) | cordon and mark on the node; a copy in each handler | handleNodePressure | decisions on an old copy, dropped updates, operators | what the agent cordoned is uncordoned when the end of the pressure is seen |
| Fix tracking (`kube/fixtracker.go`) | pending, fixed and failed fixes | RecordAction, VerifyFixes | records added during a pass, unreadable samples | every action gets one verdict; "fixed" means it stayed healthy |
| Autoscaler (`kube/scaler.go`, `learning.go`) | annotations on the Deployment, learned thresholds | EvaluateAndScale, scaleDeployment | stale replica counts, two leaders, contradictory limits | cooldowns hold; replicas follow the load |
| AutoRemediationPolicy store (`internal/crd`) | policies by namespace | parse, syncAll, Match | gate reads while the store is replaced | the policy that applies is the stored one |
| Detectors (`internal/kube/*.go`) | deduplicator keys | some thirty checks, report, the check groups of the leader | windows within windows, severity that grows, detectors that leave an object to each other, order of checks in a group | a condition that lasts is told again and again, also when two processes leave it to each other |
| Network probes (`kube/netprobe.go`) | failures in a row, offset into the services | probeOnce | rotation over a list that changes, report at the second failure | every service has its turn; an outage is told |
| Admission webhook (`internal/webhook`) | none | one decision per request | - | decision table |
| Dashboard, terminal, cost views; integrations; configuration, metrics, tracing | none that others depend on | formatting and I/O | - | - |

How they interact: watchers, checks, the reloader, the autoscaler and approved
fixes all change the cluster through `applyMutation` (Gate). The gate reads the
snapshot (PolicyReload) and, for R3 changes, its caller proposes an approval
(Approvals). The check loops and the reloader ask `IsLeader` (Leadership). Node
agents forward events to the controllers, and controllers that do not lead proxy
requests to the one that does. Watchers and detectors share one deduplicator and
report through `report`; the gate looks up the policy store; VerifyFixes judges
what the handlers did.

## 2. Modules

| Module | Models | Uses |
|---|---|---|
| `Approvals` | the durable queue and all controllers working on it | - |
| `ApprovalQueue` | what the queue promises (abstract specification) | instantiated by `Approvals` |
| `ApprovalsProofs` | theorems about `Approvals`: what is carried out, what is stored, and the refinement | `Approvals`, TLAPS |
| `Gate` | applyMutation with all guardrails | - |
| `SlidingWindow` | what a rate limit promises (abstract specification) | instantiated twice by `Gate`: limiters, breaker |
| `PolicyReload` | the snapshot of every agent, the informer, dashboard saves | - |
| `Reloader` | debounce, waves and verification in every controller | - |
| `Leadership` | elector, leader loops and proxy target | - |
| `LeaderOffice` | what leader election promises to a controller (abstract specification) | instantiated by `Leadership` |
| `EventLogProofs`, `LeadershipProofs`, `GateProofs`, `PolicyReloadProofs`, `ReloaderProofs`, `WatchProofs` | theorems about the module they are named after | that module, TLAPS |
| `AgentProofs` | theorems about the parts in `Agent` | `Agent`, TLAPS |
| `EventLog` | recorders, forwarders, ingest, copies, backfill of all processes | - |
| `Watch` | pod watcher, deduplicator, handler pool, escalation, shutdown of a node agent | - |
| `NodePressure` | cordon, eviction and uncordon of a node | instantiated by `Agent` |
| `FixTracker` | recorded actions and the verification pass | instantiated by `Agent` |
| `NetProbe` | the probes of a node | instantiated by `Agent` |
| `EvictedPods` | cleanup and report of evicted pods in one check group | instantiated by `Agent` |
| `PendingPod` | a pod that stays Pending, between the agent on its node and the leader | instantiated by `Agent` |
| `PolicyStore` | parse, syncAll and lookups of AutoRemediationPolicies | instantiated by `Agent` |
| `ScaleRules` | the decisions of the autoscaler, as operators | - |
| `Scaler` | its passes, with stale lists and two processes | `ScaleRules`; instantiated by `Agent` |
| `Checks` | every detector, as an operator from what it sees to its findings | - |
| `Detectors` | passes that report findings through the deduplicator | `Checks` |
| `Agent` | the parts that share no state, with what is assumed of their parameters and their properties | `Detectors` and the seven above |
| `MCAgent` | the instance of `Agent` for TLC, one part at a time | `Agent` |
| other `MC...` | constants of the instances for TLC | the module they are named after |

Operators whose names say how they differ from the one that follows them
(`StillTrippedShort` before `StillTripped`, `BlastAllowsOneMore` before `BlastAllows`)
are deliberate errors. No specification uses them; putting one in the place of
its neighbour must make the property named in `PROJECT.json` fail, which shows
that the property depends on that piece of code.

### Approvals

`store` and `version` are the ConfigMap and its resourceVersion; `mem[c]` and
`mu[c]` are the items and the mutex of the `Approvals` value of controller `c`.
A request goroutine (a *worker*) is at one step `pc`: it waits for the mutex
(`Acquire`), reads the queue and runs the step of its operation in memory
(`ProposeStep`, `ApproveStep`, `RejectStep`, `RecordStep`, or `LoadFails`), and
writes the queue back (`SaveOk`, `SaveConflict`, `SaveFails`). A conflict goes
back to `Load`, at most `MaxTries` times. `ApproveFix` then calls the gate
without the mutex (`Apply`) and records the result as another request. A write
whose sender gave up or died stays in `late` and may reach the API server at any
later time (`LateWrite`). `Crash` loses memory, mutex and workers of one
controller. `propose` keeps the instant it read before it waited for the mutex,
as the code does. A *change* is a class of `sameChange`; `Rebuilds[c]` are the
changes that the version running as `c` can rebuild.

History variables: `stored[id]` (states in which id was ever stored),
`applied[id]` (calls of `m.Apply`), `used` (ids ever drawn).

### Gate

One caller is at one step `pc` for each guardrail in the order of
`checkGuardrails`: every guardrail is one atomic step under its own mutex, and
other callers, the clock, a policy reload and dry-run questions happen in
between. Times are small integers; `LimitWindow` stands for ten minutes and
`Hour` for the hour of the breaker, blast radius and policy budgets. Events of
one instant are told apart by a number, so that sets of records stand for the
slices of times. `Limiters` and `Breaker` are `SlidingWindow` with the history
of what was let pass as its log: a window there forgets nothing, while the code
prunes, and the breaker also resets after a trip. `DryRunBlocks` is
`SimulateAction` and `GuardrailsBlock` what `checkGuardrails` would answer at the
same instant; `SimulateAction` gets no mutation, only a namespace, a workload and
an action, so it cannot know housekeeping from a fix. The rate limiter is not
among its questions.

### PolicyReload

The informer is modelled by its cache, the queue of notifications and resyncs;
the handlers (`Deliver`) and `Start` (`CheckScope`, `ClearScope`) swap the
snapshot `pol[a]`. `ApplyConfigMapData`, `Validate` and `FixScope` are
translated as operators: missing keys keep their value, an invalid result drops
the whole reload. Numbers are those that `int32` makes of the strings. A
dashboard save is a check against the snapshot, a patch and, when the ConfigMap
is missing, a create.

### Reloader

Each controller has its informer copy, its debounced changes, its waves and the
versions that stalled. A tick takes up what is due (or drops it, when the
controller does not lead) and then advances each wave: verify the workload in
progress, otherwise restart the next one. `rollout` is what Kubernetes makes of a
restarted workload: it becomes healthy, gets stuck, or rolls for ever. The
timeout of a verification may pass at any time; for a Deployment that can be read
it is not asked (`reload.go:439`), so one that is paused keeps its wave for ever.
`served[o]` is the data that a leader last took up and whether the lists of that
tick showed all workloads that use the object: a kind whose list fails is left
out of the wave, and when all lists fail there is none. Which workloads use an
object is the constant `Reloads`.

### Leadership

The lease and the elector of client-go are external and reduced to the order of
their events: acquire, OnStartedLeading and OnNewLeader in goroutines of their
own, give up, release, OnStoppedLeading. The loops ask `IsLeader` once for each
group of checks. `Office` maps this to `LeaderOffice`, which knows neither lease
nor elector: who is in office, who was told so, who has left, who runs checks.

### EventLog

Every process has a queue for its forwarder (`buf`), a batch under way
(`flush`), and a controller also a ring, a file and the next id. A batch is sent
to one target after the other; an answer may be lost, which leaves the whole
batch queued. `LoadFromFile`, `Backfill` and `Serve` are the three steps of a
start, in the order of `startEvents`. History: what was counted as dropped,
what each peer is still owed, and whether one of the known reasons for a
repetition has happened: an answer was lost; a request failed between more than
two controllers, so that one of them has the batch and is sent it again; or the
leader changed, or a backfill ran, while a controller still had events to copy.
A read of the file that stops early counts as one, too: its backfill copies what
the rest of the file holds. A write that fails is the last one of its process
(`broken`): the `json.Encoder` keeps its first error. `LoadFromFile` may find any
prefix of the lines, because the file cannot be opened or the scan ends at an
error, and goes on after the greatest id it read; the file is opened for append
all the same, so ids may then decrease from line to line. `misread` remembers it.
The ids of events whose lines were not written or not read are given out again.
Left out: a line that a crash cut in two, which spoils the first line of the
next process as well.
A backfill counts for any controller that has some, not only for the peer that
is asked: with three controllers, the log that is copied may hold what the
leader is about to send.

### Watch

`Finding` is `handlePodUpdate`: init containers, then each container in the
order of its checks, then a pod that stays pending; the first finding ends the
update. The key is the workload and the reason, and for an init container also
its name; `FailedKey` adds the action to it. The deduplicator belongs to one
process, so all of this is about one node agent: a pod that is created again on
another node meets that node's agent, whose keys are its own (`run.go:289`). A
handler is at one step: gather, gate, audit (or audit of a failure with
escalation), tell. Its context ends with its timeout or with the shutdown, and
the answer of a call that did reach the API server may be lost. `Sigterm`,
`WaitIdle` and `Exit` are the steps of `shutdown`; informers may still deliver
in between. What the gate decides is a choice here (see Gate).

### The parts in Agent

Eight parts of a process that share no state with each other are checked in one
run: `part` is chosen by the initial state and never changes, so that the state
space is the sum of theirs, not the product.

- `Checks` and `Detectors`: an object is what a detector reads of it. `Checks`
  has one operator for each detector, from such an object to the set of its
  findings (reason, key, severity, own window). `Detectors` lets one object
  change, passes run and fail, time pass, the lease move and processes restart.
- `PendingPod`: the agent on the node consumes the key of the workload and then
  reads the events of the pod; the leader lists pods and events and reports
  volumes that fail. `elsewhere` stands for all the findings and annotations with
  which `handlePodUpdate` returns before it comes to Pending. A failing read of
  the handler gives no events, so it tells; a failing list of the leader hides
  the volume. Ticks are longer than a handler.
- `NetProbe`: one target is followed through the rounds (a DNS name, an egress
  address or one of the services), the others only matter to the rotation.
- `NodePressure`: `versions` holds the node as the informer delivered it last and
  every version since; each is delivered in turn with its own copy, unless the
  watch breaks and a list skips some. Handlers decide on the copy they were
  started with; updates are dropped when the pool is full. `missed` says that no
  delivery is left that could undo a cordon: the update was dropped or skipped,
  the process restarted, the uncordon was refused, or the cordon was applied
  after the pressure had ended. That last one is the code's own race: the version
  that ends the pressure has no cordon yet, the one with the cordon changes no
  pressure, so no handler runs for it.
- `FixTracker`: a pass works on a copy of the pending records, which handlers
  extend meanwhile. `Controls` says whether the process has the controller role:
  without it `startWork` starts no leader loops, and no pass ever runs.
- `PolicyStore`: objects, the informer's copy, and the synchronisation one
  namespace at a time; numbers keep the Go type that JSON decoding gives them,
  because `parse` treats int64 and float64 differently, and `int32` wraps the
  limits of scaling at `Half`, which stands for 2^31; what it makes of a float64
  outside is left to the build by the Go language (`TooBig`).
- `EvictedPods`: the two checks of one group that look at evicted pods; both end
  when their list fails.
- `ScaleRules` and `Scaler`: a pass lists the Deployments, decides on that copy
  and writes later; two processes may be in a pass at the same time.

## 3. Runs

Runs that pass:

| Run | Instance | Shows |
|---|---|---|
| `Approvals_queue` | 2 controllers with one worker each, 2 approvals, 2 changes of which one controller can rebuild only one, queue of 1, 2 attempts, one expiry, 1 late write | `AtMostOnce`, `OneDecision`, `ResultTrue`, `PendingKept`, and `ImplementsQueue`: the whole refines `ApprovalQueue` |
| `Approvals_requests` | the same controllers, 2 approvals of 1 change, queue of 2, dashboard listing, no expiry | `OnePending`, and `RequestReturns` under fairness |
| `Gate_guardrails` | 2 callers, three modes, quiet at instant 0, a policy that allows one action per hour and no restarts; `plan` is either fixes and a restart in three namespaces (one out of scope) and on a node, instants 0..2, or fixes and housekeeping of one workload, instants 0..3 | `BlastTwoWindows`, `BudgetOvershoot`, `DryRunForesees`, `FixesHaveOwnBudget`, and `ImplementsWindows`: limiters and breaker refine `SlidingWindow`, which implies `SlidingLimits` (section 4) |
| `PolicyReload_follow` | 1 agent, 2 starts, 3 edits, five kinds of settings, three choices | `NowhereUntilRead`, `StoredChoiceHolds`, and `StoredFollowed` under fairness |
| `Reloader_leaders` | 2 controllers, 1 handover, a Deployment and a StatefulSet, 3 edits between two values, 1 stall, 1 failing list; a handover and a failing list take the place of two of the edits | `NothingLostByLeader`, `NeverReapplied`, and `WavesEnd` under fairness |
| `EventLog_copies` | 1 node agent, 2 controllers, 3 events of which one is of an unwatched namespace, queues of 2, rings of 3, 1 election, 1 crash or request that fails, and 1 controller whose file is not written or not read to its end | `EventsArrive`, `LogInOrder` |
| `Leadership_election` | 2 controllers, 3 outages, 2 crashes | `OneLeader`, `ImplementsOffice`: all of it refines `LeaderOffice`, which implies `ChecksOverlap` (section 4); and `SuccessorLeads`, `StandbysForward` under fairness |
| `Watch_handlers` | 2 pods of one workload, three kinds of pod status, 1 slot, 2 places for escalations, TTL of 2 ticks, handlers of 1 tick, 3 channels of a tick each | `ShutdownKeepsRecords`, `OnePagePerFix`, `NoDeleteStorm`, and `LoneProblemHandled` under fairness |
| `Agent_parts` | the constants in its cfg and in `MCAgent` | `NeverSilent` (Detectors); `PendingTold` (PendingPod); `EveryServiceDialled`, `OutageTold` (NetProbe); `UncordonedUnlessMissed` (NodePressure); `ActionsConserved`, `FixedStayedHealthy`, and `LeaderVerifies` under fairness (FixTracker); `PolicyInForce` (PolicyStore); `EvictionsCovered` (EvictedPods); `CooldownHolds`, and `FollowsLoad` under fairness (Scaler) |

Runs that show a disagreement between the code and what the repository says of
it (each has one property, the statement quoted in `findings`):

| Run | The code does |
|---|---|
| `Reloader_lost` | a change that is due while nobody leads is dropped by all controllers (`NothingLost`) |
| `Leadership_led` | controllers that lost the lease never stand again; in the end nobody leads (`EventuallyLed`) |
| `Evicted_told` | where the cleanup of evicted pods is applied, it removes a pod before the detector that runs later in the same group has seen it (`EvictionTold`) |

`TypeOK` of each module states the shapes of its variables. For `Approvals`,
`Gate`, `PolicyReload`, `Watch`, `EventLog` and `Leadership` it is proved, and the
runs are spent on other properties. That of `Reloader` needs the range of
`SelectSeq`, which is defined by recursion and so is out of the prover's reach;
its proofs use the part `Shape`.

Smaller disagreements and hazards that the models contain, or that were met on
the way, and on which no run is spent:

- approvals: after a failed write `ListApprovals` may show a queue that was never
  stored, if the store then cannot be read (`approvals.go:320`); a fix that was
  rebuilt from its record writes the value of the time it was proposed
  (`approval_fixes.go:104`);
- gate: mode and scope are read once, before the guardrails (`gate.go:71`);
  concurrent callers may exceed `maxActionsPerHour` (`policycheck.go:62`),
  `BudgetOvershoot` says by how much; two blast radius windows fit into one hour
  (`auditlog.go:150`), `BlastTwoWindows` says that it is not more; the breaker
  trips on the attempt that reaches the threshold, after threshold - 1 actions
  (`circuit.go:70`), and dry-run still announces that attempt (`dryrun.go:65`);
  dry-run holds housekeeping back for blast radius and breaker, which the gate
  does not ask for it (`dryrun.go:65-82`, `docs/CONFIGURATION.md:64`).
  `DryRunForesees` says that these two are all;
  the rate limiter keeps the size it was built with when the setting is reloaded
  (`run.go:325`); a change whose answer was lost is audited as failed;
- scope: the confirmation is compared with the snapshot of the process that got
  the request, so a save with an old snapshot may widen the scope by a namespace
  nobody typed, against the comment at `httpapi/scope.go:46`; `Start` may clear a
  choice that arrives between its look into the cache and `setScope(nil)`
  (`policy/reload.go:93`), until the next resync, as `StoredFollowed` says;
- config reload: a workload counts as up to date by its annotation, while its
  pods may have read other data (`kube/reload.go:356`); the next leader applies a
  version that stalled under the last one (`kube/reload.go:317`); workloads of a
  kind whose list failed are left out, with nothing but a counted error
  (`kube/reload.go:250`); a Deployment that neither finishes nor passes its
  deadline, as a paused one, keeps its wave for ever (`kube/reload.go:439`);
- event log: after a read that stopped early (`recorder.go:153`) new lines with
  smaller ids follow the old ones;
- leadership: a controller that lost the lease forwards to itself
  (`run.go:638`), and goes on with the group of checks it has begun
  (`run.go:514`), as `ChecksOverlap` bounds;
- watchers: keys are per process, so the window bounds what one node's agent
  deletes, not what happens to a workload whose pods move between nodes
  (`run.go:289`), and each failing init container has its own
  (`watcher.go:140`); with a `DEDUP_TTL_SECONDS` no longer than a handler may
  take, which is allowed (`policy.go:85`), the window bounds nothing. Handlers
  delete a pod by name, from an old copy (`handlers.go:33`); a
  finding of an earlier container hides those of later ones; with several lasting
  problems a full pool that frees up in step with the TTL may starve one key, so
  `LoneProblemHandled` is about a lone one; the shutdown waits neither for
  informers nor for `Escalation.Wait` (`run.go:423`);
- node pressure: a mark that was left by a lost race lets the agent undo a later
  cordon of an operator (`docs/wiki/05-safety.md:131` says it only uncordons
  what it cordoned); a cordon that is applied after the update that ended the
  pressure stays (`docs/wiki/12-runbooks.md:44`). `missed` names these cases;
- pending pods: the key of the workload is consumed before the handler reads the
  events, so a pod that it leaves to the leader, or of which another pod of the
  workload took the key, waits for the rest of the window (`watcher.go:254`);
- fix tracking: handlers record their fixes in the process they run in, and only
  leader loops verify (`handlers.go:218`, `run.go:390`, `run.go:487`). Node agents
  have no such loops, so with separate roles nothing that a pod handler did is
  verified, against `docs/wiki/05-safety.md:107` ("After every action, the
  FixTracker verifies recovery"). `NodeAgentsNeverVerify` proves it;
- policies: a whole number is no `zscoreThreshold` (`crd/controller.go:144`), so
  that a threshold of `2`, and `2.0` (`docs/GUIDE.md:553`) where the client
  stores it as `2`, counts as unset and 1 is used (`anomalies.go:33`); the store
  is empty until the first synchronisation (`run.go:316`); replicas and step
  above int32 come into force as other numbers (`crd/controller.go:166`, and
  `policy/reload.go:164` for the settings), while the schema bounds them only
  from below (`deployment/01-crds.yaml:38`); which of several matching policies
  applies is a matter of order in a map;
- autoscaler: after a restart the first new sample is trusted like fifty
  (`learning.go:20`, `docs/CONFIGURATION.md:214`); the write of an old list
  overwrites what a user set meanwhile; a policy maximum below the global minimum
  leaves an empty range;
- probes: only the second failure in a row is reported, so an outage that begins
  within the window of an earlier one is not told as long as it lasts
  (`netprobe.go:86`), while `docs/CONFIGURATION.md:238` says "once per run of
  failures"; a list of Services that keeps changing can keep one from its turn;
  slowness is not reset by an error;
- detectors: an unbound pod without an Unschedulable condition is told by no
  check; `IngressNoBackends` points to a finding that Services without selector
  never get; only the lowest pod that is not ready of a StatefulSet counts
  (`workload_extended.go:155`); the cleanup deletes by name from a list it made
  before it asked the gate (`workloads.go:209`).

### Bounds, and why they are enough

Every bound is a constant of its module and a guard of an action.

- Approvals: two controllers are what a conflict needs, two attempts what a
  retry that gives up needs; one late write can arrive before or after any
  write of the others. A queue of one is full after one proposal, and two
  changes let the second one meet it; a queue of two can hold one change twice,
  which `OnePending` excludes. One expiry period lets items expire between any
  two steps.
- Gate: with `Hour = 2` an instant can be inside, at the edge and outside of a
  window, and two windows reach into one hour from instant 1 to 2. Three places
  to act in exceed what two windows of one namespace allow, so `BlastTwoWindows`
  can fail. Windows of the limiters are over after two instants.
- PolicyReload: three edits let a choice be stored, replaced and deleted around
  a restart; the settings of `MCPolicyReload` contain each way in which a reload
  can be partial, wrong or invalid.
- Reloader: with two values and three edits an object returns to a value it held
  before, which is what stalled versions and annotations are about. `MaxEvents`
  lets a handover or a failing list meet one edit before and after it.
- EventLog: three events overflow a queue of two while a batch of it is under
  way; one fault is a lost or failed request or a crash at any step. Failing
  writes and reads of the file are counted apart (`MaxFileErrors`): in one
  controller, a write may fail before the crash and the next process may read any
  part of what was written.
- Leadership: each of two controllers can lose the lease once and be restarted,
  with one more outage.
- Watch: one slot is full with one handler; two pods of one workload share their
  keys. A TTL of two ticks is longer than a handler, as 300 s are longer than
  60 s, and leaves a tick in which a key is seen and no handler runs; three slow
  channels are slower than the TTL, so that two pages of one fix are under way
  at once. The proofs need neither order.
- Agent_parts: an object is every combination of the values that its detector
  tells apart, at and around each threshold (85 and 94 percent, 4 and 5 events).
  TTL, Hour and Day of 3, 4 and 5 ticks keep the order of the three windows, and
  a TTL of 3 lets the own window of a check begin while `report` withholds the
  finding for two more ticks. Services 1..4 and a sample of 2 make the rotation
  wrap at both places and in the middle when the list shrinks. Two handlers let
  the end of a pressure overtake its beginning; with `MaxLag` of 2 nobody but
  the agent changes the node while a version waits, and the agent's own writes
  queue behind it. The wide integers of a policy are beyond `Half`, which is 4.
  Two actions meet in a pass, lists of 1 are full at once, and giving up after 3
  ticks leaves time to settle, to be healthy and to fall back. In Scaler ages
  beyond `Aged`, which is 2, are as good as any, because no cooldown is longer;
  a policy with a minimum above its maximum, with a minimum or a maximum alone
  and a step that overshoots the maximum are among the settings.

`CHECK_DEADLOCK FALSE` is set where the bounds end a run: when all edits, crashes
and instants are used up and all requests are answered, nothing is left to do.

### Fairness

- Approvals: strong fairness of taking the mutex (`sync.Mutex` does not starve a
  waiter), weak fairness of the steps that hold it (every call has
  `storeTimeout`) and of Apply (the gate returns).
- PolicyReload: weak fairness of list, watch, resync and handlers, which the
  informer runs as long as the process does, and of Start. Not of saves, edits
  or restarts.
- Reloader: weak fairness of informer, debounce, ticker and lease acquisition;
  strong fairness of a verification that can end: it is repeated every second,
  and does not for ever fail to read a workload whose rollout has ended or is
  past `reloadVerifyTimeout`. Nothing is assumed of the rollouts: `WavesEnd`
  excuses a Deployment that rolls for ever.
- Leadership: weak fairness of the elector and its callbacks, of lease expiry,
  of the end of outages, of restarts by Kubernetes, and of the checks' return.
  Giving up, stopping and outages are never fair.
- Watch: weak fairness of pod updates (the informer resyncs every pod), of the
  steps of a handler (every call ends with the context) and of the clock. Not of
  what the kubelet does, of signals or of the outcome of a fix.
- FixTracker in Agent_parts: weak fairness of the clock and of the steps of
  VerifyFixes, which the leader loops call every interval while the process leads.
  Leadership itself is not fair: `LeaderVerifies` asks nothing while it is lost.
- Scaler in Agent_parts: weak fairness of the clock, of listing and of what a
  pass does, and the gate applies a scaling that is asked for again and again;
  a gate that always refuses promises nothing. EventLog and the other parts are
  checked for safety only: what must come is stated there as what holds when
  nothing is under way any more (`UncordonedUnlessMissed`, `PolicyInForce`,
  `EventsArrive`), which needs no fairness.

## 4. Proofs

Every theorem is about all values of the constants that its module assumes
possible; the runs show the same statement on a small instance. All follow one
pattern: an inductive invariant, checked by TLC first, one lemma for each action
or group of actions that it has to survive, and a last step that draws the
property from it.

| Module | Theorem | Says | Needs |
|---|---|---|---|
| `ApprovalsProofs` | `TypeCorrect` | `[]TypeOK` | `ApprovalsAssumption`: types of the constants, `Ids` finite |
| | `ApplyAtMostOnce` | `[]AtMostOnce` | |
| | `DecisionFinal` | `[]OneDecision` | |
| | `ApplyWasApproved` | `[]AppliedWasApproved` | |
| | `OnePendingItem` | `[]OnePending` | |
| | `ResultsTrue` | `[]ResultTrue` | |
| | `NothingPendingLost` | `PendingKept` | |
| | `ControllersImplementQueue` | `ImplementsQueue`, the refinement of `ApprovalQueue` | |
| `GateProofs` | `TypeCorrect` | `[]TypeOK` | `GateAssumption`: types, windows of at least one instant, finitely many callers |
| | `LimitsHold` | `[]SlidingLimits` | |
| | `BlastHolds` | `[]BlastTwoWindows` | |
| | `BudgetHolds` | `[]BudgetOvershoot` | |
| | `DryRunAgrees` | `[]DryRunForesees` | |
| | `FixesKeepTheirBudget` | `FixesHaveOwnBudget` | |
| | `EveryActionCounts` | `[](IndInv /\ NumberInv)`: each action counted is a new event of its history | |
| | `GuardrailsImplementWindows` | `ImplementsWindows`, two refinements of `SlidingWindow` | |
| | `WindowsBoundActions` | `ImplementsWindows => []SlidingLimits` | |
| `EventLogProofs` | `TypeCorrect`, `BaseInvariant` | `[]TypeOK`, `[]Base`: the numbers of queues and logs | `EventLogAssumption`: types, sizes of at least one, finitely many controllers, none of them an agent |
| | `EveryEventArrives` | `[]EventsArrive` | |
| | `LogsInOrder` | `[]LogInOrder` | |
| `LeadershipProofs` | `TypeCorrect` | `[]TypeOK` | `LeadershipAssumption`: types |
| | `AtMostOneLeader` | `[]OneLeader` | |
| | `LateChecksOnly` | `[]ChecksOverlap` | |
| | `ElectionImplementsOffice` | `ImplementsOffice`, the refinement of `LeaderOffice` | |
| | `OfficeBoundsChecks` | `ImplementsOffice => []ChecksOverlap` | |
| `WatchProofs` | `TypeCorrect` | `[]TypeOK` | `WatchAssumption`: types, and periods of at least one tick; the TTL may be any |
| | `RecordsKept` | `[]ShutdownKeepsRecords` | |
| | `OnePage` | `[]OnePagePerFix` | |
| | `NoStorm` | `NoDeleteStorm` | |
| `ReloaderProofs` | `LeaderLosesNothing` | `[]NothingLostByLeader` | `ReloaderAssumption`: types |
| | `StalledStaysOut` | `NeverReapplied` | |
| `PolicyReloadProofs` | `TypeCorrect` | `[]TypeOK` | `PolicyReloadAssumption`: types |
| | `FixesNowhereFirst` | `[]NowhereUntilRead` | |
| | `ChoiceHolds` | `[]StoredChoiceHolds` | |
| `AgentProofs` | `NoSilence` | `[]NeverSilent` | `DetectorsAssumption`: windows last, a check gives one window to a key and one finding of a key to an object |
| | `OutagesTold` | `[]OutageTold` | the same |
| | `DetectorCovers` | `EvictionsCovered` | the same |
| | `PendingPodsTold` | `[]PendingTold` | the same |
| | `ServicesDialled` | `[]EveryServiceDialled` | `AgentAssumption`: the Services are finitely many places of a list; |
| | `NodesUncordoned` | `[]UncordonedUnlessMissed` | the bound of faults is a number; |
| | `NoScalingInCooldown` | `CooldownHolds` | cooldowns are numbers, and over at the greatest age that the model tells apart; |
| | `PoliciesInForce` | `[]PolicyInForce` | the numbers of a policy are typed as JSON decoding types them, `Half` is a number; |
| | `FixesStayedHealthy` | `[]FixedStayedHealthy` | the three periods are numbers |
| | `ActionsKept` | `[]ActionsConserved` | the same |
| | `NodeAgentsNeverVerify` | `[]Unjudged`: every action waits and none has a verdict | `Controls` is false |

Which invariant each one needs, and why:

**Approvals.** `IndInv` holds what the code relies on:

- `StoredInv`: what is pending in the store was never stored as decided;
- `MutexInv`: who reads or writes holds the mutex of its controller, so nobody
  else changes its copy;
- `WriteInv`, `LateInv`: a write in progress, or late, that carries the current
  version only decides pending items and only adds new ids (`Follows`); with an
  older version it is refused. This is the compare and swap argument: whenever
  the store changes, the version grows and all other writes become harmless;
- `TokenInv`: the worker at step "apply" is the only one for its item, which is
  stored as approved and was not carried out;
- `RequestInv`: requests that name an item name an existing id.

`QuietSteps` handles all steps that leave store and rights alone; `CommitStep` is
shared by a successful write and a late one; `ApplyStep` uses up the right.

`PromiseInv` adds to it, about what the writes under way would make of
the store: every such queue holds one pending item of a change at most and
results that are true of the items (`GoodQueue`), and one that carries the
current version keeps what is pending and queues or decides one item
(`StepOf`). A successful or late write is then one step `Commit` of
`ApprovalQueue`, and every other step of a controller stutters or is one of its
other actions. A true result needs `Settled`: whoever had the right to carry out
the item has used it up.

**Gate.** `LimiterInv`, `BreakerInv` and `PolicyInv` say of each guardrail that
what it dropped from its records can count in no window any more, so the number
it compares with the limit is the number of the sliding window that ends now;
windows that ended earlier were bounded when they ended. For the breaker this
holds while it is not tripped; once it has tripped, nothing passes that is newer
than the trip. `BlastInv` says of the tracker that the hour before its window had
no more namespaces than one window, which is what two windows in one hour rest
on. `PolicyInv` counts the callers between `policyRefusal` and
`recordPolicyAction` together with the hits: the sum stays below the limit plus
the number of other callers. The cardinalities come from `FiniteSetTheorems`.
All these bounds count sets of numbered events. `NumberInv` says that the numbers
of a history are below its size, so the next event is new: without it two actions
of one instant could be one element, and the bounds would say less than they
seem to. With it and `IndInv`, a step that lets an action pass is a step `Admit`
of `SlidingWindow`: the window that ends now is contained in what the limiter or
the breaker counts. For a breaker whose trip is over it is empty, because the
trip is an hour old and nothing passed after it. `WindowsBoundActions` closes the
circle: `Bounded` logs stay bounded by `Admit` (`AdmitBounded`), so whatever
implements the windows has the sliding limits.

**EventLog.** Three layers, each proved with the ones before it:

- `Base`: each queue holds consecutive numbers that end at `nextSeq`
  (`Numbers`), so `Flush`, which drops a prefix, drops exactly the events with a
  number up to the last one sent; the ids of a ring are below `nextID` whatever
  was read of the file, and those of ring and file increase if the file was
  always read to its end (`Order`).
- `Carry`: the batch under way covers every queued event up to its last number,
  whatever was recorded or dropped since (`Flushing`); an agent whose targets
  have all answered may forget its batch, and what a controller has queued it
  has stored (`Carried`); what a peer misses of the events it is owed is still
  `Open` for it (`Copied`). Most actions are one kind of step, `Growing`, for
  which this is proved once.
- `OnceInv`, as long as no reason for a repetition has happened: what an agent
  has left to send (`Waiting`) is in no other queue, batch or log; only the
  leader has events to copy; and what it has left to send to a peer, that peer
  does not hold, in its ring or in its file. The file matters because a restart
  makes it the ring. `OnceNew` covers steps that bring new events, `OnceShrinks`
  steps that bring none.

What `handleIngest` passes on is counted by rank (`Ranks`) instead of by
recursion, which is what makes it provable.

**Leadership.** `LeaseInv`: who leads holds the lease, the flag is set only while
leading or stopping, and checks run only where the process has led. The
refinement of `LeaderOffice` needs the first two: the lease says that the office
is free when an elector acquires it, and that the elector which gives up was the
only one in it; the flag says that nobody who tries was told that it leads. `Stop`
maps to `Ends`; lease, network and restarts are not seen and stutter. From the
office alone `OfficeBoundsChecks` draws the bound on late checks: who runs them
is in office or has left it (`OfficeInv`).

**Watch.** `KeyInv`: if the TTL is longer than the timeout of a handler, a handler
that may still act and the dedup key it consumed run down together, so the key is
not free before the handler's context has ended, and no two such handlers have
the same key. `GapInv` carries this over to the last deletion. `SendInv`: what is
left of the window of an escalation and its age are together a TTL at least, so
the next one with its key begins a TTL later; this needs no order of the periods.

**Reloader.** `Accounted`: what the leader's informer knows of an object is
waiting or taken up, and what was taken up lacks workloads only if a list failed
and was counted; `Remembered`: only the leader advances waves, and it
remembers what stalled. Both hold until the first handover, and `Reloader_lost`
shows that they end there.

**PolicyReload.** `HeardInv`: until an agent has read the choice, it has the
empty one. `StoredInv`: as long as the stored choice is not written, the
informer's cache and every notification on its way hold that one, and `Start`
removes the choice only after it has found none. `TypeOK` includes
`SnapshotsValid`: a process starts only with settings that `Validate` accepts, a
reload that it refuses changes nothing, and a choice touches nothing it asks.

**The parts of a process** (`AgentProofs`; each theorem is about the specification
of its part, as `Agent` instantiates it):

- Detectors: `SilenceInv` bounds how long a finding was withheld by what is left
  of the windows. The own window begins also when `report` withholds the
  finding, so the bound is not the longer of the two windows but the own one and
  almost one TTL (`Withheld`). The proof found this: the bound stated before,
  one tick more than the own window, held only for a TTL of two ticks, and the
  run now has a TTL of three.
- PendingPod: `PendingDue`, how long nothing was told is bounded by what is left
  of the window of the one whose message is due: of the leader's for the volume
  if it fails, else of the key of the agent.
- NetProbe: `ProbesInv`, the range of the counter and what was told when it
  passed two. `RotationInv`: the followed Service is d places ahead of the
  offset, around the end, and d and what the passes since it was dialled went
  through are together less than a round; a pass that misses it makes d smaller
  by `Sample`. The n-th of a set comes from `Places`, the arithmetic of the
  round from `Remainder` and `OneRemainder`.
- EvictedPods: `EvictedInv`, a UID in the window is covered.
- NodePressure: `PressureInv`, a node that the agent cordoned carries its mark,
  and the pressure lasts, or the version that ends it, with the cordon and the
  mark, is yet to be delivered (`EndAhead`), in the hands of a handler that will
  uncordon, or missed.
- Scaler: `ScalerInv`, a process that listed after the last scale-up has it in
  its copy.
- PolicyStore: `FollowInv`, the namespaces a synchronisation is done with have
  what it found, which is what the informer has unless another notification
  waits; `HeldInv`, a policy the store was given as it is now is in the cache, in
  the store and in what a running synchronisation found.
- FixTracker: `FixApart`, no action waits twice, in the rest of the pass's copy,
  among those it keeps, or behind them in the list; `FixVerdicts`, an action waits
  from its record until its one verdict; `FixHealthy`, the start of the healthy
  period is not before the last bad sample. The lemmas on lists of records
  (`InConcat`, `InAppend`, `InTail`) carry these over `append`. `NeverLeads`: a
  process without the controller role starts no pass and gives no verdict, so by
  `ActionsConserved` all it did waits.

Only model-checked: the liveness properties `RequestReturns`, `StoredFollowed`,
`WavesEnd`, `SuccessorLeads`, `StandbysForward`, `LoneProblemHandled`,
`FollowsLoad` and `LeaderVerifies`, which need fairness and ENABLED.

## 5. Not modelled

- Inside modelled components: the queue without a store (tests and single
  processes), Slack messages, what each rebuilt fix changes; the audit file and
  the dry-run log; the parser of every settings key (two number keys stand for
  them); `templateRefs` and `shouldReload`; the notice that a controller leads;
  what handlers collect and write; the payload of each escalation channel; how
  baselines are learned (`ScaleRules` has the thresholds they lead to); the
  deployment tracker and the compliance report, which only annotate messages
  and views.
- The admission webhook: one decision for each request, without state.
- Dashboard, terminal and cost views, integrations, configuration, metrics,
  tracing and redaction format or pass on data and keep no state that others
  depend on.

## 6. Plan

Done: Approvals with its abstract queue; Gate with its sliding windows;
PolicyReload; Reloader; Leadership with its office; EventLog; Watch; the parts
in Agent; the proofs of section 4.

Left, in this order:

1. A composition of Gate with PolicyStore and PolicyReload, in which policies
   and settings change while callers are in the gate.
2. Learning, the deployment tracker and the webhook's decision table.
