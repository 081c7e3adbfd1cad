--------------------------------- MODULE Gate ----------------------------------
(***************************************************************************)
(* applyMutation (internal/kube/gate.go), the only path by which an agent  *)
(* process changes the cluster, with the guardrails it asks in order:      *)
(* fix scope and mode, quiet hours, blast radius, AutoRemediationPolicy    *)
(* limits, circuit breaker and rate limiter.  Handlers, check loops, the   *)
(* reloader and approvals call it at the same time (Procs); each guardrail *)
(* has its own mutex, nothing is held from one to the next.                *)
(*                                                                         *)
(* One action or event at time t is a record [n, t]: n tells apart those   *)
(* of one instant.  The code's slices of times are in order of time, so    *)
(* dropping old entries from the front is dropping all old entries.        *)
(***************************************************************************)
EXTENDS Integers, FiniteSets

CONSTANTS
    Procs,              \* goroutines that call applyMutation
    Namespaces, Workloads,
    NsOf,               \* NsOf[wl]: its namespace, Cluster for a node
    Mutations,          \* the changes asked for: of which workload, fix or
                        \* housekeeping, a pod restart (delete_pod) or not
    NoMutation,
    Policies,           \* AutoRemediationPolicies, by policyKey
    PolicyOf,           \* PolicyOf[wl]: the first matching policy, or NoPolicy
    MaxPerHour,         \* safety.maxActionsPerHour of a policy; 0: not set
    RequireApproval,    \* policies with safety.requireApproval
    NoRestarts,         \* policies with actions.restartStuckPods: false
    MaxActions,         \* [fix, housekeeping -> Nat]: max of the two limiters
    LimitWindow,        \* window of the limiters (10 minutes)
    Threshold,          \* guardrails.circuitBreakerThreshold
    MaxNamespaces,      \* guardrails.blastRadiusMaxNamespaces
    Hour,               \* window of breaker, blast radius and policy budget
    QuietTimes,         \* the instants inside quiet hours
    Modes,              \* modes a policy reload may set
    Scopes,             \* fix scopes a policy reload may set
    MaxClock            \* bound: last instant of the clock

NoPolicy == "no policy"
Cluster  == "cluster"       \* the empty namespace of a cluster-scoped change
Never    == -1

Kinds == {"fix", "housekeeping"}

ASSUME GateAssumption ==
    /\ NsOf \in [Workloads -> Namespaces \cup {Cluster}]
    /\ Mutations \subseteq [wl : Workloads, kind : Kinds, restart : BOOLEAN]
    /\ NoMutation \notin Mutations
    /\ PolicyOf \in [Workloads -> Policies \cup {NoPolicy}]
    /\ NoPolicy \notin Policies
    /\ MaxPerHour \in [Policies -> Nat]
    /\ MaxActions \in [Kinds -> Nat]
    /\ LimitWindow \in Nat \ {0}
    /\ Threshold \in Nat \ {0}
    /\ MaxNamespaces \in Nat
    /\ Hour \in Nat \ {0}
    /\ IsFiniteSet(Procs)
    /\ Modes \subseteq {"fix", "suggest", "dry-run", "observe"}
    /\ Scopes \subseteq SUBSET Namespaces
    /\ MaxClock \in Nat

Steps == {"idle", "quiet", "blast", "policy", "breaker", "limit", "apply", "record"}

Outcomes == {"none", "skipped", "suggested", "simulated", "blocked", "failed", "applied"}

Event == [n : Nat, t : Nat]

VARIABLES
    clock,
    mode, scope,    \* the policy snapshot: mode, and namespaces in the fix scope
    touched,        \* BlastRadiusTracker.namespaceCounts: namespaces acted on
    lastReset,      \* BlastRadiusTracker.lastReset
    actions,        \* actions[wl]: CircuitBreaker.actions
    tripped,        \* tripped[wl]: when the breaker tripped, or Never
    events,         \* events[k]: ActionLimiter.events of the limiter for kind k
    hits,           \* hits[p]: PolicyBudget.hits
    pc, job,        \* where a caller is and which mutation it carries
    last,           \* last[c]: the outcome of the caller's last mutation
    granted,        \* history: granted[k], every event the limiter ever allowed
    passed,         \* history: passed[wl], every action the breaker let pass
    spread,         \* history: <<ns, t>> for every namespace allowed at t
    counted         \* history: counted[p], every hit ever recorded for a policy

guards  == <<touched, lastReset, actions, tripped, events, hits>>
history == <<granted, passed, spread, counted>>
vars    == <<clock, mode, scope, guards, pc, job, last, history>>

(* The shape of every variable. *)
TypeOK ==
    /\ clock \in 0..MaxClock
    /\ mode \in Modes /\ scope \in Scopes
    /\ touched \subseteq Namespaces \cup {Cluster}
    /\ lastReset \in 0..MaxClock
    /\ actions \in [Workloads -> SUBSET Event]
    /\ tripped \in [Workloads -> 0..MaxClock \cup {Never}]
    /\ events \in [Kinds -> SUBSET Event]
    /\ hits \in [Policies -> SUBSET Event]
    /\ pc \in [Procs -> Steps]
    /\ job \in [Procs -> Mutations \cup {NoMutation}]
    /\ last \in [Procs -> Outcomes]
    /\ granted \in [Kinds -> SUBSET Event]
    /\ passed \in [Workloads -> SUBSET Event]
    /\ spread \subseteq (Namespaces \cup {Cluster}) \X (0..MaxClock)
    /\ counted \in [Policies -> SUBSET Event]

Init ==
    /\ clock = 0
    /\ mode \in Modes /\ scope \in Scopes
    /\ touched = {} /\ lastReset = 0
    /\ actions = [wl \in Workloads |-> {}]
    /\ tripped = [wl \in Workloads |-> Never]
    /\ events = [k \in Kinds |-> {}]
    /\ hits = [p \in Policies |-> {}]
    /\ pc = [c \in Procs |-> "idle"]
    /\ job = [c \in Procs |-> NoMutation]
    /\ last = [c \in Procs |-> "none"]
    /\ granted = [k \in Kinds |-> {}]
    /\ passed = [wl \in Workloads |-> {}]
    /\ spread = {}
    /\ counted = [p \in Policies |-> {}]

--------------------------------------------------------------------------------
(* A new event of this instant, numbered by the events so far. *)
Now(S) == [n |-> Cardinality(S), t |-> clock]

GoTo(c, s) == pc' = [pc EXCEPT ![c] = s] /\ UNCHANGED <<job, last>>

Finish(c, out) ==
    /\ pc' = [pc EXCEPT ![c] = "idle"]
    /\ job' = [job EXCEPT ![c] = NoMutation]
    /\ last' = [last EXCEPT ![c] = out]

Environment == UNCHANGED <<clock, mode, scope>>

(* Policy.Fixable; a cluster-scoped change has no namespace to be outside. *)
InScope(ns) == ns = Cluster \/ ns \in scope

(* The outcome when the mode or the scope keeps the change from going on. *)
Withheld(ns) ==
    IF mode = "observe" THEN "skipped"
    ELSE IF ~InScope(ns) \/ mode = "suggest" THEN "suggested" ELSE "simulated"

(* applyMutation takes one snapshot of the policy. *)
Start(c) ==
    /\ pc[c] = "idle"
    /\ \E m \in Mutations :
          LET ns == NsOf[m.wl]
          IN  IF mode = "fix" /\ InScope(ns)
              THEN /\ pc' = [pc EXCEPT ![c] = "quiet"]
                   /\ job' = [job EXCEPT ![c] = m]
                   /\ last' = [last EXCEPT ![c] = "none"]
              ELSE Finish(c, Withheld(ns))
    /\ Environment /\ UNCHANGED <<guards, history>>

Housekeeping(c) == job[c].kind = "housekeeping"

(* QuietHours.IsQuiet *)
CheckQuiet(c) ==
    /\ pc[c] = "quiet"
    /\ IF clock \in QuietTimes THEN Finish(c, "blocked")
       ELSE GoTo(c, IF Housekeeping(c) THEN "policy" ELSE "blast")
    /\ Environment /\ UNCHANGED <<guards, history>>

WindowOverLater == clock - lastReset > Hour

WindowOver == clock - lastReset >= Hour

(* The namespaces that count, after AllowAction's reset of an old window. *)
Touched == IF WindowOver THEN {} ELSE touched

BlastAllowsOneMore(ns) == ns \in Touched \/ Cardinality(Touched) <= MaxNamespaces

BlastAllows(ns) == ns \in Touched \/ Cardinality(Touched) < MaxNamespaces

(* BlastRadiusTracker.AllowAction *)
CheckBlastRadius(c) ==
    /\ pc[c] = "blast"
    /\ LET ns == NsOf[job[c].wl]
       IN  /\ lastReset' = IF WindowOver THEN clock ELSE lastReset
           /\ IF BlastAllows(ns)
              THEN /\ touched' = Touched \cup {ns}
                   /\ spread' = spread \cup {<<ns, clock>>}
                   /\ GoTo(c, "policy")
              ELSE /\ touched' = Touched
                   /\ spread' = spread
                   /\ Finish(c, "blocked")
    /\ Environment
    /\ UNCHANGED <<actions, tripped, events, hits, granted, passed, counted>>

WouldAllowStale(ns) == ns \in touched \/ Cardinality(touched) < MaxNamespaces

(* BlastRadiusTracker.WouldAllow, which dry-run and the gate preview ask. *)
WouldAllow(ns) ==
    IF WindowOver THEN MaxNamespaces > 0
    ELSE ns \in touched \/ Cardinality(touched) < MaxNamespaces

(* PolicyBudget.Used, and what it keeps *)
Recent(S) == {e \in S : clock - e.t < Hour}

PolicyRefusesLate(m) ==
    LET p == PolicyOf[m.wl]
    IN  /\ p # NoPolicy
        /\ \/ p \in RequireApproval
           \/ m.restart /\ p \in NoRestarts
           \/ MaxPerHour[p] > 0 /\ Cardinality(Recent(hits[p])) > MaxPerHour[p]

(* policyRefusal *)
PolicyRefuses(m) ==
    LET p == PolicyOf[m.wl]
    IN  /\ p # NoPolicy
        /\ \/ p \in RequireApproval
           \/ m.restart /\ p \in NoRestarts
           \/ MaxPerHour[p] > 0 /\ Cardinality(Recent(hits[p])) >= MaxPerHour[p]

(* Used is called, and prunes, when no earlier rule refused. *)
AsksBudget(m) ==
    LET p == PolicyOf[m.wl]
    IN  /\ p # NoPolicy
        /\ p \notin RequireApproval
        /\ ~(m.restart /\ p \in NoRestarts)
        /\ MaxPerHour[p] > 0

CheckPolicy(c) ==
    /\ pc[c] = "policy"
    /\ LET m == job[c]
           p == PolicyOf[m.wl]
       IN  /\ hits' = IF AsksBudget(m) THEN [hits EXCEPT ![p] = Recent(@)] ELSE hits
           /\ IF PolicyRefuses(m) THEN Finish(c, "blocked")
              ELSE GoTo(c, IF Housekeeping(c) THEN "limit" ELSE "breaker")
    /\ Environment
    /\ UNCHANGED <<touched, lastReset, actions, tripped, events, history>>

StillTrippedShort(wl) == tripped[wl] # Never /\ clock - tripped[wl] < Hour - 1

StillTripped(wl) == tripped[wl] # Never /\ clock - tripped[wl] < Hour

(* The actions RecordAndCheck counts: none from before a trip that is over. *)
Counting(wl) ==
    IF tripped[wl] # Never THEN {} ELSE {e \in actions[wl] : e.t > clock - Hour}

(* CircuitBreaker.RecordAndCheck.  The action that reaches the threshold    *)
(* trips the breaker and is refused itself.                                 *)
CheckBreaker(c) ==
    /\ pc[c] = "breaker"
    /\ LET wl   == job[c].wl
           e    == Now(passed[wl])
           acts == Counting(wl) \cup {e}
       IN  IF StillTripped(wl)
           THEN Finish(c, "blocked") /\ UNCHANGED <<actions, tripped, passed>>
           ELSE /\ actions' = [actions EXCEPT ![wl] = acts]
                /\ IF Cardinality(acts) >= Threshold
                   THEN /\ tripped' = [tripped EXCEPT ![wl] = clock]
                        /\ Finish(c, "blocked") /\ passed' = passed
                   ELSE /\ tripped' = [tripped EXCEPT ![wl] = Never]
                        /\ passed' = [passed EXCEPT ![wl] = @ \cup {e}]
                        /\ GoTo(c, "limit")
    /\ Environment
    /\ UNCHANGED <<touched, lastReset, events, hits, granted, spread, counted>>

InSharedWindow(k) ==
    {e \in UNION {events[j] : j \in Kinds} : e.t >= clock - LimitWindow}

(* ActionLimiter.prune: an event exactly one window old still counts. *)
InWindow(k) == {e \in events[k] : e.t >= clock - LimitWindow}

(* ActionLimiter.Allow, of the limiter for this kind of change *)
CheckLimiter(c) ==
    /\ pc[c] = "limit"
    /\ LET k == job[c].kind
           e == Now(granted[k])
       IN  IF Cardinality(InWindow(k)) >= MaxActions[k]
           THEN /\ events' = [events EXCEPT ![k] = InWindow(k)]
                /\ Finish(c, "blocked") /\ granted' = granted
           ELSE /\ events' = [events EXCEPT ![k] = InWindow(k) \cup {e}]
                /\ granted' = [granted EXCEPT ![k] = @ \cup {e}]
                /\ GoTo(c, "apply")
    /\ Environment
    /\ UNCHANGED <<touched, lastReset, actions, tripped, hits, passed, spread, counted>>

(* m.Apply: the API server accepts or refuses the change. *)
Apply(c) ==
    /\ pc[c] = "apply"
    /\ Finish(c, "failed") \/ GoTo(c, "record")
    /\ Environment /\ UNCHANGED <<guards, history>>

(* recordPolicyAction *)
RecordPolicyAction(c) ==
    /\ pc[c] = "record"
    /\ LET p == PolicyOf[job[c].wl]
       IN  IF p # NoPolicy /\ MaxPerHour[p] > 0
           THEN LET e == Now(counted[p])
                IN  /\ hits' = [hits EXCEPT ![p] = @ \cup {e}]
                    /\ counted' = [counted EXCEPT ![p] = @ \cup {e}]
           ELSE UNCHANGED <<hits, counted>>
    /\ Finish(c, "applied")
    /\ Environment
    /\ UNCHANGED <<touched, lastReset, actions, tripped, events, granted, passed, spread>>

(* CircuitBreaker.IsTripped, asked by dry-run, forgets a trip that is over. *)
ForgetTrip(wl) ==
    /\ tripped[wl] # Never /\ ~StillTripped(wl)
    /\ tripped' = [tripped EXCEPT ![wl] = Never]
    /\ actions' = [actions EXCEPT ![wl] = {}]
    /\ Environment
    /\ UNCHANGED <<touched, lastReset, events, hits, pc, job, last, history>>

(* A policy reload, or a new fix scope, is swapped in. *)
ReloadPolicy ==
    /\ mode' \in Modes /\ scope' \in Scopes
    /\ UNCHANGED <<clock, guards, pc, job, last, history>>

Tick ==
    /\ clock < MaxClock
    /\ clock' = clock + 1
    /\ UNCHANGED <<mode, scope, guards, pc, job, last, history>>

Step(c) == \/ Start(c) \/ CheckQuiet(c) \/ CheckBlastRadius(c) \/ CheckPolicy(c)
           \/ CheckBreaker(c) \/ CheckLimiter(c) \/ Apply(c) \/ RecordPolicyAction(c)

Next ==
    \/ \E c \in Procs : Step(c)
    \/ \E wl \in Workloads : ForgetTrip(wl)
    \/ ReloadPolicy
    \/ Tick

Spec == Init /\ [][Next]_vars

--------------------------------------------------------------------------------
(* Properties. *)

Between(S, a, b) == {e \in S : a <= e.t /\ e.t < b}

(* Each limiter lets at most its maximum pass in any sliding window, both    *)
(* ends included, however the callers interleave and whenever prune runs.    *)
LimiterSliding ==
    \A k \in Kinds, a \in 0..MaxClock :
        Cardinality(Between(granted[k], a, a + LimitWindow + 1)) <= MaxActions[k]

(* The breaker lets fewer than its threshold pass for one workload in any    *)
(* sliding window, across the trips and resets in it.                        *)
BreakerSliding ==
    \A wl \in Workloads, a \in 0..MaxClock :
        Cardinality(Between(passed[wl], a, a + Hour)) < Threshold

(* What the rate limits promise for every sliding window, not only for those *)
(* that begin with a reset.                                                  *)
SlidingLimits == LimiterSliding /\ BreakerSliding

Limiters == INSTANCE SlidingWindow
    WITH Keys <- Kinds, Width <- LimitWindow + 1, Limit <- MaxActions,
         now <- clock, log <- granted

Breaker == INSTANCE SlidingWindow
    WITH Keys <- Workloads, Width <- Hour, Limit <- [wl \in Workloads |-> Threshold - 1],
         now <- clock, log <- passed

(* Each limiter and the breaker of each workload decide as one that forgets   *)
(* nothing would: prune, a trip and the reset after it change no decision to  *)
(* let an action pass, and every action let pass is one more of the window.   *)
ImplementsWindows == Limiters!Spec /\ Breaker!Spec

(* policyRefusal asks the budget before Apply and recordPolicyAction counts  *)
(* after it, so concurrent callers may go beyond maxActionsPerHour, but by   *)
(* no more than one action for every other caller.                           *)
BudgetOvershoot ==
    \A p \in Policies, a \in 0..MaxClock : MaxPerHour[p] > 0 =>
        Cardinality(Between(counted[p], a, a + Hour))
            <= MaxPerHour[p] + Cardinality(Procs) - 1

SpreadIn(a, b) == {x[1] : x \in {y \in spread : a <= y[2] /\ y[2] < b}}

(* The blast radius starts a new window when an action finds the old one     *)
(* over, so an hour touches the namespaces of at most two windows.           *)
BlastTwoWindows ==
    \A a \in 0..MaxClock : Cardinality(SpreadIn(a, a + Hour)) <= 2 * MaxNamespaces

(* A fix is refused by the rate limit or the blast radius only when fixes    *)
(* have used it up: cleanup spends neither (ISS-025), and old entries do not *)
(* linger.                                                                   *)
FixesHaveOwnBudget ==
    [][\A c \in Procs :
          /\ pc[c] = "limit" /\ pc'[c] = "idle" /\ job[c].kind = "fix" =>
                Cardinality(Between(granted["fix"], clock - LimitWindow, clock + 1))
                   >= MaxActions["fix"]
          /\ pc[c] = "blast" /\ pc'[c] = "idle" =>
                Cardinality(SpreadIn(clock - Hour + 1, clock + 1)) >= MaxNamespaces]_vars

(* What SimulateAction says would block a change. *)
DryRunBlocks(m) ==
    \/ clock \in QuietTimes
    \/ ~WouldAllow(NsOf[m.wl])
    \/ PolicyRefuses(m)
    \/ StillTripped(m.wl)

(* What checkGuardrails would answer for it at the same instant, before the   *)
(* rate limit, which only the gate asks.                                      *)
GuardrailsBlock(m) ==
    \/ clock \in QuietTimes
    \/ PolicyRefuses(m)
    \/ /\ m.kind = "fix"
       /\ \/ ~BlastAllows(NsOf[m.wl])
          \/ StillTripped(m.wl)
          \/ Cardinality(Counting(m.wl)) + 1 >= Threshold

(* SimulateAction is not told whether a change is housekeeping, so it also   *)
(* asks for it the blast radius and the breaker, which the gate does not.     *)
OnlySimulated(m) ==
    m.kind = "housekeeping" /\ (~WouldAllow(NsOf[m.wl]) \/ StillTripped(m.wl))

(* The action that would trip the breaker: RecordAndCheck refuses it, and    *)
(* IsTripped, which counts nothing, does not know.                           *)
WouldTrip(m) == m.kind = "fix" /\ Cardinality(Counting(m.wl)) + 1 >= Threshold

(* What dry-run says of any change, fix or housekeeping, is what the         *)
(* guardrails would answer at the same instant, with exactly two exceptions, *)
(* one on each side: housekeeping that only SimulateAction holds back, and    *)
(* the fix that would trip the breaker.  The read-only sides of the guardrails *)
(* (WouldAllow, IsTripped) thus agree with the sides that count (AllowAction, *)
(* RecordAndCheck) on when a window is over.                                 *)
DryRunForesees ==
    \A m \in Mutations :
        /\ DryRunBlocks(m) => GuardrailsBlock(m) \/ OnlySimulated(m)
        /\ GuardrailsBlock(m) => DryRunBlocks(m) \/ WouldTrip(m)
================================================================================
