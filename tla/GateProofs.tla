------------------------------ MODULE GateProofs -------------------------------
(***************************************************************************)
(* Proofs about Gate: what the rate limits, the breaker, the blast radius   *)
(* and the policy budget promise, for any number of callers of             *)
(* applyMutation, any workloads, policies and limits, and any clock.        *)
(***************************************************************************)
EXTENDS Gate, FiniteSetTheorems, TLAPS

--------------------------------------------------------------------------------
(* The parts of the inductive invariant. *)

(* A caller inside the gate carries a mutation. *)
JobInv == \A c \in Procs : pc[c] # "idle" => job[c] \in Mutations

(* The limiter keeps every event that may still count, and no other. *)
LimiterInv ==
    \A k \in Kinds :
        /\ IsFiniteSet(granted[k])
        /\ events[k] \subseteq granted[k]
        /\ \A e \in granted[k] :
              /\ e.t <= clock
              /\ e.t >= clock - LimitWindow => e \in events[k]

(* So does the breaker while it is not tripped; once it has tripped, nothing *)
(* passes that is newer than the trip.                                       *)
BreakerInv ==
    \A wl \in Workloads :
        /\ IsFiniteSet(passed[wl])
        /\ tripped[wl] <= clock
        /\ \A e \in passed[wl] : e.t <= clock
        /\ tripped[wl] = Never =>
              /\ actions[wl] \subseteq passed[wl]
              /\ \A e \in passed[wl] : e.t > clock - Hour => e \in actions[wl]
        /\ tripped[wl] # Never => \A e \in passed[wl] : e.t <= tripped[wl]

(* The tracker holds the namespaces of its window, as many as it may; the     *)
(* window is younger than an hour at its last action, and the hour before it  *)
(* had no more namespaces than one window.                                    *)
BlastInv ==
    /\ lastReset <= clock
    /\ IsFiniteSet(touched) /\ Cardinality(touched) <= MaxNamespaces
    /\ \A x \in spread :
          /\ x[2] <= clock /\ x[2] < lastReset + Hour
          /\ x[2] >= lastReset => x[1] \in touched
    /\ \A ns \in touched : \E x \in spread : x[1] = ns /\ x[2] >= lastReset
    /\ \A a \in Int : a > lastReset - Hour =>
          /\ IsFiniteSet(SpreadIn(a, lastReset))
          /\ Cardinality(SpreadIn(a, lastReset)) <= MaxNamespaces

(* Callers that policyRefusal let pass and recordPolicyAction has not seen. *)
Asked(p) ==
    {c \in Procs : /\ pc[c] \in {"breaker", "limit", "apply", "record"}
                   /\ job[c] \in Mutations
                   /\ PolicyOf[job[c].wl] = p}

(* The hits that count now and those to come are within the bound. *)
PolicyInv(p) ==
    /\ IsFiniteSet(counted[p])
    /\ hits[p] \subseteq counted[p]
    /\ \A e \in counted[p] :
          /\ e.t <= clock
          /\ clock - e.t < Hour => e \in hits[p]
    /\ Cardinality(Recent(counted[p])) + Cardinality(Asked(p))
          <= MaxPerHour[p] + Cardinality(Procs) - 1

BudgetInv == \A p \in Policies : MaxPerHour[p] > 0 => PolicyInv(p)

IndInv ==
    /\ TypeOK /\ JobInv
    /\ LimiterInv /\ LimiterSliding
    /\ BreakerInv /\ BreakerSliding
    /\ BlastInv /\ BlastTwoWindows
    /\ BudgetInv /\ BudgetOvershoot

--------------------------------------------------------------------------------
(* Cardinalities. *)

(* A part of a finite set is finite and no larger. *)
LEMMA SubsetBound ==
    ASSUME NEW T, IsFiniteSet(T), NEW S \in SUBSET T
    PROVE  /\ IsFiniteSet(S) /\ Cardinality(S) \in Nat /\ Cardinality(T) \in Nat
           /\ Cardinality(S) <= Cardinality(T)
BY FS_Subset, FS_CardinalityType

(* One more element makes a set larger by one at most. *)
LEMMA AddBound ==
    ASSUME NEW S, IsFiniteSet(S), NEW e
    PROVE  /\ IsFiniteSet(S \cup {e})
           /\ Cardinality(S) \in Nat /\ Cardinality(S \cup {e}) \in Nat
           /\ Cardinality(S \cup {e}) <= Cardinality(S) + 1
BY FS_AddElement, FS_CardinalityType

(* A set covered by two others is no larger than both together. *)
LEMMA UnionBound ==
    ASSUME NEW S, NEW T, IsFiniteSet(S), IsFiniteSet(T), NEW R \in SUBSET (S \cup T)
    PROVE  /\ IsFiniteSet(R) /\ Cardinality(R) \in Nat
           /\ Cardinality(R) <= Cardinality(S) + Cardinality(T)
<1>1. /\ IsFiniteSet(S \cup T)
      /\ Cardinality(S \cup T) = Cardinality(S) + Cardinality(T) - Cardinality(S \cap T)
  BY FS_Union
<1>2. IsFiniteSet(S \cap T)
  BY FS_Intersection
<1>3. Cardinality(S \cap T) \in Nat /\ Cardinality(S) \in Nat /\ Cardinality(T) \in Nat
  BY <1>2, FS_CardinalityType
<1> QED BY <1>1, <1>3, SubsetBound

(* A new event of an instant is an event. *)
LEMMA NowType ==
    ASSUME NEW S, IsFiniteSet(S), clock \in Nat
    PROVE  Now(S) \in Event /\ Now(S).t = clock
BY FS_CardinalityType DEF Now, Event

(* The instants and the limits are integers. *)
LEMMA Numbers ==
    ASSUME TypeOK
    PROVE  /\ clock \in Nat /\ lastReset \in Nat /\ MaxClock \in Nat
           /\ Hour \in Nat \ {0} /\ LimitWindow \in Nat \ {0} /\ Threshold \in Nat \ {0}
           /\ MaxNamespaces \in Nat
           /\ \A wl \in Workloads : tripped[wl] \in Int
BY GateAssumption DEF TypeOK, Never

(* A caller inside the gate has a workload, a kind and a namespace. *)
LEMMA JobType ==
    ASSUME TypeOK, JobInv, NEW c \in Procs, pc[c] # "idle"
    PROVE  /\ job[c] \in Mutations
           /\ job[c].wl \in Workloads /\ job[c].kind \in Kinds
           /\ NsOf[job[c].wl] \in Namespaces \cup {Cluster}
           /\ PolicyOf[job[c].wl] \in Policies \cup {NoPolicy}
BY GateAssumption DEF JobInv

--------------------------------------------------------------------------------
(* Type correctness and the jobs of the callers. *)

(* The end of a call keeps the types of the callers' variables. *)
LEMMA FinishType ==
    ASSUME TypeOK, JobInv, NEW c \in Procs, NEW out \in Outcomes, Finish(c, out)
    PROVE  /\ pc' \in [Procs -> Steps]
           /\ job' \in [Procs -> Mutations \cup {NoMutation}]
           /\ last' \in [Procs -> Outcomes]
           /\ JobInv'
BY DEF TypeOK, JobInv, Finish, Steps

(* So does going on inside the gate. *)
LEMMA GoToType ==
    ASSUME TypeOK, JobInv, NEW c \in Procs, pc[c] # "idle", NEW s \in Steps, GoTo(c, s)
    PROVE  /\ pc' \in [Procs -> Steps]
           /\ job' \in [Procs -> Mutations \cup {NoMutation}]
           /\ last' \in [Procs -> Outcomes]
           /\ JobInv'
BY DEF TypeOK, JobInv, GoTo

(* Every step of a caller, a reload and a tick keeps the types. *)
LEMMA TypeStep == IndInv /\ [Next]_vars => TypeOK' /\ JobInv'
<1> SUFFICES ASSUME IndInv, [Next]_vars PROVE TypeOK' /\ JobInv'
  OBVIOUS
<1>i. TypeOK /\ JobInv /\ LimiterInv /\ BreakerInv /\ BlastInv /\ BudgetInv
  BY DEF IndInv
<1>n. clock \in Nat /\ MaxClock \in Nat
  BY <1>i, Numbers
<1>o. /\ {"none", "skipped", "suggested", "simulated", "blocked", "failed", "applied"} \subseteq Outcomes
      /\ {"quiet", "blast", "policy", "breaker", "limit", "apply", "record"} \subseteq Steps
  BY DEF Outcomes, Steps
<1>1. ASSUME NEW c \in Procs, Start(c) PROVE TypeOK' /\ JobInv'
  <2>1. PICK m \in Mutations :
          IF mode = "fix" /\ InScope(NsOf[m.wl])
          THEN /\ pc' = [pc EXCEPT ![c] = "quiet"]
               /\ job' = [job EXCEPT ![c] = m]
               /\ last' = [last EXCEPT ![c] = "none"]
          ELSE Finish(c, Withheld(NsOf[m.wl]))
    BY <1>1 DEF Start
  <2>2. Withheld(NsOf[m.wl]) \in Outcomes
    BY <1>o DEF Withheld
  <2>3. /\ pc' \in [Procs -> Steps]
        /\ job' \in [Procs -> Mutations \cup {NoMutation}]
        /\ last' \in [Procs -> Outcomes]
        /\ JobInv'
    <3>1. CASE Finish(c, Withheld(NsOf[m.wl]))
      BY <1>i, <2>2, <3>1, FinishType
    <3>2. CASE /\ pc' = [pc EXCEPT ![c] = "quiet"]
               /\ job' = [job EXCEPT ![c] = m]
               /\ last' = [last EXCEPT ![c] = "none"]
      BY <1>i, <1>o, <3>2 DEF TypeOK, JobInv
    <3> QED BY <2>1, <3>1, <3>2
  <2> QED BY <1>1, <1>i, <2>3 DEF TypeOK, Start, Environment, guards, history
<1>2. ASSUME NEW c \in Procs, CheckQuiet(c) PROVE TypeOK' /\ JobInv'
  <2>1. \/ Finish(c, "blocked")
        \/ GoTo(c, "policy")
        \/ GoTo(c, "blast")
    BY <1>2 DEF CheckQuiet
  <2>2. /\ pc' \in [Procs -> Steps]
        /\ job' \in [Procs -> Mutations \cup {NoMutation}]
        /\ last' \in [Procs -> Outcomes]
        /\ JobInv'
    BY <1>2, <1>i, <1>o, <2>1, FinishType, GoToType DEF CheckQuiet
  <2> QED BY <1>2, <1>i, <2>2 DEF TypeOK, CheckQuiet, Environment, guards, history
<1>3. ASSUME NEW c \in Procs, CheckBlastRadius(c) PROVE TypeOK' /\ JobInv'
  <2>1. Finish(c, "blocked") \/ GoTo(c, "policy")
    BY <1>3 DEF CheckBlastRadius
  <2>2. /\ pc' \in [Procs -> Steps]
        /\ job' \in [Procs -> Mutations \cup {NoMutation}]
        /\ last' \in [Procs -> Outcomes]
        /\ JobInv'
    BY <1>3, <1>i, <1>o, <2>1, FinishType, GoToType DEF CheckBlastRadius
  <2>3. NsOf[job[c].wl] \in Namespaces \cup {Cluster}
    BY <1>3, <1>i, JobType DEF CheckBlastRadius
  <2>4. /\ touched' \subseteq Namespaces \cup {Cluster}
        /\ lastReset' \in 0..MaxClock
        /\ spread' \subseteq (Namespaces \cup {Cluster}) \X (0..MaxClock)
    BY <1>3, <1>i, <2>3 DEF TypeOK, CheckBlastRadius, Touched
  <2> QED BY <1>3, <1>i, <2>2, <2>4 DEF TypeOK, CheckBlastRadius, Environment
<1>4. ASSUME NEW c \in Procs, CheckPolicy(c) PROVE TypeOK' /\ JobInv'
  <2>1. Finish(c, "blocked") \/ GoTo(c, "limit") \/ GoTo(c, "breaker")
    BY <1>4 DEF CheckPolicy
  <2>2. /\ pc' \in [Procs -> Steps]
        /\ job' \in [Procs -> Mutations \cup {NoMutation}]
        /\ last' \in [Procs -> Outcomes]
        /\ JobInv'
    BY <1>4, <1>i, <1>o, <2>1, FinishType, GoToType DEF CheckPolicy
  <2>3. hits' \in [Policies -> SUBSET Event]
    BY <1>4, <1>i DEF TypeOK, CheckPolicy, Recent
  <2> QED BY <1>4, <1>i, <2>2, <2>3 DEF TypeOK, CheckPolicy, Environment, history
<1>5. ASSUME NEW c \in Procs, CheckBreaker(c) PROVE TypeOK' /\ JobInv'
  <2>1. Finish(c, "blocked") \/ GoTo(c, "limit")
    BY <1>5 DEF CheckBreaker
  <2>2. /\ pc' \in [Procs -> Steps]
        /\ job' \in [Procs -> Mutations \cup {NoMutation}]
        /\ last' \in [Procs -> Outcomes]
        /\ JobInv'
    BY <1>5, <1>i, <1>o, <2>1, FinishType, GoToType DEF CheckBreaker
  <2>3. job[c].wl \in Workloads
    BY <1>5, <1>i, JobType DEF CheckBreaker
  <2>4. Now(passed[job[c].wl]) \in Event /\ Counting(job[c].wl) \subseteq Event
    BY <1>i, <1>n, <2>3, NowType DEF TypeOK, BreakerInv, Counting
  <2>5. /\ actions' \in [Workloads -> SUBSET Event]
        /\ tripped' \in [Workloads -> 0..MaxClock \cup {Never}]
        /\ passed' \in [Workloads -> SUBSET Event]
    BY <1>5, <1>i, <2>3, <2>4 DEF TypeOK, CheckBreaker
  <2> QED BY <1>5, <1>i, <2>2, <2>5 DEF TypeOK, CheckBreaker, Environment
<1>6. ASSUME NEW c \in Procs, CheckLimiter(c) PROVE TypeOK' /\ JobInv'
  <2>1. Finish(c, "blocked") \/ GoTo(c, "apply")
    BY <1>6 DEF CheckLimiter
  <2>2. /\ pc' \in [Procs -> Steps]
        /\ job' \in [Procs -> Mutations \cup {NoMutation}]
        /\ last' \in [Procs -> Outcomes]
        /\ JobInv'
    BY <1>6, <1>i, <1>o, <2>1, FinishType, GoToType DEF CheckLimiter
  <2>3. job[c].kind \in Kinds
    BY <1>6, <1>i, JobType DEF CheckLimiter
  <2>4. Now(granted[job[c].kind]) \in Event /\ InWindow(job[c].kind) \subseteq Event
    BY <1>i, <1>n, <2>3, NowType DEF TypeOK, LimiterInv, InWindow
  <2>5. events' \in [Kinds -> SUBSET Event] /\ granted' \in [Kinds -> SUBSET Event]
    BY <1>6, <1>i, <2>3, <2>4 DEF TypeOK, CheckLimiter
  <2> QED BY <1>6, <1>i, <2>2, <2>5 DEF TypeOK, CheckLimiter, Environment
<1>7. ASSUME NEW c \in Procs, Apply(c) PROVE TypeOK' /\ JobInv'
  <2>1. /\ pc' \in [Procs -> Steps]
        /\ job' \in [Procs -> Mutations \cup {NoMutation}]
        /\ last' \in [Procs -> Outcomes]
        /\ JobInv'
    BY <1>7, <1>i, <1>o, FinishType, GoToType DEF Apply
  <2> QED BY <1>7, <1>i, <2>1 DEF TypeOK, Apply, Environment, guards, history
<1>8. ASSUME NEW c \in Procs, RecordPolicyAction(c) PROVE TypeOK' /\ JobInv'
  <2>1. /\ pc' \in [Procs -> Steps]
        /\ job' \in [Procs -> Mutations \cup {NoMutation}]
        /\ last' \in [Procs -> Outcomes]
        /\ JobInv'
    BY <1>8, <1>i, <1>o, FinishType DEF RecordPolicyAction
  <2>2. hits' \in [Policies -> SUBSET Event] /\ counted' \in [Policies -> SUBSET Event]
    <3> DEFINE p == PolicyOf[job[c].wl]
    <3>1. CASE p # NoPolicy /\ MaxPerHour[p] > 0
      <4>1. p \in Policies
        BY <1>8, <1>i, <3>1, JobType DEF RecordPolicyAction
      <4>2. Now(counted[p]) \in Event
        BY <1>i, <1>n, <3>1, <4>1, NowType DEF BudgetInv, PolicyInv
      <4>3. /\ hits' = [hits EXCEPT ![p] = @ \cup {Now(counted[p])}]
            /\ counted' = [counted EXCEPT ![p] = @ \cup {Now(counted[p])}]
        BY <1>8, <3>1 DEF RecordPolicyAction
      <4> HIDE DEF p
      <4> QED BY <1>i, <4>1, <4>2, <4>3 DEF TypeOK
    <3>2. CASE ~(p # NoPolicy /\ MaxPerHour[p] > 0)
      BY <1>8, <1>i, <3>2 DEF TypeOK, RecordPolicyAction
    <3> QED BY <3>1, <3>2
  <2> QED BY <1>8, <1>i, <2>1, <2>2 DEF TypeOK, RecordPolicyAction, Environment
<1>9. ASSUME NEW wl \in Workloads, ForgetTrip(wl) PROVE TypeOK' /\ JobInv'
  BY <1>9, <1>i DEF TypeOK, JobInv, ForgetTrip, Environment, history
<1>10. CASE ReloadPolicy \/ Tick
  BY <1>10, <1>i, <1>n DEF TypeOK, JobInv, ReloadPolicy, Tick, guards, history
<1>11. CASE UNCHANGED vars
  BY <1>11, <1>i DEF TypeOK, JobInv, vars, guards, history
<1> QED BY <1>1, <1>2, <1>3, <1>4, <1>5, <1>6, <1>7, <1>8, <1>9, <1>10, <1>11 DEF Next, Step

--------------------------------------------------------------------------------
(* The rate limiters and the breaker. *)

(* Each guardrail is changed by its own check only, and no call moves the     *)
(* clock.                                                                    *)
LEMMA CallFrame ==
    ASSUME NEW c \in Procs, Step(c)
    PROVE  /\ clock' = clock
           /\ CheckLimiter(c) \/ UNCHANGED <<events, granted>>
           /\ CheckBreaker(c) \/ UNCHANGED <<actions, tripped, passed>>
           /\ CheckBlastRadius(c) \/ UNCHANGED <<touched, lastReset, spread>>
           /\ CheckPolicy(c) \/ RecordPolicyAction(c) \/ UNCHANGED hits
           /\ RecordPolicyAction(c) \/ UNCHANGED counted
<1>1. CASE Start(c) \/ CheckQuiet(c) \/ Apply(c)
  BY <1>1 DEF Start, CheckQuiet, Apply, Environment, guards, history
<1>2. CASE CheckBlastRadius(c)
  BY <1>2 DEF CheckBlastRadius, Environment
<1>3. CASE CheckPolicy(c)
  BY <1>3 DEF CheckPolicy, Environment, history
<1>4. CASE CheckBreaker(c)
  BY <1>4 DEF CheckBreaker, Environment
<1>5. CASE CheckLimiter(c)
  BY <1>5 DEF CheckLimiter, Environment
<1>6. CASE RecordPolicyAction(c)
  BY <1>6 DEF RecordPolicyAction, Environment
<1> QED BY <1>1, <1>2, <1>3, <1>4, <1>5, <1>6 DEF Step

(* A step that is no call leaves the guardrails alone, but for a forgotten    *)
(* trip, and the clock never goes back.                                      *)
LEMMA OtherFrame ==
    ASSUME TypeOK, [Next]_vars, \A c \in Procs : ~Step(c)
    PROVE  /\ clock' \in Nat /\ clock <= clock'
           /\ UNCHANGED <<events, granted, touched, lastReset, spread, hits, counted,
                          pc, job, passed>>
           /\ \/ \E wl \in Workloads : ForgetTrip(wl)
              \/ UNCHANGED <<actions, tripped>>
<1>n. clock \in Nat
  BY Numbers
<1>1. CASE \E wl \in Workloads : ForgetTrip(wl)
  <2>1. /\ clock' = clock
        /\ UNCHANGED <<events, granted, touched, lastReset, spread, hits, counted,
                       pc, job, passed>>
    BY <1>1 DEF ForgetTrip, Environment, history
  <2> QED BY <1>n, <1>1, <2>1
<1>2. CASE ReloadPolicy \/ Tick \/ UNCHANGED vars
  BY <1>n, <1>2 DEF ReloadPolicy, Tick, vars, guards, history
<1> QED BY <1>1, <1>2 DEF Next

(* A limiter that finds room in its window has room in every sliding window:  *)
(* one that holds this instant lies in its own, an earlier one does not grow. *)
LEMMA LimiterStep == IndInv /\ [Next]_vars => LimiterInv' /\ LimiterSliding'
<1> SUFFICES ASSUME IndInv, [Next]_vars PROVE LimiterInv' /\ LimiterSliding'
  OBVIOUS
<1>i. TypeOK /\ JobInv /\ LimiterInv /\ LimiterSliding
  BY DEF IndInv
<1>n. clock \in Nat /\ LimitWindow \in Nat /\ MaxClock \in Nat
  BY <1>i, Numbers
<1>m. \A k \in Kinds : MaxActions[k] \in Nat
  BY GateAssumption
<1>t. \A k \in Kinds : \A e \in granted[k] : e.t \in Nat
  BY <1>i DEF TypeOK, Event
<1>1. ASSUME NEW c \in Procs, CheckLimiter(c) PROVE LimiterInv' /\ LimiterSliding'
  <2> DEFINE kc == job[c].kind
             ev == Now(granted[kc])
  <2>k. kc \in Kinds
    BY <1>1, <1>i, JobType DEF CheckLimiter
  <2>e. ev.t = clock
    BY <1>i, <1>n, <2>k, NowType DEF LimiterInv
  <2>c. clock' = clock
    BY <1>1 DEF CheckLimiter, Environment
  <2>f. events \in [Kinds -> SUBSET Event] /\ granted \in [Kinds -> SUBSET Event]
    BY <1>i DEF TypeOK
  <2>w. /\ InWindow(kc) \subseteq granted[kc]
        /\ \A e \in granted[kc] : e.t >= clock - LimitWindow => e \in InWindow(kc)
    BY <1>i, <2>k DEF LimiterInv, InWindow
  <2>1. CASE Cardinality(InWindow(kc)) >= MaxActions[kc]
    <3>1. events' = [events EXCEPT ![kc] = InWindow(kc)] /\ granted' = granted
      BY <1>1, <2>1 DEF CheckLimiter
    <3> HIDE DEF kc, ev
    <3>2. LimiterInv'
      BY <1>i, <1>n, <1>t, <2>c, <2>f, <2>k, <2>w, <3>1 DEF LimiterInv
    <3>3. LimiterSliding'
      BY <1>i, <3>1 DEF LimiterSliding, Between
    <3> QED BY <3>2, <3>3
  <2>2. CASE ~(Cardinality(InWindow(kc)) >= MaxActions[kc])
    <3>1. /\ events' = [events EXCEPT ![kc] = InWindow(kc) \cup {ev}]
          /\ granted' = [granted EXCEPT ![kc] = @ \cup {ev}]
      BY <1>1, <2>2 DEF CheckLimiter
    <3> HIDE DEF kc, ev
    <3>2. IsFiniteSet(granted[kc]) /\ IsFiniteSet(granted[kc] \cup {ev})
      BY <1>i, <2>k, AddBound DEF LimiterInv
    <3>3. LimiterInv'
      BY <1>i, <1>n, <1>t, <2>c, <2>e, <2>f, <2>k, <2>w, <3>1, <3>2 DEF LimiterInv
    <3>4. ASSUME NEW a \in 0..MaxClock
          PROVE  Cardinality(Between(granted'[kc], a, a + LimitWindow + 1)) <= MaxActions[kc]
      <4>1. granted'[kc] = granted[kc] \cup {ev}
        BY <2>f, <2>k, <3>1
      <4>2. CASE a <= clock /\ clock < a + LimitWindow + 1
        <5>1. Between(granted'[kc], a, a + LimitWindow + 1) \subseteq InWindow(kc) \cup {ev}
          BY <1>n, <1>t, <2>k, <2>w, <4>1, <4>2 DEF Between
        <5>2. IsFiniteSet(InWindow(kc))
          BY <2>w, <3>2, SubsetBound
        <5>3. /\ IsFiniteSet(InWindow(kc) \cup {ev})
              /\ Cardinality(InWindow(kc)) \in Nat
              /\ Cardinality(InWindow(kc) \cup {ev}) \in Nat
              /\ Cardinality(InWindow(kc) \cup {ev}) <= Cardinality(InWindow(kc)) + 1
          BY <5>2, AddBound
        <5>4. /\ Cardinality(Between(granted'[kc], a, a + LimitWindow + 1)) \in Nat
              /\ Cardinality(Between(granted'[kc], a, a + LimitWindow + 1))
                   <= Cardinality(InWindow(kc) \cup {ev})
          BY <5>1, <5>3, SubsetBound
        <5> QED BY <1>m, <2>2, <2>k, <5>3, <5>4
      <4>3. CASE ~(a <= clock /\ clock < a + LimitWindow + 1)
        <5>1. Between(granted'[kc], a, a + LimitWindow + 1)
                = Between(granted[kc], a, a + LimitWindow + 1)
          BY <1>n, <2>e, <4>1, <4>3 DEF Between
        <5> QED BY <1>i, <2>k, <5>1 DEF LimiterSliding
      <4> QED BY <4>2, <4>3
    <3>5. LimiterSliding'
      BY <1>i, <2>f, <2>k, <3>1, <3>4 DEF LimiterSliding
    <3> QED BY <3>3, <3>5
  <2> QED BY <2>1, <2>2
<1>2. CASE UNCHANGED <<events, granted>> /\ clock' \in Nat /\ clock <= clock'
  <2>1. LimiterInv'
    BY <1>2, <1>i, <1>n, <1>t DEF LimiterInv
  <2>2. LimiterSliding'
    BY <1>2, <1>i DEF LimiterSliding, Between
  <2> QED BY <2>1, <2>2
<1> QED
  <2>1. CASE \E c \in Procs : Step(c)
    BY <1>1, <1>2, <1>n, <2>1, CallFrame
  <2>2. CASE \A c \in Procs : ~Step(c)
    BY <1>2, <1>i, <2>2, OtherFrame
  <2> QED BY <2>1, <2>2

(* What passes the breaker in an hour is among the actions it counts, and      *)
(* those stay below the threshold; a trip that is over is an hour old, so     *)
(* nothing that passed before it is still in the hour.                        *)
LEMMA BreakerStep == IndInv /\ [Next]_vars => BreakerInv' /\ BreakerSliding'
<1> SUFFICES ASSUME IndInv, [Next]_vars PROVE BreakerInv' /\ BreakerSliding'
  OBVIOUS
<1>i. TypeOK /\ JobInv /\ BreakerInv /\ BreakerSliding
  BY DEF IndInv
<1>n. clock \in Nat /\ Hour \in Nat /\ Hour > 0 /\ MaxClock \in Nat /\ Threshold \in Nat
  BY <1>i, Numbers
<1>t. /\ \A wl \in Workloads : tripped[wl] \in Int
      /\ \A wl \in Workloads : \A e \in passed[wl] : e.t \in Nat
  BY <1>i, Numbers DEF TypeOK, Event
<1>f. /\ actions \in [Workloads -> SUBSET Event] /\ passed \in [Workloads -> SUBSET Event]
      /\ tripped \in [Workloads -> 0..MaxClock \cup {Never}]
  BY <1>i DEF TypeOK
<1>1. ASSUME NEW c \in Procs, CheckBreaker(c) PROVE BreakerInv' /\ BreakerSliding'
  <2> DEFINE w    == job[c].wl
             ev   == Now(passed[w])
             acts == Counting(w) \cup {ev}
  <2>k. w \in Workloads
    BY <1>1, <1>i, JobType DEF CheckBreaker
  <2>e. ev.t = clock
    BY <1>i, <1>n, <2>k, NowType DEF BreakerInv
  <2>c. clock' = clock
    BY <1>1 DEF CheckBreaker, Environment
  <2>1. CASE StillTripped(w)
    <3>1. UNCHANGED <<actions, tripped, passed>>
      BY <1>1, <2>1 DEF CheckBreaker
    <3> QED BY <1>i, <2>c, <3>1 DEF BreakerInv, BreakerSliding, Between
  <2>2. CASE ~StillTripped(w)
    <3>1. actions' = [actions EXCEPT ![w] = acts]
      BY <1>1, <2>2 DEF CheckBreaker
    <3>2. /\ Counting(w) \subseteq passed[w]
          /\ \A e \in passed[w] : e.t > clock - Hour => e \in Counting(w)
      <4>1. CASE tripped[w] = Never
        BY <1>i, <2>k, <4>1 DEF BreakerInv, Counting
      <4>2. CASE tripped[w] # Never
        <5>1. tripped[w] <= clock - Hour
          BY <1>n, <1>t, <2>2, <2>k, <4>2 DEF StillTripped
        <5> QED BY <1>i, <1>n, <1>t, <2>k, <4>2, <5>1 DEF BreakerInv, Counting
      <4> QED BY <4>1, <4>2
    <3>3. CASE Cardinality(acts) >= Threshold
      <4>1. tripped' = [tripped EXCEPT ![w] = clock] /\ passed' = passed
        BY <1>1, <2>2, <3>3 DEF CheckBreaker
      <4> HIDE DEF w, ev, acts
      <4>2. BreakerInv'
        BY <1>i, <1>n, <1>f, <2>c, <2>k, <3>1, <4>1 DEF BreakerInv, Never
      <4>3. BreakerSliding'
        BY <1>i, <4>1 DEF BreakerSliding, Between
      <4> QED BY <4>2, <4>3
    <3>4. CASE ~(Cardinality(acts) >= Threshold)
      <4>1. /\ tripped' = [tripped EXCEPT ![w] = Never]
            /\ passed' = [passed EXCEPT ![w] = @ \cup {ev}]
        BY <1>1, <2>2, <3>4 DEF CheckBreaker
      <4>2. acts = Counting(w) \cup {ev}
        OBVIOUS
      <4> HIDE DEF w, ev, acts
      <4>3. IsFiniteSet(passed[w]) /\ IsFiniteSet(passed[w] \cup {ev})
        BY <1>i, <2>k, AddBound DEF BreakerInv
      <4>4. BreakerInv'
        BY <1>i, <1>n, <1>f, <1>t, <2>c, <2>e, <2>k, <3>1, <3>2, <4>1, <4>2, <4>3
           DEF BreakerInv, Never
      <4>5. ASSUME NEW a \in 0..MaxClock
            PROVE  Cardinality(Between(passed'[w], a, a + Hour)) < Threshold
        <5>1. passed'[w] = passed[w] \cup {ev}
          BY <1>f, <2>k, <4>1
        <5>2. CASE a <= clock /\ clock < a + Hour
          <6>1. Between(passed'[w], a, a + Hour) \subseteq acts
            BY <1>n, <1>t, <2>k, <3>2, <4>2, <5>1, <5>2 DEF Between
          <6>2. IsFiniteSet(acts)
            BY <3>2, <4>2, <4>3, SubsetBound, AddBound
          <6>3. /\ Cardinality(Between(passed'[w], a, a + Hour)) \in Nat
                /\ Cardinality(acts) \in Nat
                /\ Cardinality(Between(passed'[w], a, a + Hour)) <= Cardinality(acts)
            BY <6>1, <6>2, SubsetBound
          <6> QED BY <1>n, <3>4, <6>3
        <5>3. CASE ~(a <= clock /\ clock < a + Hour)
          <6>1. Between(passed'[w], a, a + Hour) = Between(passed[w], a, a + Hour)
            BY <1>n, <2>e, <5>1, <5>3 DEF Between
          <6> QED BY <1>i, <2>k, <6>1 DEF BreakerSliding
        <5> QED BY <5>2, <5>3
      <4>6. BreakerSliding'
        BY <1>i, <1>f, <2>k, <4>1, <4>5 DEF BreakerSliding
      <4> QED BY <4>4, <4>6
    <3> QED BY <3>3, <3>4
  <2> QED BY <2>1, <2>2
<1>2. ASSUME NEW w \in Workloads, ForgetTrip(w) PROVE BreakerInv' /\ BreakerSliding'
  <2>1. /\ tripped' = [tripped EXCEPT ![w] = Never]
        /\ actions' = [actions EXCEPT ![w] = {}]
        /\ passed' = passed /\ clock' = clock
    BY <1>2 DEF ForgetTrip, Environment, history
  <2>2. tripped[w] # Never /\ tripped[w] <= clock - Hour
    BY <1>n, <1>t, <1>2 DEF ForgetTrip, StillTripped
  <2>3. BreakerInv'
    BY <1>i, <1>n, <1>f, <1>t, <2>1, <2>2 DEF BreakerInv, Never
  <2> QED BY <1>i, <2>1, <2>3 DEF BreakerSliding, Between
<1>3. CASE UNCHANGED <<actions, tripped, passed>> /\ clock' \in Nat /\ clock <= clock'
  <2>1. BreakerInv'
    BY <1>3, <1>i, <1>n, <1>t DEF BreakerInv
  <2> QED BY <1>3, <1>i, <2>1 DEF BreakerSliding, Between
<1> QED
  <2>1. CASE \E c \in Procs : Step(c)
    BY <1>1, <1>3, <1>n, <2>1, CallFrame
  <2>2. CASE \A c \in Procs : ~Step(c)
    BY <1>2, <1>3, <1>i, <2>2, OtherFrame
  <2> QED BY <2>1, <2>2

--------------------------------------------------------------------------------
(* The blast radius. *)

(* Membership in the namespaces acted on between two instants. *)
LEMMA SpreadMember ==
    ASSUME NEW a, NEW b, NEW ns
    PROVE  ns \in SpreadIn(a, b) <=> \E x \in spread : a <= x[2] /\ x[2] < b /\ x[1] = ns
BY DEF SpreadIn

(* AllowAction's reset of an old window keeps what the tracker knows: the      *)
(* last hour of the old window is covered by the namespaces it held.          *)
LEMMA BlastReset ==
    ASSUME TypeOK, BlastInv, NEW r, r = IF WindowOver THEN clock ELSE lastReset
    PROVE  /\ r \in Nat /\ r <= clock /\ clock < r + Hour
           /\ IsFiniteSet(Touched) /\ Cardinality(Touched) <= MaxNamespaces
           /\ \A x \in spread : /\ x[2] < r + Hour
                                /\ x[2] >= r => x[1] \in Touched
           /\ \A ns \in Touched : \E x \in spread : x[1] = ns /\ x[2] >= r
           /\ \A a \in Int : a > r - Hour =>
                 /\ IsFiniteSet(SpreadIn(a, r))
                 /\ Cardinality(SpreadIn(a, r)) <= MaxNamespaces
<1>n. clock \in Nat /\ lastReset \in Nat /\ Hour \in Nat /\ Hour > 0 /\ MaxNamespaces \in Nat
  BY Numbers
<1>t. \A x \in spread : x[2] \in Nat
  BY DEF TypeOK
<1>1. CASE ~WindowOver
  BY <1>n, <1>1 DEF BlastInv, WindowOver, Touched
<1>2. CASE WindowOver
  <2>1. r = clock /\ Touched = {}
    BY <1>2 DEF Touched
  <2>2. lastReset + Hour <= clock
    BY <1>n, <1>2 DEF WindowOver
  <2>3. IsFiniteSet(Touched) /\ Cardinality(Touched) <= MaxNamespaces
    BY <1>n, <2>1, FS_EmptySet
  <2>4. \A x \in spread : x[2] < r
    BY <1>n, <1>t, <2>1, <2>2 DEF BlastInv
  <2>5. ASSUME NEW a \in Int, a > r - Hour
        PROVE  IsFiniteSet(SpreadIn(a, r)) /\ Cardinality(SpreadIn(a, r)) <= MaxNamespaces
    <3>1. a >= lastReset
      BY <1>n, <2>1, <2>2, <2>5
    <3>2. ASSUME NEW ns \in SpreadIn(a, r) PROVE ns \in touched
      <4>1. PICK x \in spread : a <= x[2] /\ x[1] = ns
        BY <3>2, SpreadMember
      <4> QED BY <1>n, <1>t, <3>1, <4>1 DEF BlastInv
    <3>3. SpreadIn(a, r) \in SUBSET touched
      BY <3>2
    <3>4. IsFiniteSet(touched) /\ Cardinality(touched) <= MaxNamespaces
      BY DEF BlastInv
    <3>5. /\ IsFiniteSet(SpreadIn(a, r))
          /\ Cardinality(SpreadIn(a, r)) \in Nat /\ Cardinality(touched) \in Nat
          /\ Cardinality(SpreadIn(a, r)) <= Cardinality(touched)
      BY <3>3, <3>4, SubsetBound
    <3> QED BY <1>n, <3>4, <3>5
  <2>6. r \in Nat /\ r <= clock /\ clock < r + Hour
    BY <1>n, <2>1
  <2>7. \A x \in spread : x[2] < r + Hour
    BY <1>n, <1>t, <2>1, <2>4
  <2>8. \A x \in spread : x[2] >= r => x[1] \in Touched
    BY <1>n, <1>t, <2>1, <2>4
  <2> QED BY <2>1, <2>3, <2>5, <2>6, <2>7, <2>8
<1> QED BY <1>1, <1>2

(* An hour that holds this instant is covered by the namespaces of the window *)
(* and those of the part of the hour before it.                               *)
LEMMA BlastStep == IndInv /\ [Next]_vars => BlastInv' /\ BlastTwoWindows'
<1> SUFFICES ASSUME IndInv, [Next]_vars PROVE BlastInv' /\ BlastTwoWindows'
  OBVIOUS
<1>i. TypeOK /\ JobInv /\ BlastInv /\ BlastTwoWindows
  BY DEF IndInv
<1>n. /\ clock \in Nat /\ lastReset \in Nat /\ MaxClock \in Nat
      /\ Hour \in Nat /\ Hour > 0 /\ MaxNamespaces \in Nat
  BY <1>i, Numbers
<1>t. \A x \in spread : x[2] \in Nat
  BY <1>i DEF TypeOK
<1>1. ASSUME NEW c \in Procs, CheckBlastRadius(c) PROVE BlastInv' /\ BlastTwoWindows'
  <2> DEFINE ns == NsOf[job[c].wl]
             r  == IF WindowOver THEN clock ELSE lastReset
  <2>1. lastReset' = r /\ clock' = clock
    BY <1>1 DEF CheckBlastRadius, Environment
  <2>2. /\ r \in Nat /\ r <= clock /\ clock < r + Hour
        /\ IsFiniteSet(Touched) /\ Cardinality(Touched) <= MaxNamespaces
        /\ \A x \in spread : /\ x[2] < r + Hour
                             /\ x[2] >= r => x[1] \in Touched
        /\ \A m \in Touched : \E x \in spread : x[1] = m /\ x[2] >= r
        /\ \A a \in Int : a > r - Hour =>
              /\ IsFiniteSet(SpreadIn(a, r))
              /\ Cardinality(SpreadIn(a, r)) <= MaxNamespaces
    BY <1>i, BlastReset
  <2>3. CASE ~BlastAllows(ns)
    <3>1. touched' = Touched /\ spread' = spread
      BY <1>1, <2>3 DEF CheckBlastRadius
    <3>3. ASSUME NEW a \in Int PROVE SpreadIn(a, lastReset)' = SpreadIn(a, r)
      BY <2>1, <3>1 DEF SpreadIn
    <3>4. \A x \in spread : x[2] <= clock
      BY <1>i DEF BlastInv
    <3> HIDE DEF r, ns
    <3>5. \A x \in spread' : /\ x[2] <= clock' /\ x[2] < lastReset' + Hour
                             /\ x[2] >= lastReset' => x[1] \in touched'
      BY <1>n, <1>t, <2>1, <2>2, <3>1, <3>4
    <3>6. \A m \in touched' : \E x \in spread' : x[1] = m /\ x[2] >= lastReset'
      BY <2>1, <2>2, <3>1
    <3>7. BlastInv'
      BY <2>1, <2>2, <3>1, <3>3, <3>5, <3>6 DEF BlastInv
    <3>8. BlastTwoWindows'
      BY <1>i, <3>1 DEF BlastTwoWindows, SpreadIn
    <3> QED BY <3>7, <3>8
  <2>4. CASE BlastAllows(ns)
    <3>1. touched' = Touched \cup {ns} /\ spread' = spread \cup {<<ns, clock>>}
      BY <1>1, <2>4 DEF CheckBlastRadius
    <3>2. IsFiniteSet(touched') /\ Cardinality(touched') <= MaxNamespaces
      <4>1. /\ IsFiniteSet(touched')
            /\ Cardinality(Touched) \in Nat /\ Cardinality(touched') \in Nat
            /\ Cardinality(touched') <= Cardinality(Touched) + 1
        BY <2>2, <3>1, AddBound
      <4>2. CASE ns \in Touched
        <5>1. touched' = Touched
          BY <3>1, <4>2
        <5> QED BY <2>2, <5>1
      <4>3. CASE Cardinality(Touched) < MaxNamespaces
        BY <1>n, <4>1, <4>3
      <4> QED BY <2>4, <4>2, <4>3 DEF BlastAllows
    <3>3. ASSUME NEW a \in Int PROVE SpreadIn(a, lastReset)' = SpreadIn(a, r)
      BY <1>n, <2>1, <2>2, <3>1 DEF SpreadIn
    <3>4. \A x \in spread : x[2] <= clock
      BY <1>i DEF BlastInv
    <3> HIDE DEF r, ns
    <3>5. \A x \in spread' : /\ x[2] <= clock' /\ x[2] < lastReset' + Hour
                             /\ x[2] >= lastReset' => x[1] \in touched'
      BY <1>n, <1>t, <2>1, <2>2, <3>1, <3>4
    <3>6. ASSUME NEW m \in touched' PROVE \E x \in spread' : x[1] = m /\ x[2] >= lastReset'
      <4>1. CASE m \in Touched
        BY <2>1, <2>2, <3>1, <4>1
      <4>2. CASE m = ns
        <5>1. <<ns, clock>>[1] = m /\ <<ns, clock>>[2] >= lastReset'
          BY <1>n, <2>1, <2>2, <4>2
        <5> QED BY <3>1, <5>1
      <4> QED BY <3>1, <4>1, <4>2
    <3>7. BlastInv'
      BY <2>1, <2>2, <3>2, <3>3, <3>5, <3>6 DEF BlastInv
    <3>8. ASSUME NEW a \in 0..MaxClock
          PROVE  (Cardinality(SpreadIn(a, a + Hour)) <= 2 * MaxNamespaces)'
      <4>1. CASE a <= clock /\ clock < a + Hour
        <5>1. a > r - Hour /\ a \in Int
          BY <1>n, <2>2, <4>1
        <5>2. ASSUME NEW m \in SpreadIn(a, a + Hour)' PROVE m \in SpreadIn(a, r) \cup touched'
          <6>1. PICK x \in spread' : a <= x[2] /\ x[1] = m
            BY <5>2 DEF SpreadIn
          <6>2. CASE x = <<ns, clock>>
            BY <3>1, <6>1, <6>2
          <6>3. CASE x \in spread /\ x[2] < r
            BY <6>1, <6>3, SpreadMember
          <6>4. CASE x \in spread /\ x[2] >= r
            <7>1. x[1] \in Touched
              BY <2>2, <6>4
            <7> QED BY <3>1, <6>1, <7>1
          <6> QED BY <1>t, <2>2, <3>1, <6>1, <6>2, <6>3, <6>4
        <5>3. SpreadIn(a, a + Hour)' \in SUBSET (SpreadIn(a, r) \cup touched')
          BY <5>2
        <5>4. IsFiniteSet(SpreadIn(a, r)) /\ Cardinality(SpreadIn(a, r)) <= MaxNamespaces
          BY <2>2, <5>1
        <5>5. /\ Cardinality(SpreadIn(a, a + Hour)') \in Nat
              /\ Cardinality(SpreadIn(a, r)) \in Nat /\ Cardinality(touched') \in Nat
              /\ Cardinality(SpreadIn(a, a + Hour)')
                   <= Cardinality(SpreadIn(a, r)) + Cardinality(touched')
          BY <3>2, <5>3, <5>4, UnionBound, FS_CardinalityType
        <5> QED BY <1>n, <3>2, <5>4, <5>5
      <4>2. CASE ~(a <= clock /\ clock < a + Hour)
        <5>1. SpreadIn(a, a + Hour)' = SpreadIn(a, a + Hour)
          BY <1>n, <3>1, <4>2 DEF SpreadIn
        <5> QED BY <1>i, <5>1 DEF BlastTwoWindows
      <4> QED BY <4>1, <4>2
    <3>9. BlastTwoWindows'
      BY <3>8 DEF BlastTwoWindows
    <3> QED BY <3>7, <3>9
  <2> QED BY <2>3, <2>4
<1>2. CASE UNCHANGED <<touched, lastReset, spread>> /\ clock' \in Nat /\ clock <= clock'
  <2>1. \A a, b : SpreadIn(a, b)' = SpreadIn(a, b)
    BY <1>2 DEF SpreadIn
  <2>2. BlastInv'
    BY <1>2, <1>i, <1>n, <1>t, <2>1 DEF BlastInv
  <2>3. BlastTwoWindows'
    BY <1>i, <2>1 DEF BlastTwoWindows
  <2> QED BY <2>2, <2>3
<1> QED
  <2>1. CASE \E c \in Procs : Step(c)
    BY <1>1, <1>2, <1>n, <2>1, CallFrame
  <2>2. CASE \A c \in Procs : ~Step(c)
    BY <1>2, <1>i, <2>2, OtherFrame
  <2> QED BY <2>1, <2>2

--------------------------------------------------------------------------------
(* The budget of a policy. *)

(* A call gets between policyRefusal and recordPolicyAction only by being let  *)
(* pass by policyRefusal.                                                     *)
LEMMA AskedShrinks ==
    ASSUME TypeOK, NEW c \in Procs, Step(c), NEW p \in Policies,
           ~(CheckPolicy(c) /\ ~PolicyRefuses(job[c]) /\ PolicyOf[job[c].wl] = p)
    PROVE  Asked(p)' \subseteq Asked(p)
<1>f. pc \in [Procs -> Steps] /\ job \in [Procs -> Mutations \cup {NoMutation}]
  BY DEF TypeOK
<1>1. ASSUME NEW out, Finish(c, out) PROVE Asked(p)' \subseteq Asked(p)
  BY <1>f, <1>1 DEF Asked, Finish
<1>2. ASSUME NEW s, GoTo(c, s),
             \/ s \in {"policy", "blast"}
             \/ pc[c] \in {"breaker", "limit", "apply", "record"}
      PROVE  Asked(p)' \subseteq Asked(p)
  BY <1>f, <1>2 DEF Asked, GoTo
<1>3. CASE Start(c)
  <2>1. CASE pc' = [pc EXCEPT ![c] = "quiet"] /\ \E m \in Mutations : job' = [job EXCEPT ![c] = m]
    BY <1>f, <2>1 DEF Asked
  <2> QED BY <1>1, <1>3, <2>1 DEF Start
<1>4. CASE CheckQuiet(c)
  BY <1>1, <1>2, <1>4 DEF CheckQuiet
<1>5. CASE CheckBlastRadius(c)
  BY <1>1, <1>2, <1>5 DEF CheckBlastRadius
<1>6. CASE CheckPolicy(c)
  <2>1. CASE PolicyRefuses(job[c])
    BY <1>1, <1>6, <2>1 DEF CheckPolicy
  <2>2. CASE ~PolicyRefuses(job[c]) /\ PolicyOf[job[c].wl] # p
    <3>1. GoTo(c, "limit") \/ GoTo(c, "breaker")
      BY <1>6, <2>2 DEF CheckPolicy
    <3> QED BY <1>f, <2>2, <3>1 DEF Asked, GoTo
  <2> QED BY <1>6, <2>1, <2>2
<1>7. CASE CheckBreaker(c)
  BY <1>1, <1>2, <1>7 DEF CheckBreaker
<1>8. CASE CheckLimiter(c)
  BY <1>1, <1>2, <1>8 DEF CheckLimiter
<1>9. CASE Apply(c) \/ RecordPolicyAction(c)
  BY <1>1, <1>2, <1>9 DEF Apply, RecordPolicyAction
<1> QED BY <1>3, <1>4, <1>5, <1>6, <1>7, <1>8, <1>9 DEF Step

(* The callers asked are some of the callers. *)
LEMMA AskedBound ==
    ASSUME NEW p
    PROVE  /\ IsFiniteSet(Asked(p)) /\ IsFiniteSet(Asked(p)') /\ Cardinality(Procs) \in Nat
           /\ Cardinality(Asked(p)) \in Nat /\ Cardinality(Asked(p)) <= Cardinality(Procs)
           /\ Cardinality(Asked(p)') \in Nat /\ Cardinality(Asked(p)') <= Cardinality(Procs)
<1>1. Asked(p) \in SUBSET Procs /\ Asked(p)' \in SUBSET Procs
  BY DEF Asked
<1>2. IsFiniteSet(Procs)
  BY GateAssumption
<1> QED BY <1>1, <1>2, SubsetBound

(* The hits of the last hour with the calls that may still be counted stay    *)
(* within the bound: policyRefusal lets a call pass only while the hits are   *)
(* below the maximum, whatever the others are doing, and recordPolicyAction   *)
(* turns a call into a hit.                                                   *)
LEMMA BudgetStep == IndInv /\ [Next]_vars => BudgetInv'
<1> SUFFICES ASSUME IndInv, [Next]_vars, NEW p \in Policies, MaxPerHour[p] > 0
             PROVE  PolicyInv(p)'
  BY DEF BudgetInv
<1>i. TypeOK /\ JobInv /\ BudgetInv
  BY DEF IndInv
<1>p. PolicyInv(p)
  BY <1>i DEF BudgetInv
<1>n. clock \in Nat /\ Hour \in Nat /\ Hour > 0 /\ MaxPerHour[p] \in Nat
  BY <1>i, Numbers, GateAssumption
<1>t. /\ hits \in [Policies -> SUBSET Event] /\ counted \in [Policies -> SUBSET Event]
      /\ \A e \in counted[p] : e.t \in Nat
  BY <1>i DEF TypeOK, Event
<1>r. /\ IsFiniteSet(Recent(counted[p])) /\ Cardinality(Recent(counted[p])) \in Nat
      /\ Recent(counted[p]) = Recent(hits[p])
  <2>1. Recent(counted[p]) \in SUBSET counted[p]
    BY DEF Recent
  <2> QED BY <1>p, <2>1, SubsetBound DEF PolicyInv, Recent
<1>1. ASSUME counted'[p] = counted[p], hits'[p] = hits[p] \/ hits'[p] = Recent(hits[p]),
             clock' \in Nat, clock <= clock', hits'[p] = hits[p] \/ clock' = clock,
             \/ Asked(p)' \subseteq Asked(p)
             \/ Cardinality(Recent(hits[p])) < MaxPerHour[p]
      PROVE  PolicyInv(p)'
  <2>1. /\ IsFiniteSet(counted'[p])
        /\ hits'[p] \subseteq counted'[p]
        /\ \A e \in counted'[p] : /\ e.t <= clock'
                                  /\ clock' - e.t < Hour => e \in hits'[p]
    BY <1>1, <1>n, <1>p, <1>t DEF PolicyInv, Recent
  <2>2. Recent(counted[p])' \in SUBSET Recent(counted[p])
    BY <1>1, <1>n, <1>t DEF Recent
  <2>3. /\ Cardinality(Recent(counted[p])') \in Nat
        /\ Cardinality(Recent(counted[p])') <= Cardinality(Recent(counted[p]))
    BY <1>r, <2>2, SubsetBound
  <2>4. Cardinality(Recent(counted[p])') + Cardinality(Asked(p)')
          <= MaxPerHour[p] + Cardinality(Procs) - 1
    <3>1. CASE Asked(p)' \subseteq Asked(p)
      <4>1. Cardinality(Asked(p)') <= Cardinality(Asked(p))
        BY <3>1, AskedBound, SubsetBound
      <4> QED BY <1>n, <1>p, <1>r, <2>3, <4>1, AskedBound DEF PolicyInv
    <3>2. CASE Cardinality(Recent(hits[p])) < MaxPerHour[p]
      BY <1>n, <1>r, <2>3, <3>2, AskedBound
    <3> QED BY <1>1, <3>1, <3>2
  <2> QED BY <2>1, <2>4 DEF PolicyInv
<1>2. ASSUME NEW c \in Procs, CheckPolicy(c) PROVE PolicyInv(p)'
  <2> DEFINE q == PolicyOf[job[c].wl]
  <2>q. job[c] \in Mutations
    BY <1>2, <1>i, JobType DEF CheckPolicy
  <2>1. clock' = clock /\ counted' = counted
    BY <1>2 DEF CheckPolicy, Environment, history
  <2>2. \/ hits' = hits
        \/ q # NoPolicy /\ hits' = [hits EXCEPT ![q] = Recent(@)]
    BY <1>2 DEF CheckPolicy, AsksBudget
  <2>3. hits'[p] = hits[p] \/ hits'[p] = Recent(hits[p])
    <3> HIDE DEF q
    <3> QED BY <1>t, <2>2
  <2>4. CASE ~PolicyRefuses(job[c]) /\ q = p
    <3>1. ~(Cardinality(Recent(hits[p])) >= MaxPerHour[p])
      BY <1>n, <2>4, GateAssumption DEF PolicyRefuses
    <3>2. Cardinality(Recent(hits[p])) < MaxPerHour[p]
      BY <1>n, <1>r, <3>1
    <3> QED BY <1>1, <1>n, <2>1, <2>3, <3>2
  <2>5. CASE ~(~PolicyRefuses(job[c]) /\ q = p)
    <3>1. Asked(p)' \subseteq Asked(p)
      BY <1>2, <1>i, <2>5, AskedShrinks DEF Step
    <3> QED BY <1>1, <1>n, <2>1, <2>3, <3>1
  <2> QED BY <2>4, <2>5
<1>3. ASSUME NEW c \in Procs, RecordPolicyAction(c) PROVE PolicyInv(p)'
  <2> DEFINE q  == PolicyOf[job[c].wl]
             ev == Now(counted[q])
  <2>1. clock' = clock
    BY <1>3 DEF RecordPolicyAction, Environment
  <2>2. Asked(p)' \subseteq Asked(p)
    BY <1>3, <1>i, AskedShrinks DEF Step, RecordPolicyAction, CheckPolicy
  <2>3. CASE q # p
    <3>1. \/ UNCHANGED <<hits, counted>>
          \/ /\ hits' = [hits EXCEPT ![q] = @ \cup {ev}]
             /\ counted' = [counted EXCEPT ![q] = @ \cup {ev}]
      BY <1>3 DEF RecordPolicyAction
    <3> HIDE DEF q, ev
    <3>2. hits'[p] = hits[p] /\ counted'[p] = counted[p]
      BY <1>t, <2>3, <3>1
    <3> QED BY <1>1, <1>n, <2>1, <2>2, <3>2
  <2>4. CASE q = p
    <3>1. /\ hits' = [hits EXCEPT ![p] = @ \cup {ev}]
          /\ counted' = [counted EXCEPT ![p] = @ \cup {ev}]
      BY <1>3, <2>4, GateAssumption DEF RecordPolicyAction
    <3>2. hits'[p] = hits[p] \cup {ev} /\ counted'[p] = counted[p] \cup {ev}
      <4> HIDE DEF q, ev
      <4> QED BY <1>t, <3>1
    <3>3. ev.t = clock
      BY <1>n, <1>p, <2>4, NowType DEF PolicyInv
    <3>4. c \in Asked(p) /\ c \notin Asked(p)'
      <4>1. pc[c] = "record" /\ job[c] \in Mutations
        BY <1>3, <1>i, JobType DEF RecordPolicyAction
      <4>2. pc'[c] = "idle"
        BY <1>3, <1>i DEF RecordPolicyAction, Finish, TypeOK
      <4> QED BY <2>4, <4>1, <4>2 DEF Asked
    <3> HIDE DEF q, ev
    <3>5. /\ hits'[p] \subseteq counted'[p]
          /\ \A e \in counted'[p] : /\ e.t <= clock'
                                    /\ clock' - e.t < Hour => e \in hits'[p]
      BY <1>n, <1>p, <1>t, <2>1, <3>2, <3>3 DEF PolicyInv
    <3>6. IsFiniteSet(counted'[p])
      BY <1>p, <3>2, AddBound DEF PolicyInv
    <3>7. Recent(counted[p])' \in SUBSET (Recent(counted[p]) \cup {ev})
      BY <2>1, <3>2 DEF Recent
    <3>8. /\ Cardinality(Recent(counted[p])') \in Nat
          /\ Cardinality(Recent(counted[p])') <= Cardinality(Recent(counted[p])) + 1
      <4>1. /\ IsFiniteSet(Recent(counted[p]) \cup {ev})
            /\ Cardinality(Recent(counted[p]) \cup {ev}) \in Nat
            /\ Cardinality(Recent(counted[p]) \cup {ev}) <= Cardinality(Recent(counted[p])) + 1
        BY <1>r, AddBound
      <4>2. /\ Cardinality(Recent(counted[p])') \in Nat
            /\ Cardinality(Recent(counted[p])') <= Cardinality(Recent(counted[p]) \cup {ev})
        BY <3>7, <4>1, SubsetBound
      <4> QED BY <1>r, <4>1, <4>2
    <3>9. Cardinality(Asked(p)') <= Cardinality(Asked(p)) - 1
      <4>1. Asked(p)' \in SUBSET (Asked(p) \ {c})
        BY <2>2, <3>4
      <4>2. /\ IsFiniteSet(Asked(p) \ {c})
            /\ Cardinality(Asked(p) \ {c}) = Cardinality(Asked(p)) - 1
        BY <3>4, AskedBound, FS_RemoveElement
      <4> QED BY <4>1, <4>2, AskedBound, SubsetBound
    <3>10. Cardinality(Recent(counted[p])') + Cardinality(Asked(p)')
             <= MaxPerHour[p] + Cardinality(Procs) - 1
      BY <1>n, <1>p, <1>r, <3>8, <3>9, AskedBound DEF PolicyInv
    <3> QED BY <3>5, <3>6, <3>10 DEF PolicyInv
  <2> QED BY <2>3, <2>4
<1>4. ASSUME NEW c \in Procs, Step(c), ~CheckPolicy(c), ~RecordPolicyAction(c)
      PROVE  PolicyInv(p)'
  <2>1. clock' = clock /\ hits' = hits /\ counted' = counted
    BY <1>4, CallFrame
  <2>2. Asked(p)' \subseteq Asked(p)
    BY <1>4, <1>i, AskedShrinks
  <2> QED BY <1>1, <1>n, <2>1, <2>2
<1>5. CASE \A c \in Procs : ~Step(c)
  <2>1. clock' \in Nat /\ clock <= clock' /\ UNCHANGED <<hits, counted, pc, job>>
    BY <1>5, <1>i, OtherFrame
  <2>2. Asked(p)' = Asked(p)
    BY <2>1 DEF Asked
  <2> QED BY <1>1, <2>1, <2>2
<1> QED BY <1>2, <1>3, <1>4, <1>5

(* An hour that is not over lies in the hour the budget counts. *)
LEMMA OvershootStep == IndInv /\ [Next]_vars => BudgetOvershoot'
<1> SUFFICES ASSUME IndInv, [Next]_vars, NEW p \in Policies, MaxPerHour[p] > 0,
                    NEW a \in 0..MaxClock
             PROVE  Cardinality(Between(counted'[p], a, a + Hour))
                      <= MaxPerHour[p] + Cardinality(Procs) - 1
  BY DEF BudgetOvershoot
<1>i. TypeOK /\ JobInv /\ BudgetInv /\ BudgetOvershoot
  BY DEF IndInv
<1>p. PolicyInv(p) /\ PolicyInv(p)'
  BY <1>i, BudgetStep DEF BudgetInv
<1>n. /\ clock \in Nat /\ clock' \in Nat /\ Hour \in Nat /\ MaxPerHour[p] \in Nat
      /\ MaxClock \in Nat
  <2>1. TypeOK'
    BY TypeStep
  <2> QED BY <1>i, <2>1, Numbers, GateAssumption DEF TypeOK
<1>t. /\ counted \in [Policies -> SUBSET Event] /\ \A e \in counted'[p] : e.t \in Nat
  BY <1>i, TypeStep DEF TypeOK, Event
<1>1. CASE clock' < a + Hour
  <2>1. Between(counted'[p], a, a + Hour) \in SUBSET Recent(counted[p])'
    BY <1>1, <1>n, <1>t DEF Between, Recent
  <2>2. Recent(counted[p])' \in SUBSET counted'[p]
    BY DEF Recent
  <2>3. /\ Cardinality(Between(counted'[p], a, a + Hour)) \in Nat
        /\ Cardinality(Recent(counted[p])') \in Nat
        /\ Cardinality(Between(counted'[p], a, a + Hour)) <= Cardinality(Recent(counted[p])')
    BY <1>p, <2>1, <2>2, SubsetBound DEF PolicyInv
  <2> QED BY <1>n, <1>p, <2>3, AskedBound DEF PolicyInv
<1>2. CASE ~(clock' < a + Hour)
  <2>1. \/ counted'[p] = counted[p]
        \/ \E e : counted'[p] = counted[p] \cup {e} /\ e.t = clock'
    <3>1. ASSUME NEW c \in Procs, RecordPolicyAction(c),
                 NEW q, q = PolicyOf[job[c].wl], NEW ev, ev = Now(counted[q])
          PROVE  \/ counted'[p] = counted[p]
                 \/ counted'[p] = counted[p] \cup {ev} /\ ev.t = clock'
      <4>1. clock' = clock
        BY <3>1 DEF RecordPolicyAction, Environment
      <4>2. counted' = counted \/ counted' = [counted EXCEPT ![q] = @ \cup {ev}]
        BY <3>1 DEF RecordPolicyAction
      <4>3. CASE q = p
        <5>1. ev.t = clock
          BY <1>n, <1>p, <3>1, <4>3, NowType DEF PolicyInv
        <5> QED BY <1>t, <4>1, <4>2, <4>3, <5>1
      <4>4. CASE q # p
        BY <1>t, <4>2, <4>4
      <4> QED BY <4>3, <4>4
    <3>2. ASSUME \A c \in Procs : ~RecordPolicyAction(c) PROVE counted' = counted
      BY <1>i, <3>2, CallFrame, OtherFrame
    <3> QED BY <3>1, <3>2
  <2>2. Between(counted'[p], a, a + Hour) = Between(counted[p], a, a + Hour)
    BY <1>n, <1>2, <2>1 DEF Between
  <2> QED BY <1>i, <2>2 DEF BudgetOvershoot
<1> QED BY <1>1, <1>2

--------------------------------------------------------------------------------
(* The theorems. *)

(* A process starts with empty guardrails. *)
LEMMA InitInv == Init => IndInv
<1> SUFFICES ASSUME Init PROVE IndInv
  OBVIOUS
<1>z. IsFiniteSet({}) /\ Cardinality({}) = 0
  BY FS_EmptySet
<1>1. TypeOK /\ JobInv
  BY GateAssumption DEF Init, TypeOK, JobInv, Steps, Outcomes
<1>n. /\ clock \in Nat /\ lastReset \in Nat /\ MaxClock \in Nat
      /\ Hour \in Nat /\ LimitWindow \in Nat /\ Threshold \in Nat /\ Threshold > 0
      /\ MaxNamespaces \in Nat
      /\ \A k \in Kinds : MaxActions[k] \in Nat
      /\ \A p \in Policies : MaxPerHour[p] \in Nat
  BY <1>1, Numbers, GateAssumption
<1>2. LimiterInv
  BY <1>z DEF Init, LimiterInv
<1>3. LimiterSliding
  <2>1. \A k \in Kinds : \A a, b : Between(granted[k], a, b) = {}
    BY DEF Init, Between
  <2> QED BY <1>n, <1>z, <2>1 DEF LimiterSliding
<1>4. BreakerInv
  BY <1>n, <1>z DEF Init, BreakerInv, Never
<1>5. BreakerSliding
  <2>1. \A wl \in Workloads : \A a, b : Between(passed[wl], a, b) = {}
    BY DEF Init, Between
  <2> QED BY <1>n, <1>z, <2>1 DEF BreakerSliding
<1>s. \A a, b : SpreadIn(a, b) = {}
  BY DEF Init, SpreadIn
<1>6. BlastInv
  <2>1. touched = {} /\ spread = {} /\ lastReset <= clock
    BY <1>n DEF Init
  <2>2. IsFiniteSet(touched) /\ Cardinality(touched) <= MaxNamespaces
    BY <1>n, <1>z, <2>1
  <2>3. ASSUME NEW a \in Int
        PROVE  /\ IsFiniteSet(SpreadIn(a, lastReset))
               /\ Cardinality(SpreadIn(a, lastReset)) <= MaxNamespaces
    <3>1. SpreadIn(a, lastReset) = {}
      BY <1>s
    <3> QED BY <1>n, <1>z, <3>1
  <2> QED BY <2>1, <2>2, <2>3 DEF BlastInv
<1>7. BlastTwoWindows
  <2>1. 0 <= 2 * MaxNamespaces
    BY <1>n
  <2> QED BY <1>s, <1>z, <2>1 DEF BlastTwoWindows
<1>8. ASSUME NEW p \in Policies, MaxPerHour[p] > 0
      PROVE  /\ PolicyInv(p)
             /\ \A a \in 0..MaxClock : Cardinality(Between(counted[p], a, a + Hour))
                                          <= MaxPerHour[p] + Cardinality(Procs) - 1
  <2>1. counted[p] = {} /\ hits[p] = {}
    BY DEF Init
  <2>2. Recent(counted[p]) = {} /\ \A a, b : Between(counted[p], a, b) = {}
    BY <2>1 DEF Recent, Between
  <2>3. Asked(p) = {}
    BY DEF Init, Asked
  <2>4. Cardinality(Procs) \in Nat
    BY AskedBound
  <2>5. 0 <= MaxPerHour[p] + Cardinality(Procs) - 1
    BY <1>8, <1>n, <2>4
  <2>6. PolicyInv(p)
    BY <1>z, <2>1, <2>2, <2>3, <2>5 DEF PolicyInv
  <2> QED BY <1>z, <2>2, <2>5, <2>6
<1>9. BudgetInv /\ BudgetOvershoot
  BY <1>8 DEF BudgetInv, BudgetOvershoot
<1> QED BY <1>1, <1>2, <1>3, <1>4, <1>5, <1>6, <1>7, <1>9 DEF IndInv

(* The invariant holds of every behaviour of the gate. *)
THEOREM Invariance == Spec => []IndInv
<1>1. IndInv /\ [Next]_vars => IndInv'
  BY TypeStep, LimiterStep, BreakerStep, BlastStep, BudgetStep, OvershootStep DEF IndInv
<1> QED BY <1>1, InitInv, PTL DEF Spec

(* Whatever the callers of applyMutation do, every variable keeps its shape. *)
THEOREM TypeCorrect == Spec => []TypeOK
BY Invariance, PTL DEF IndInv

(* In any sliding window ActionLimiter lets at most its maximum pass and       *)
(* CircuitBreaker fewer than its threshold for a workload.                    *)
THEOREM LimitsHold == Spec => []SlidingLimits
<1>1. IndInv => SlidingLimits
  BY DEF IndInv, SlidingLimits
<1> QED BY <1>1, Invariance, PTL

(* BlastRadiusTracker lets any hour touch twice its maximum of namespaces at   *)
(* most, though its window is reset only by an action.                        *)
THEOREM BlastHolds == Spec => []BlastTwoWindows
<1>1. IndInv => BlastTwoWindows
  BY DEF IndInv
<1> QED BY <1>1, Invariance, PTL

(* maxActionsPerHour of a policy is passed by at most one action per other     *)
(* caller, for any number of callers between policyRefusal and                *)
(* recordPolicyAction.                                                        *)
THEOREM BudgetHolds == Spec => []BudgetOvershoot
<1>1. IndInv => BudgetOvershoot
  BY DEF IndInv
<1> QED BY <1>1, Invariance, PTL

(* In every state SimulateAction and the guardrails of applyMutation answer    *)
(* alike for every change, but for the housekeeping that only dry-run holds    *)
(* back and for the fix that would trip the breaker.                           *)
THEOREM DryRunAgrees == Spec => []DryRunForesees
<1>1. ASSUME NEW m \in Mutations
      PROVE  WouldAllow(NsOf[m.wl]) <=> BlastAllows(NsOf[m.wl])
  <2>n. MaxNamespaces \in Nat
    BY GateAssumption
  <2>1. CASE WindowOver
    <3>1. Touched = {} /\ Cardinality(Touched) = 0
      BY <2>1, FS_EmptySet DEF Touched
    <3> QED BY <2>n, <2>1, <3>1 DEF WouldAllow, BlastAllows
  <2>2. CASE ~WindowOver
    BY <2>2 DEF Touched, WouldAllow, BlastAllows
  <2> QED BY <2>1, <2>2
<1>2. DryRunForesees
  <2> SUFFICES ASSUME NEW m \in Mutations
               PROVE  /\ DryRunBlocks(m) => GuardrailsBlock(m) \/ OnlySimulated(m)
                      /\ GuardrailsBlock(m) => DryRunBlocks(m) \/ WouldTrip(m)
    BY DEF DryRunForesees
  <2>k. m.kind = "fix" \/ m.kind = "housekeeping"
    BY GateAssumption DEF Kinds
  <2>1. ASSUME DryRunBlocks(m) PROVE GuardrailsBlock(m) \/ OnlySimulated(m)
    BY <1>1, <2>k, <2>1 DEF DryRunBlocks, GuardrailsBlock, OnlySimulated
  <2>2. ASSUME GuardrailsBlock(m) PROVE DryRunBlocks(m) \/ WouldTrip(m)
    BY <1>1, <2>2 DEF DryRunBlocks, GuardrailsBlock, WouldTrip
  <2> QED BY <2>1, <2>2
<1> QED BY <1>2, PTL

(* A limiter that refuses a fix has granted its maximum in the window, and a   *)
(* blast radius that refuses one has its maximum of namespaces in the hour.   *)
LEMMA RefusalStep ==
    ASSUME IndInv, [Next]_vars, NEW c \in Procs
    PROVE  /\ pc[c] = "limit" /\ pc'[c] = "idle" /\ job[c].kind = "fix" =>
                 Cardinality(Between(granted["fix"], clock - LimitWindow, clock + 1))
                   >= MaxActions["fix"]
           /\ pc[c] = "blast" /\ pc'[c] = "idle" =>
                 Cardinality(SpreadIn(clock - Hour + 1, clock + 1)) >= MaxNamespaces
<1>i. TypeOK /\ JobInv /\ LimiterInv /\ BlastInv
  BY DEF IndInv
<1>n. /\ clock \in Nat /\ lastReset \in Nat /\ LimitWindow \in Nat
      /\ Hour \in Nat /\ Hour > 0 /\ MaxNamespaces \in Nat /\ MaxActions["fix"] \in Nat
  BY <1>i, Numbers, GateAssumption DEF Kinds
<1>m. ASSUME pc[c] # "idle", pc'[c] = "idle" PROVE Step(c)
  <2>1. ASSUME NEW d \in Procs, Step(d), d # c PROVE pc'[c] = pc[c]
    <3>1. \E s : pc' = [pc EXCEPT ![d] = s]
      BY <2>1 DEF Step, Start, CheckQuiet, CheckBlastRadius, CheckPolicy, CheckBreaker,
                  CheckLimiter, Apply, RecordPolicyAction, Finish, GoTo
    <3> QED BY <1>i, <2>1, <3>1 DEF TypeOK
  <2> QED BY <1>m, <1>i, <2>1, OtherFrame
<1>1. ASSUME pc[c] = "limit", pc'[c] = "idle", job[c].kind = "fix"
      PROVE  Cardinality(Between(granted["fix"], clock - LimitWindow, clock + 1))
               >= MaxActions["fix"]
  <2> DEFINE B == Between(granted["fix"], clock - LimitWindow, clock + 1)
  <2>1. CheckLimiter(c)
    BY <1>1, <1>m DEF Step, Start, CheckQuiet, CheckBlastRadius, CheckPolicy, CheckBreaker,
                      Apply, RecordPolicyAction
  <2>2. Cardinality(InWindow("fix")) >= MaxActions["fix"]
    <3>1. ~GoTo(c, "apply")
      BY <1>1, <1>i DEF GoTo, TypeOK
    <3> QED BY <1>1, <2>1, <3>1 DEF CheckLimiter
  <2>3. "fix" \in Kinds
    BY DEF Kinds
  <2>4. \A e \in granted["fix"] : e.t \in Nat
    BY <1>i, <2>3 DEF TypeOK, Event
  <2>5. InWindow("fix") \in SUBSET B /\ B \in SUBSET granted["fix"]
    BY <1>i, <1>n, <2>3, <2>4 DEF LimiterInv, InWindow, Between
  <2>6. IsFiniteSet(B)
    BY <1>i, <2>3, <2>5, SubsetBound DEF LimiterInv
  <2> HIDE DEF B
  <2>7. /\ Cardinality(InWindow("fix")) \in Nat /\ Cardinality(B) \in Nat
        /\ Cardinality(InWindow("fix")) <= Cardinality(B)
    BY <2>5, <2>6, SubsetBound
  <2>8. Cardinality(B) >= MaxActions["fix"]
    BY <1>n, <2>2, <2>7
  <2> QED BY <2>8 DEF B
<1>2. ASSUME pc[c] = "blast", pc'[c] = "idle"
      PROVE  Cardinality(SpreadIn(clock - Hour + 1, clock + 1)) >= MaxNamespaces
  <2> DEFINE a == clock - Hour + 1
             S == SpreadIn(a, clock + 1)
             r == IF WindowOver THEN clock ELSE lastReset
  <2>1. CheckBlastRadius(c)
    BY <1>2, <1>m DEF Step, Start, CheckQuiet, CheckPolicy, CheckBreaker, CheckLimiter,
                      Apply, RecordPolicyAction
  <2>2. ~BlastAllows(NsOf[job[c].wl])
    <3>1. ~GoTo(c, "policy")
      BY <1>2, <1>i DEF GoTo, TypeOK
    <3> QED BY <2>1, <3>1 DEF CheckBlastRadius
  <2>3. /\ r \in Nat /\ r <= clock /\ clock < r + Hour
        /\ IsFiniteSet(Touched)
        /\ \A x \in spread : x[2] >= r => x[1] \in Touched
        /\ \A m \in Touched : \E x \in spread : x[1] = m /\ x[2] >= r
    BY <1>i, BlastReset
  <2>4. IsFiniteSet(SpreadIn(a, r))
    BY <1>i, <1>n, <2>3, BlastReset
  <2>5. \A x \in spread : x[2] \in Nat /\ x[2] <= clock
    BY <1>i DEF TypeOK, BlastInv
  <2> HIDE DEF r
  <2>6. a \in Int /\ a <= r
    BY <1>n, <2>3
  <2>7. ASSUME NEW m \in S PROVE m \in SpreadIn(a, r) \cup Touched
    <3>1. PICK x \in spread : a <= x[2] /\ x[1] = m
      BY <2>7, SpreadMember
    <3>2. CASE x[2] < r
      BY <3>1, <3>2, SpreadMember
    <3>3. CASE x[2] >= r
      BY <2>3, <3>1, <3>3
    <3> QED BY <2>3, <2>5, <3>2, <3>3
  <2>8. ASSUME NEW m \in Touched PROVE m \in S
    <3>1. PICK x \in spread : x[1] = m /\ x[2] >= r
      BY <2>3
    <3>2. a <= x[2] /\ x[2] < clock + 1
      BY <1>n, <2>3, <2>5, <2>6, <3>1
    <3> QED BY <3>1, <3>2, SpreadMember
  <2>9. IsFiniteSet(S)
    BY <2>3, <2>4, <2>7, UnionBound
  <2>10. /\ Cardinality(Touched) \in Nat /\ Cardinality(S) \in Nat
         /\ Cardinality(Touched) <= Cardinality(S)
    BY <2>8, <2>9, SubsetBound
  <2> QED BY <1>n, <2>2, <2>10 DEF BlastAllows
<1> QED BY <1>1, <1>2

(* ISS-025: cleanup spends none of the rate limit and blast radius of the      *)
(* fixes, and no fix is refused for entries that are too old to count.        *)
THEOREM FixesKeepTheirBudget == Spec => FixesHaveOwnBudget
<1>1. IndInv /\ [Next]_vars =>
        [\A c \in Procs :
          /\ pc[c] = "limit" /\ pc'[c] = "idle" /\ job[c].kind = "fix" =>
                Cardinality(Between(granted["fix"], clock - LimitWindow, clock + 1))
                   >= MaxActions["fix"]
          /\ pc[c] = "blast" /\ pc'[c] = "idle" =>
                Cardinality(SpreadIn(clock - Hour + 1, clock + 1)) >= MaxNamespaces]_vars
  BY RefusalStep
<1> QED BY <1>1, Invariance, PTL DEF Spec, FixesHaveOwnBudget

--------------------------------------------------------------------------------
(* The rate limits as sliding windows that forget nothing. *)

(* The events of a history are numbered below their number, so that the next   *)
(* one is new.  The bounds above count sets of events; this is why each action *)
(* counts in them.                                                             *)
Numbered(S) == \A e \in S : e.n < Cardinality(S)

NumberInv ==
    /\ \A k \in Kinds : Numbered(granted[k])
    /\ \A wl \in Workloads : Numbered(passed[wl])
    /\ \A p \in Policies : MaxPerHour[p] > 0 => Numbered(counted[p])

(* A new event is none of those before it, and they stay numbered. *)
LEMMA NewEvent ==
    ASSUME NEW S \in SUBSET Event, IsFiniteSet(S), Numbered(S), clock \in Nat
    PROVE  Now(S) \notin S /\ Numbered(S \cup {Now(S)})
<1>1. Cardinality(S) \in Nat
  BY FS_CardinalityType
<1>2. Now(S).n = Cardinality(S)
  BY DEF Now
<1>3. Now(S) \notin S
  BY <1>1, <1>2 DEF Numbered
<1>4. Cardinality(S \cup {Now(S)}) = Cardinality(S) + 1
  BY <1>3, FS_AddElement
<1>5. \A e \in S : e.n \in Nat
  BY DEF Event
<1> QED BY <1>1, <1>2, <1>3, <1>4, <1>5 DEF Numbered

(* A history grows by its next event only. *)
LEMMA NumberStep == IndInv /\ NumberInv /\ [Next]_vars => NumberInv'
<1> SUFFICES ASSUME IndInv, NumberInv, [Next]_vars PROVE NumberInv'
  OBVIOUS
<1>i. TypeOK /\ JobInv /\ LimiterInv /\ BreakerInv /\ BudgetInv
  BY DEF IndInv
<1>n. clock \in Nat
  BY <1>i, Numbers
<1>f. /\ granted \in [Kinds -> SUBSET Event] /\ passed \in [Workloads -> SUBSET Event]
      /\ counted \in [Policies -> SUBSET Event]
  BY <1>i DEF TypeOK
<1>1. \A k \in Kinds : Numbered(granted'[k])
  <2>1. ASSUME NEW c \in Procs, CheckLimiter(c), NEW k \in Kinds PROVE Numbered(granted'[k])
    <3>1. /\ job[c].kind \in Kinds
          /\ \/ granted' = granted
             \/ granted' = [granted EXCEPT ![job[c].kind] = @ \cup {Now(granted[job[c].kind])}]
      BY <2>1, <1>i, JobType DEF CheckLimiter
    <3>2. IsFiniteSet(granted[k])
      BY <1>i DEF LimiterInv
    <3>3. granted'[k] = granted[k] \/ granted'[k] = granted[k] \cup {Now(granted[k])}
      BY <1>f, <3>1
    <3> QED BY <1>f, <1>n, <3>2, <3>3, NewEvent DEF NumberInv
  <2>2. ASSUME \A c \in Procs : ~CheckLimiter(c) PROVE granted' = granted
    BY <1>i, <2>2, CallFrame, OtherFrame
  <2> QED BY <2>1, <2>2 DEF NumberInv
<1>2. \A wl \in Workloads : Numbered(passed'[wl])
  <2>1. ASSUME NEW c \in Procs, CheckBreaker(c), NEW wl \in Workloads
        PROVE  Numbered(passed'[wl])
    <3>1. /\ job[c].wl \in Workloads
          /\ \/ passed' = passed
             \/ passed' = [passed EXCEPT ![job[c].wl] = @ \cup {Now(passed[job[c].wl])}]
      BY <2>1, <1>i, JobType DEF CheckBreaker
    <3>2. IsFiniteSet(passed[wl])
      BY <1>i DEF BreakerInv
    <3>3. passed'[wl] = passed[wl] \/ passed'[wl] = passed[wl] \cup {Now(passed[wl])}
      BY <1>f, <3>1
    <3> QED BY <1>f, <1>n, <3>2, <3>3, NewEvent DEF NumberInv
  <2>2. ASSUME \A c \in Procs : ~CheckBreaker(c) PROVE passed' = passed
    BY <1>i, <2>2, CallFrame, OtherFrame
  <2> QED BY <2>1, <2>2 DEF NumberInv
<1>3. \A p \in Policies : MaxPerHour[p] > 0 => Numbered(counted'[p])
  <2>1. ASSUME NEW c \in Procs, RecordPolicyAction(c), NEW p \in Policies, MaxPerHour[p] > 0
        PROVE  Numbered(counted'[p])
    <3>1. \/ counted' = counted
          \/ counted' = [counted EXCEPT ![PolicyOf[job[c].wl]] =
                                            @ \cup {Now(counted[PolicyOf[job[c].wl]])}]
      BY <2>1 DEF RecordPolicyAction
    <3>2. IsFiniteSet(counted[p])
      BY <1>i, <2>1 DEF BudgetInv, PolicyInv
    <3>3. counted'[p] = counted[p] \/ counted'[p] = counted[p] \cup {Now(counted[p])}
      BY <1>f, <3>1
    <3> QED BY <1>f, <1>n, <2>1, <3>2, <3>3, NewEvent DEF NumberInv
  <2>2. ASSUME \A c \in Procs : ~RecordPolicyAction(c) PROVE counted' = counted
    BY <1>i, <2>2, CallFrame, OtherFrame
  <2> QED BY <2>1, <2>2 DEF NumberInv
<1> QED BY <1>1, <1>2, <1>3 DEF NumberInv

(* Each action that a limiter, the breaker or a policy budget counts is a new  *)
(* event of its history: no two actions are one in the bounds above.           *)
THEOREM EveryActionCounts == Spec => [](IndInv /\ NumberInv)
<1>1. Init => NumberInv
  BY DEF Init, NumberInv, Numbered
<1> QED BY <1>1, NumberStep, Invariance, PTL DEF Spec

(* What a limiter grants, its window had room for. *)
LEMMA LimiterAdmits ==
    ASSUME IndInv, NumberInv, NEW c \in Procs, CheckLimiter(c), granted' # granted
    PROVE  \E k \in Kinds : Limiters!Admit(k)
<1> DEFINE k  == job[c].kind
           ev == Now(granted[k])
           W  == Limiters!InWindow(k)
<1>i. TypeOK /\ JobInv /\ LimiterInv
  BY DEF IndInv
<1>n. clock \in Nat /\ LimitWindow \in Nat
  BY <1>i, Numbers
<1>k. k \in Kinds /\ MaxActions[k] \in Nat
  BY <1>i, JobType, GateAssumption DEF CheckLimiter
<1>f. granted \in [Kinds -> SUBSET Event] /\ \A e \in granted[k] : e.t \in Nat
  BY <1>i, <1>k DEF TypeOK, Event
<1>1. /\ ~(Cardinality(InWindow(k)) >= MaxActions[k])
      /\ granted' = [granted EXCEPT ![k] = @ \cup {ev}]
      /\ clock' = clock
  BY DEF CheckLimiter, Environment
<1>2. IsFiniteSet(granted[k])
  BY <1>i, <1>k DEF LimiterInv
<1>3. ev \notin granted[k] /\ ev.t = clock
  BY <1>f, <1>k, <1>n, <1>2, NewEvent, NowType DEF NumberInv
<1>4. W \in SUBSET InWindow(k) /\ InWindow(k) \in SUBSET granted[k]
  BY <1>f, <1>i, <1>k, <1>n DEF Limiters!InWindow, InWindow, LimiterInv
<1>5. Limiters!Cardinality(W) = Cardinality(W)
  BY DEF Cardinality, Limiters!Cardinality
<1> HIDE DEF k, ev, W
<1>6. Cardinality(W) \in Nat /\ Cardinality(W) < MaxActions[k]
  <2>1. /\ IsFiniteSet(InWindow(k)) /\ Cardinality(InWindow(k)) \in Nat
    BY <1>2, <1>4, SubsetBound
  <2>2. Cardinality(W) \in Nat /\ Cardinality(W) <= Cardinality(InWindow(k))
    BY <1>4, <2>1, SubsetBound
  <2> QED BY <1>1, <1>k, <2>1, <2>2
<1>7. granted'[k] = granted[k] \cup {ev}
  BY <1>1, <1>f, <1>k
<1>8. Limiters!Admit(k)
  <2>1. Limiters!Cardinality(Limiters!InWindow(k)) < MaxActions[k]
    BY <1>5, <1>6 DEF W
  <2>2. ev \in granted'[k] \ granted[k]
    BY <1>3, <1>7
  <2> QED BY <1>1, <1>3, <2>1, <2>2 DEF Limiters!Admit
<1> QED BY <1>8, <1>k

(* What the breaker lets pass, the hour had room for: a trip that is over is   *)
(* an hour old, so what it forgets is out of the window.                       *)
LEMMA BreakerAdmits ==
    ASSUME IndInv, NumberInv, NEW c \in Procs, CheckBreaker(c), passed' # passed
    PROVE  \E wl \in Workloads : Breaker!Admit(wl)
<1> DEFINE w  == job[c].wl
           ev == Now(passed[w])
           W  == Breaker!InWindow(w)
<1>i. TypeOK /\ JobInv /\ BreakerInv
  BY DEF IndInv
<1>n. clock \in Nat /\ Hour \in Nat /\ Threshold \in Nat
  BY <1>i, Numbers
<1>k. w \in Workloads
  BY <1>i, JobType DEF CheckBreaker
<1>t. tripped[w] \in Int /\ \A e \in passed[w] : e.t \in Nat
  BY <1>i, <1>k, Numbers DEF TypeOK, Event
<1>f. passed \in [Workloads -> SUBSET Event]
  BY <1>i DEF TypeOK
<1>1. /\ ~StillTripped(w)
      /\ ~(Cardinality(Counting(w) \cup {ev}) >= Threshold)
      /\ passed' = [passed EXCEPT ![w] = @ \cup {ev}]
      /\ clock' = clock
  BY DEF CheckBreaker, Environment
<1>2. IsFiniteSet(passed[w])
  BY <1>i, <1>k DEF BreakerInv
<1>3. ev \notin passed[w] /\ ev.t = clock
  BY <1>f, <1>k, <1>n, <1>2, NewEvent, NowType DEF NumberInv
<1>4. W \in SUBSET Counting(w) /\ Counting(w) \in SUBSET passed[w]
  <2>1. CASE tripped[w] = Never
    BY <1>i, <1>k, <2>1 DEF BreakerInv, Counting, Breaker!InWindow
  <2>2. CASE tripped[w] # Never
    <3>1. tripped[w] <= clock - Hour
      BY <1>n, <1>t, <1>1, <2>2 DEF StillTripped
    <3>2. \A e \in passed[w] : ~(e.t > clock - Hour)
      BY <1>i, <1>k, <1>n, <1>t, <2>2, <3>1 DEF BreakerInv
    <3> QED BY <2>2, <3>2 DEF Counting, Breaker!InWindow
  <2> QED BY <2>1, <2>2
<1>5. Breaker!Cardinality(W) = Cardinality(W)
  BY DEF Cardinality, Breaker!Cardinality
<1> HIDE DEF w, ev, W
<1>6. Cardinality(W) < Threshold - 1
  <2>1. /\ IsFiniteSet(Counting(w)) /\ Cardinality(Counting(w)) \in Nat
        /\ ev \notin Counting(w)
    BY <1>2, <1>3, <1>4, SubsetBound
  <2>2. Cardinality(W) \in Nat /\ Cardinality(W) <= Cardinality(Counting(w))
    BY <1>4, <2>1, SubsetBound
  <2>3. Cardinality(Counting(w) \cup {ev}) = Cardinality(Counting(w)) + 1
    BY <2>1, FS_AddElement
  <2> QED BY <1>1, <1>n, <2>1, <2>2, <2>3
<1>7. passed'[w] = passed[w] \cup {ev}
  BY <1>1, <1>f, <1>k
<1>8. Breaker!Admit(w)
  <2>1. Breaker!Cardinality(Breaker!InWindow(w)) < [wl \in Workloads |-> Threshold - 1][w]
    BY <1>5, <1>6, <1>k DEF W
  <2>2. ev \in passed'[w] \ passed[w]
    BY <1>3, <1>7
  <2> QED BY <1>1, <1>3, <2>1, <2>2 DEF Breaker!Admit
<1> QED BY <1>8, <1>k

(* Every step of the gate is a step of both sliding windows, or none. *)
LEMMA WindowStep ==
    IndInv /\ NumberInv /\ [Next]_vars =>
        [Limiters!Next]_<<clock, granted>> /\ [Breaker!Next]_<<clock, passed>>
<1> SUFFICES ASSUME IndInv, NumberInv, [Next]_vars
             PROVE  [Limiters!Next]_<<clock, granted>> /\ [Breaker!Next]_<<clock, passed>>
  OBVIOUS
<1>i. TypeOK
  BY DEF IndInv
<1>1. ASSUME NEW c \in Procs, Step(c)
      PROVE  /\ clock' = clock
             /\ granted' = granted \/ \E k \in Kinds : Limiters!Admit(k)
             /\ passed' = passed \/ \E wl \in Workloads : Breaker!Admit(wl)
  BY <1>1, CallFrame, LimiterAdmits, BreakerAdmits
<1>2. CASE \A c \in Procs : ~Step(c)
  <2>1. clock' \in Nat /\ clock' >= clock /\ granted' = granted /\ passed' = passed
    <3>1. clock \in Nat /\ clock' \in Nat /\ clock <= clock' /\ granted' = granted /\ passed' = passed
      BY <1>i, <1>2, OtherFrame, Numbers
    <3> QED BY <3>1
  <2> QED BY <2>1 DEF Limiters!Next, Limiters!TimePasses, Breaker!Next, Breaker!TimePasses
<1> QED BY <1>1, <1>2 DEF Limiters!Next, Breaker!Next

(* ActionLimiter and CircuitBreaker, with what they prune, reset and forget    *)
(* under any number of callers, implement sliding windows that forget nothing. *)
THEOREM GuardrailsImplementWindows == Spec => ImplementsWindows
<1>1. Init => Limiters!Init /\ Breaker!Init
  BY DEF Init, Limiters!Init, Breaker!Init
<1> QED BY <1>1, WindowStep, EveryActionCounts, PTL
        DEF Spec, ImplementsWindows, Limiters!Spec, Breaker!Spec

--------------------------------------------------------------------------------
(* What the sliding windows alone promise. *)

(* A log of instants up to now, of which no window holds more than m. *)
Bounded(S, width, m) ==
    /\ IsFiniteSet(S)
    /\ \A e \in S : e.t \in Nat /\ e.t <= clock
    /\ \A a \in Int : Cardinality(Between(S, a, a + width)) <= m

(* A window with room for one more keeps its bound when one more is admitted,  *)
(* and with it every window of its width.                                      *)
LEMMA AdmitBounded ==
    ASSUME NEW S, NEW width \in Nat, NEW m \in Int, clock \in Nat, Bounded(S, width, m),
           Cardinality({e \in S : e.t > clock - width}) < m, NEW x, x.t = clock
    PROVE  Bounded(S \cup {x}, width, m)
<1> DEFINE W == {e \in S : e.t > clock - width}
<1>1. /\ IsFiniteSet(S) /\ \A e \in S : e.t \in Nat /\ e.t <= clock
      /\ \A a \in Int : Cardinality(Between(S, a, a + width)) <= m
  BY DEF Bounded
<1>2. IsFiniteSet(W) /\ Cardinality(W) \in Nat /\ Cardinality(W) < m
  <2>1. W \in SUBSET S
    OBVIOUS
  <2> QED BY <1>1, <2>1, SubsetBound
<1>3. IsFiniteSet(S \cup {x}) /\ \A e \in S \cup {x} : e.t \in Nat /\ e.t <= clock
  <2>1. IsFiniteSet(S \cup {x})
    BY <1>1, AddBound
  <2>2. \A e \in S \cup {x} : e.t \in Nat /\ e.t <= clock
    BY <1>1
  <2> QED BY <2>1, <2>2
<1>4. ASSUME NEW a \in Int PROVE Cardinality(Between(S \cup {x}, a, a + width)) <= m
  <2>1. CASE a <= clock /\ clock < a + width
    <3>1. Between(S \cup {x}, a, a + width) \in SUBSET (W \cup {x})
      BY <1>1, <2>1 DEF Between
    <3> HIDE DEF W
    <3>2. /\ IsFiniteSet(W \cup {x}) /\ Cardinality(W \cup {x}) \in Nat
          /\ Cardinality(W \cup {x}) <= Cardinality(W) + 1
      BY <1>2, AddBound
    <3>3. /\ Cardinality(Between(S \cup {x}, a, a + width)) \in Nat
          /\ Cardinality(Between(S \cup {x}, a, a + width)) <= Cardinality(W \cup {x})
      BY <3>1, <3>2, SubsetBound
    <3> QED BY <1>2, <3>2, <3>3
  <2>2. CASE ~(a <= clock /\ clock < a + width)
    <3>1. Between(S \cup {x}, a, a + width) = Between(S, a, a + width)
      BY <2>2 DEF Between
    <3> QED BY <1>1, <3>1
  <2> QED BY <2>1, <2>2
<1> QED BY <1>3, <1>4 DEF Bounded

(* Later, the same log is bounded. *)
LEMMA StaysBounded ==
    ASSUME NEW S, NEW width, NEW m, clock \in Nat, clock' \in Nat, clock' >= clock,
           Bounded(S, width, m)
    PROVE  /\ IsFiniteSet(S)
           /\ \A e \in S : e.t \in Nat /\ e.t <= clock'
           /\ \A a \in Int : Cardinality(Between(S, a, a + width)) <= m
BY DEF Bounded

(* A new log is bounded. *)
LEMMA EmptyBounded == ASSUME NEW width, NEW m \in Nat PROVE Bounded({}, width, m)
<1>1. \A a, b : Between({}, a, b) = {}
  BY DEF Between
<1> QED BY <1>1, FS_EmptySet DEF Bounded

(* The logs of the limiters, and those of the breaker. *)
GrantsBounded ==
    /\ clock \in Nat /\ granted = [k \in Kinds |-> granted[k]]
    /\ \A k \in Kinds : Bounded(granted[k], LimitWindow + 1, MaxActions[k])

PassesBounded ==
    /\ clock \in Nat /\ passed = [wl \in Workloads |-> passed[wl]]
    /\ \A wl \in Workloads : Bounded(passed[wl], Hour, Threshold - 1)

(* A step of the limiters' window keeps its logs bounded. *)
LEMMA GrantStep == GrantsBounded /\ [Limiters!Next]_<<clock, granted>> => GrantsBounded'
<1> SUFFICES ASSUME GrantsBounded, [Limiters!Next]_<<clock, granted>> PROVE GrantsBounded'
  OBVIOUS
<1>n. LimitWindow + 1 \in Nat /\ \A k \in Kinds : MaxActions[k] \in Nat
  BY GateAssumption
<1>1. CASE Limiters!TimePasses \/ UNCHANGED <<clock, granted>>
  <2>1. clock \in Nat /\ clock' \in Nat /\ clock' >= clock /\ granted' = granted
    BY <1>1 DEF GrantsBounded, Limiters!TimePasses
  <2>2. ASSUME NEW k \in Kinds PROVE Bounded(granted[k], LimitWindow + 1, MaxActions[k])'
    <3>1. /\ IsFiniteSet(granted[k])
          /\ \A e \in granted[k] : e.t \in Nat /\ e.t <= clock'
          /\ \A a \in Int : Cardinality(Between(granted[k], a, a + (LimitWindow + 1)))
                               <= MaxActions[k]
      BY <2>1, StaysBounded DEF GrantsBounded
    <3> QED BY <2>1, <3>1 DEF Bounded
  <2> QED BY <2>1, <2>2 DEF GrantsBounded
<1>2. ASSUME NEW k \in Kinds, Limiters!Admit(k) PROVE GrantsBounded'
  <2>1. PICK x : x.t = clock /\ granted' = [granted EXCEPT ![k] = @ \cup {x}]
    BY <1>2 DEF Limiters!Admit
  <2>2. clock' = clock /\ clock \in Nat
    BY <1>2 DEF Limiters!Admit, GrantsBounded
  <2>3. Cardinality({e \in granted[k] : e.t > clock - (LimitWindow + 1)}) < MaxActions[k]
    BY <1>2 DEF Limiters!Admit, Limiters!InWindow, Cardinality, Limiters!Cardinality
  <2>4. Bounded(granted[k] \cup {x}, LimitWindow + 1, MaxActions[k])
    BY <1>n, <2>1, <2>2, <2>3, AdmitBounded DEF GrantsBounded
  <2>5. /\ granted' = [j \in Kinds |-> granted'[j]]
        /\ \A j \in Kinds : granted'[j] = IF j = k THEN granted[k] \cup {x} ELSE granted[j]
    BY <2>1 DEF GrantsBounded
  <2>6. \A j \in Kinds : Bounded(granted'[j], LimitWindow + 1, MaxActions[j])
    BY <2>4, <2>5 DEF GrantsBounded
  <2>7. \A j \in Kinds : Bounded(granted[j], LimitWindow + 1, MaxActions[j])'
    BY <2>2, <2>6 DEF Bounded
  <2> QED BY <2>2, <2>5, <2>7 DEF GrantsBounded
<1> QED BY <1>1, <1>2 DEF Limiters!Next

(* A step of the breaker's window keeps its logs bounded. *)
LEMMA PassStep == PassesBounded /\ [Breaker!Next]_<<clock, passed>> => PassesBounded'
<1> SUFFICES ASSUME PassesBounded, [Breaker!Next]_<<clock, passed>> PROVE PassesBounded'
  OBVIOUS
<1>n. Hour \in Nat /\ Threshold - 1 \in Nat
  BY GateAssumption
<1>1. CASE Breaker!TimePasses \/ UNCHANGED <<clock, passed>>
  <2>1. clock \in Nat /\ clock' \in Nat /\ clock' >= clock /\ passed' = passed
    BY <1>1 DEF PassesBounded, Breaker!TimePasses
  <2>2. ASSUME NEW wl \in Workloads PROVE Bounded(passed[wl], Hour, Threshold - 1)'
    <3>1. /\ IsFiniteSet(passed[wl])
          /\ \A e \in passed[wl] : e.t \in Nat /\ e.t <= clock'
          /\ \A a \in Int : Cardinality(Between(passed[wl], a, a + Hour)) <= Threshold - 1
      BY <2>1, StaysBounded DEF PassesBounded
    <3> QED BY <2>1, <3>1 DEF Bounded
  <2> QED BY <2>1, <2>2 DEF PassesBounded
<1>2. ASSUME NEW w \in Workloads, Breaker!Admit(w) PROVE PassesBounded'
  <2>1. PICK x : x.t = clock /\ passed' = [passed EXCEPT ![w] = @ \cup {x}]
    BY <1>2 DEF Breaker!Admit
  <2>2. clock' = clock /\ clock \in Nat
    BY <1>2 DEF Breaker!Admit, PassesBounded
  <2>3. Cardinality({e \in passed[w] : e.t > clock - Hour}) < Threshold - 1
    BY <1>2 DEF Breaker!Admit, Breaker!InWindow, Cardinality, Breaker!Cardinality
  <2>4. Bounded(passed[w] \cup {x}, Hour, Threshold - 1)
    BY <1>n, <2>1, <2>2, <2>3, AdmitBounded DEF PassesBounded
  <2>5. /\ passed' = [v \in Workloads |-> passed'[v]]
        /\ \A v \in Workloads : passed'[v] = IF v = w THEN passed[w] \cup {x} ELSE passed[v]
    BY <2>1 DEF PassesBounded
  <2>6. \A v \in Workloads : Bounded(passed'[v], Hour, Threshold - 1)
    BY <2>4, <2>5 DEF PassesBounded
  <2>7. \A v \in Workloads : Bounded(passed[v], Hour, Threshold - 1)'
    BY <2>2, <2>6 DEF Bounded
  <2> QED BY <2>2, <2>5, <2>7 DEF PassesBounded
<1> QED BY <1>1, <1>2 DEF Breaker!Next

(* Whatever implements the sliding windows keeps the limits in every window:   *)
(* SlidingLimits of ActionLimiter and CircuitBreaker rests on nothing else.    *)
THEOREM WindowsBoundActions == ImplementsWindows => []SlidingLimits
<1>n. /\ LimitWindow \in Nat /\ Hour \in Nat /\ Threshold \in Nat /\ Threshold - 1 \in Nat
      /\ \A k \in Kinds : MaxActions[k] \in Nat
  BY GateAssumption
<1>1. Limiters!Init => GrantsBounded
  BY <1>n, EmptyBounded DEF Limiters!Init, GrantsBounded
<1>2. Breaker!Init => PassesBounded
  BY <1>n, EmptyBounded DEF Breaker!Init, PassesBounded
<1>3. GrantsBounded => LimiterSliding
  <2> SUFFICES ASSUME GrantsBounded, NEW k \in Kinds, NEW a \in 0..MaxClock
               PROVE  Cardinality(Between(granted[k], a, a + LimitWindow + 1)) <= MaxActions[k]
    BY DEF LimiterSliding
  <2>1. a \in Int /\ a + (LimitWindow + 1) = a + LimitWindow + 1
    BY <1>n
  <2>2. Cardinality(Between(granted[k], a, a + (LimitWindow + 1))) <= MaxActions[k]
    BY <2>1 DEF GrantsBounded, Bounded
  <2> QED BY <2>1, <2>2
<1>4. PassesBounded => BreakerSliding
  <2> SUFFICES ASSUME PassesBounded, NEW wl \in Workloads, NEW a \in 0..MaxClock
               PROVE  Cardinality(Between(passed[wl], a, a + Hour)) < Threshold
    BY DEF BreakerSliding
  <2>1. IsFiniteSet(passed[wl]) /\ Between(passed[wl], a, a + Hour) \in SUBSET passed[wl]
    BY DEF PassesBounded, Bounded, Between
  <2>2. Cardinality(Between(passed[wl], a, a + Hour)) \in Nat
    BY <2>1, SubsetBound
  <2>3. Cardinality(Between(passed[wl], a, a + Hour)) <= Threshold - 1
    BY DEF PassesBounded, Bounded
  <2> QED BY <1>n, <2>2, <2>3
<1>5. GrantsBounded /\ PassesBounded => SlidingLimits
  BY <1>3, <1>4 DEF SlidingLimits
<1> QED BY <1>1, <1>2, <1>5, GrantStep, PassStep, PTL
        DEF ImplementsWindows, Limiters!Spec, Breaker!Spec
================================================================================
