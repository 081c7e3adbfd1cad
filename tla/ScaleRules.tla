------------------------------- MODULE ScaleRules -------------------------------
(***************************************************************************)
(* What the autoscaler (kube/scaler.go) decides from the settings and from  *)
(* the answers to its queries, for one Deployment.                          *)
(***************************************************************************)
EXTENDS Integers

CONSTANT Global   \* the global policy: min, max, step, up, down, threshold

Least(a, b) == IF a < b THEN a ELSE b
Most(a, b) == IF a < b THEN b ELSE a

(* effectiveCooldown: a policy's cooldown is for both directions.            *)
effectiveCooldown(p, global) == IF p.cooldown > 0 THEN p.cooldown ELSE global

(* scaleLimitsFor: scale counts only when enabled, and a minimum above the   *)
(* maximum in force is ignored.                                              *)
scaleLimitsTrusting(c) ==
    IF c = {} THEN [min |-> Global.min, max |-> Global.max, step |-> Global.step,
                    up |-> Global.up, down |-> Global.down, override |-> FALSE]
    ELSE LET p == CHOOSE q \in c : TRUE
         IN  [min |-> IF p.enabled /\ p.min > 0 THEN p.min ELSE Global.min,
              max |-> IF p.enabled /\ p.max > 0 THEN p.max ELSE Global.max,
              step |-> IF p.enabled /\ p.step > 0 THEN p.step ELSE Global.step,
              up |-> effectiveCooldown(p, Global.up), down |-> effectiveCooldown(p, Global.down),
              override |-> p.enabled /\ p.override]
scaleLimitsFor(c) ==
    IF c = {} THEN [min |-> Global.min, max |-> Global.max, step |-> Global.step,
                    up |-> Global.up, down |-> Global.down, override |-> FALSE]
    ELSE LET p == CHOOSE q \in c : TRUE
             max == IF p.enabled /\ p.max > 0 THEN p.max ELSE Global.max
         IN  [min |-> IF p.enabled /\ p.min > 0 /\ p.min <= max THEN p.min ELSE Global.min,
              max |-> max,
              step |-> IF p.enabled /\ p.step > 0 THEN p.step ELSE Global.step,
              up |-> effectiveCooldown(p, Global.up), down |-> effectiveCooldown(p, Global.down),
              override |-> p.enabled /\ p.override]

minLearnedSamples == 50

(* In percent: the learned threshold, within its bounds, or the global one.  *)
scaleUpThreshold(bl) ==
    IF \E b \in bl : b.samples >= minLearnedSamples /\ b.high > 0
    THEN Least(Most((CHOOSE b \in bl : TRUE).high, 50), 95)
    ELSE Global.threshold

(* evaluateGates: active if one query says so; one that fails says nothing.  *)
evaluateGates(results) ==
    [configured |-> results # {}, active |-> results = {} \/ "load" \in results]

inCooldown(age, cooldown) == age < cooldown

(* The queries for one Deployment: whether an HPA targets it, its CPU (-1:   *)
(* the query failed), the gate signals, and the baseline learned for it.     *)
(* The HPA check, unless the policy overrides it, and the CPU may end it.    *)
Answered(a, override) == (override \/ a.hpa = "absent") /\ a.cpu >= 0

GoesUp(a) == a.cpu > scaleUpThreshold(a.learned) /\ evaluateGates(a.gates).active
GoesDown(a) ==
    LET g == evaluateGates(a.gates)
    IN  ~GoesUp(a) /\ a.cpu < 30 /\ (~g.configured \/ ~g.active)

(* The directions that the answers of a set lead to.                         *)
Ways(answers, override) ==
    LET used == {a \in answers : Answered(a, override)}
    IN  {w \in {"up", "down"} : \E a \in used : (w = "up" /\ GoesUp(a)) \/ (w = "down" /\ GoesDown(a))}
================================================================================
