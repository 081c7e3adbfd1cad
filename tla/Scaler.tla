--------------------------------- MODULE Scaler ---------------------------------
(***************************************************************************)
(* The autoscaler (kube/scaler.go) for one Deployment: a pass of the leader *)
(* lists Deployments and later decides about this one by the copy it got.   *)
(* The cooldowns are kept in annotations, written with the replicas.  A     *)
(* pass goes on when the lease is lost, next to those of the new leader.    *)
(* Times are ages in ticks, capped at the longest cooldown.                 *)
(***************************************************************************)
EXTENDS ScaleRules, FiniteSets

CONSTANTS
    Leaders,      \* the processes that lead, in their order: 1..n
    Policies,     \* what the AutoRemediationPolicy may say: sets of at most one
    Answers,      \* Answers[load]: what the queries may answer under that load
    MaxReplicas,  \* bound: what a user may scale to
    Aged          \* bound: an age at which every cooldown is over

VARIABLES
    cp,           \* the policy that selects the Deployment
    wanted,       \* wanted[load][override]: the directions that Answers allow
    replicas, up, down,   \* the Deployment: its size, the ages of its annotations
    lead,         \* who leads
    pass,         \* pass[l]: the copies l listed, {} outside of a pass
    load,         \* what lasts: "quiet", "busy" or neither ("any")
    sinceUp,      \* history: the age of the last scale-up
    early         \* history: the processes that listed before it

vars == <<cp, wanted, replicas, up, down, lead, pass, load, sinceUp, early>>

Ages == 0..Aged
Copy == [replicas : 0..MaxReplicas, up : Ages, down : Ages]

(* Shapes of the Deployment and of the copies.                               *)
TypeOK ==
    /\ cp \in Policies /\ replicas \in 0..MaxReplicas /\ up \in Ages /\ down \in Ages
    /\ lead \in Leaders /\ \A l \in Leaders : pass[l] \subseteq Copy /\ Cardinality(pass[l]) <= 1
    /\ load \in {"quiet", "busy", "any"}
    /\ sinceUp \in Ages /\ early \subseteq Leaders

Init ==
    /\ cp \in Policies
    /\ wanted = [l \in DOMAIN Answers |-> [o \in BOOLEAN |-> Ways(Answers[l], o)]]
    /\ replicas \in 1..MaxReplicas /\ up = Aged /\ down = Aged
    /\ lead = 1 /\ pass = [l \in Leaders |-> {}] /\ load = "any"
    /\ sinceUp = Aged /\ early = {}

-----------------------------------------------------------------------------
(* EvaluateAndScale *)

List(l) ==
    /\ lead = l /\ pass[l] = {}
    /\ pass' = [pass EXCEPT ![l] = {[replicas |-> replicas, up |-> up, down |-> down]}]
    /\ early' = early \ {l}
    /\ UNCHANGED <<cp, wanted, replicas, up, down, lead, load, sinceUp>>

(* The replicas that the pass writes, if any: {} or a singleton.             *)
UpTo(d, lim) == IF d.replicas >= lim.max THEN {} ELSE {Least(d.replicas + lim.step, lim.max)}
DownTo(d, lim) ==
    IF d.replicas > lim.min /\ ~inCooldown(d.down, lim.down) THEN {d.replicas - 1} ELSE {}

Ends(l) == pass' = [pass EXCEPT ![l] = {}] /\ UNCHANGED <<cp, wanted, lead, load>>

(* The cooldown after a scale-up holds back both directions.                 *)
(* scaleDeployment: one patch sets the replicas and the annotation.          *)
ScaleUpUnmarked(l) ==
    /\ Ends(l)
    /\ \E d \in pass[l] :
          LET lim == scaleLimitsFor(cp)
          IN  /\ "up" \in wanted[load][lim.override] /\ ~inCooldown(d.up, lim.up)
              /\ replicas' \in UpTo(d, lim) /\ down' = 0 /\ UNCHANGED up
    /\ sinceUp' = 0 /\ early' = {m \in Leaders \ {l} : pass[m] # {}}
ScaleUp(l) ==
    /\ Ends(l)
    /\ \E d \in pass[l] :
          LET lim == scaleLimitsFor(cp)
          IN  /\ "up" \in wanted[load][lim.override] /\ ~inCooldown(d.up, lim.up)
              /\ replicas' \in UpTo(d, lim) /\ up' = 0 /\ UNCHANGED down
    /\ sinceUp' = 0 /\ early' = {m \in Leaders \ {l} : pass[m] # {}}

ScaleDown(l) ==
    /\ Ends(l)
    /\ \E d \in pass[l] :
          LET lim == scaleLimitsFor(cp)
          IN  /\ "down" \in wanted[load][lim.override] /\ ~inCooldown(d.up, lim.up)
              /\ replicas' \in DownTo(d, lim) /\ down' = 0 /\ UNCHANGED up
    /\ UNCHANGED <<sinceUp, early>>

(* Nothing to do, a check that ends it, or the gate does not apply it.       *)
LeavesIt(l) ==
    /\ pass[l] # {} /\ Ends(l)
    /\ UNCHANGED <<replicas, up, down, sinceUp, early>>

-----------------------------------------------------------------------------
(* The cluster and the clock *)

UserScales ==
    /\ load = "any" /\ replicas' \in 0..MaxReplicas
    /\ UNCHANGED <<cp, wanted, up, down, lead, pass, load, sinceUp, early>>

Older(n) == IF n < Aged THEN n + 1 ELSE Aged
Tick ==
    /\ up' = Older(up) /\ down' = Older(down) /\ sinceUp' = Older(sinceUp)
    /\ pass' = [l \in Leaders |-> {[d EXCEPT !.up = Older(@), !.down = Older(@)] : d \in pass[l]}]
    /\ UNCHANGED <<cp, wanted, replicas, lead, load, early>>

(* The lease goes to the next process.                                       *)
LeaseMoves ==
    /\ lead + 1 \in Leaders /\ lead' = lead + 1
    /\ UNCHANGED <<cp, wanted, replicas, up, down, pass, load, sinceUp, early>>

(* From now on the load stays as it is, and no user interferes.              *)
LoadSettles ==
    /\ load = "any" /\ load' \in {"quiet", "busy"}
    /\ UNCHANGED <<cp, wanted, replicas, up, down, lead, pass, sinceUp, early>>

Next ==
    \/ \E l \in Leaders : List(l) \/ ScaleUp(l) \/ ScaleDown(l) \/ LeavesIt(l)
    \/ UserScales \/ Tick \/ LeaseMoves \/ LoadSettles

Spec == Init /\ [][Next]_vars

-----------------------------------------------------------------------------
(* Properties. *)

(* Within the cooldown after a scale-up no process scales again, in either   *)
(* direction and also when the lease changed hands, but for one that had     *)
(* listed the Deployment before it.                                          *)
CooldownStep ==
    \A l \in Leaders : ScaleUp(l) \/ ScaleDown(l) => sinceUp >= scaleLimitsFor(cp).up \/ l \in early
CooldownHolds == [][CooldownStep]_vars

(* A workload that stays quiet shrinks to the minimum of its policy, or to   *)
(* the global one when the policy sets none or one above the maximum, its    *)
(* own or else the global one; however low the learned baseline is.          *)
Ceiling(q) == IF q.max > 0 THEN q.max ELSE Global.max
Minima == LET own == {q.min : q \in {p \in cp : p.enabled /\ p.min \in 1..Ceiling(p)}}
          IN  IF own = {} THEN {Global.min} ELSE own
QuietShrinks == <>(load = "quiet") => <>[](\E m \in Minima : replicas <= m)

(* One that stays busy grows to the maximum in force.                        *)
BusyGrows == <>(load = "busy") => <>[](replicas >= scaleLimitsFor(cp).max)

(* The scaler follows a load that settles, in both directions.               *)
FollowsLoad == QuietShrinks /\ BusyGrows
=================================================================================
