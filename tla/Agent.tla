---------------------------------- MODULE Agent ----------------------------------
(***************************************************************************)
(* The parts of a process that share nothing but the process: the detectors *)
(* (see Detectors), the network probes, node pressure, pending pods, fix    *)
(* verification, evicted pods, the policy store and the autoscaler.         *)
(***************************************************************************)
EXTENDS Detectors

CONSTANTS
    Services, Sample,
    Conditions, Handlers, Evictable, MaxFaults, MaxLag,
    Actions, Settle, Stable, GiveUp, MaxLen, Controls,
    Pods,
    Names, Ns, Written, Absent, Half, TooBig,
    Leaders, Policies, Global, Answers, MaxReplicas, Aged

VARIABLES
    target, net, ready, offset, fails, slow, window, slowWindow, probed, waited, outageTold, recent,
    versions, jobs, silenced, cordoner, missed, faults,
    volumeFails, elsewhere, keyLeft, reading, eventsSeen, volumeLeft, updated, checked, silent,
    age, pending, fixed, failed, verifying, leads, verdict, bad, paged,
    cleans, pods, at, todo, uidSeen, left, covered, unseen, unread,
    objects, cached, due, sync, byNS, held,
    cp, wanted, replicas, up, down, holder, listed, load, sinceUp, early

nvars == <<target, net, ready, offset, fails, slow, window, slowWindow, probed, waited, outageTold, recent>>
pvars == <<versions, jobs, silenced, cordoner, missed, faults>>
wvars == <<volumeFails, elsewhere, keyLeft, reading, eventsSeen, volumeLeft, updated, checked, silent>>
fvars == <<age, pending, fixed, failed, verifying, leads, verdict, bad, paged>>
evars == <<cleans, pods, at, todo, uidSeen, left, covered, unseen, unread>>
cvars == <<objects, cached, due, sync, byNS, held>>
svars == <<cp, wanted, replicas, up, down, holder, listed, load, sinceUp, early>>

N == INSTANCE NetProbe WITH ran <- probed, told <- outageTold
P == INSTANCE NodePressure
PP == INSTANCE PendingPod
F == INSTANCE FixTracker WITH pass <- verifying, lead <- leads
E == INSTANCE EvictedPods
C == INSTANCE PolicyStore
S == INSTANCE Scaler WITH lead <- holder, pass <- listed

-----------------------------------------------------------------------------
(* The times that verification waits for are numbers.                        *)
TimesAreNumbers == Settle \in Nat /\ Stable \in Nat /\ GiveUp \in Nat

(* The cooldowns of the settings and of the policies are numbers, and over   *)
(* at the greatest age.                                                      *)
CooldownsAreNumbers ==
    /\ Aged \in Nat
    /\ \A cooldown \in {Global.up, Global.down} \cup {p.cooldown : p \in UNION Policies} :
          cooldown \in Int /\ cooldown <= Aged

(* The numbers of a policy come out of the JSON decoder as int64 or float64, *)
(* or are not there.                                                         *)
Typed(v) == v[1] \in {"int64", "float64"} \/ v[2] = 0
NumbersTyped ==
    \A n \in Names : \A u \in Written[n] :
        C!Parses(u) => /\ Typed(u.bump) /\ Typed(u.perHour)
                       /\ Typed(u.scale.min) /\ Typed(u.scale.max) /\ Typed(u.scale.step)

(* A list of Services ends, and its places are numbers.                      *)
ServicesAreListed == Services \subseteq Nat /\ IsFiniteSet(Services) /\ Sample \in Nat

ASSUME AgentAssumption ==
    MaxFaults \in Nat /\ ServicesAreListed /\ TimesAreNumbers /\ CooldownsAreNumbers /\ NumbersTyped

-----------------------------------------------------------------------------
(* The properties of the parts; those of Detectors hold as they are. *)

(* The probes of a node reach every Service in turn.                         *)
EveryServiceDialled == N!EveryServiceDialled

(* An outage that the probes see is told.                                    *)
OutageTold == N!OutageTold

(* A node that the agent cordoned is uncordoned after the pressure.          *)
UncordonedUnlessMissed == P!UncordonedUnlessMissed

(* A pod that cannot start is told of, by the agent or by the leader.        *)
PendingTold == PP!PendingTold

(* Every action taken waits for its verdict once, or has it.                 *)
ActionsConserved == F!ActionsConserved

(* A fix counts only when the workload stayed healthy.                       *)
FixedStayedHealthy == F!FixedStayedHealthy

(* A process that comes to lead and stays leader verifies every action.     *)
LeaderVerifies == F!LeaderVerifies

(* A pass that reads the failed pods covers the evictions for local storage. *)
EvictionsCovered == [][E!DetectorStep]_evars

(* The policies in force are the ones that the objects say.                  *)
PolicyInForce == C!PolicyInForce

(* No process scales within the cooldown, but by an earlier list.            *)
CooldownHolds == [][S!CooldownStep]_svars

(* The scaler follows a load that settles.                                   *)
FollowsLoad == S!FollowsLoad
==================================================================================
