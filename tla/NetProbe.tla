-------------------------------- MODULE NetProbe --------------------------------
(***************************************************************************)
(* The network probes of a node agent (kube/netprobe.go): the cluster DNS,  *)
(* an outside address, and a sample of the Services that rotates from pass  *)
(* to pass.  One target is followed: counts and windows belong to a target  *)
(* alone, and the Services share only the rotation.                         *)
(***************************************************************************)
EXTENDS Naturals, FiniteSets

CONSTANTS
    Services,     \* the Services of the watch scope, sorted: 1..n
    Sample,       \* serviceProbeSample
    TTL           \* the dedup TTL, in ticks; a tick holds one pass

probeFailuresBeforeReport == 2
Cap == probeFailuresBeforeReport + 1     \* bound: a count above the report's

VARIABLES
    target,       \* the DNS, the outside address, or the Service that is followed
    net,          \* what a probe of it meets: "up", "slow" (DNS) or "down"
    ready,        \* the Services with an address and ready endpoints
    offset,       \* netProber.offset
    fails, slow,  \* netProber.fails of its two keys, capped
    window,       \* what is left of report's window for its failure, and
    slowWindow,   \* for its slowness
    ran,          \* the probes ran in this tick
    waited,       \* history: passes since it was dialled, or since the Services changed
    told,         \* history: the outage, as the probes see it, was told
    recent        \* history: an earlier one was told less than a TTL before

vars == <<target, net, ready, offset, fails, slow, window, slowWindow, ran, waited, told, recent>>

(* A target is a kind and, for "svc", the Service.                           *)
Targets == {<<"dns", 0>>, <<"egress", 0>>} \cup ({"svc"} \X Services)
IsService == target[1] = "svc"

(* Shapes of the counts and of the rotation.                                 *)
TypeOK ==
    /\ target \in Targets
    /\ net \in {"up", "slow", "down"} /\ ready \subseteq Services
    /\ offset \in 0..(Cardinality(Services) - 1) /\ fails \in 0..Cap /\ slow \in 0..Cap
    /\ window \in 0..TTL /\ slowWindow \in 0..TTL
    /\ waited \in 0..Cardinality(Services) /\ {ran, told, recent} \subseteq BOOLEAN

Init ==
    /\ target \in Targets
    /\ net = "up" /\ ready = Services /\ offset = 0 /\ fails = 0 /\ slow = 0
    /\ window = 0 /\ slowWindow = 0
    /\ ran = FALSE /\ waited = 0 /\ told = FALSE /\ recent = FALSE

(* serviceTargets, sorted: the i-th, counted from 0.                         *)
Nth(S, i) == CHOOSE s \in S : Cardinality({r \in S : r < s}) = i

(* The Services of this pass: Sample of them from offset on, around the end. *)
Sampled ==
    LET n == Cardinality(ready)
    IN  {Nth(ready, (offset + i) % n) : i \in {j \in 0..(Sample - 1) : j < n}}

NextOffsetFixed == offset
NextOffset == IF ready = {} THEN offset ELSE (offset + Sample) % Cardinality(ready)

Dialled == IsService => target[2] \in Sampled

Counted(n) == IF n < Cap THEN n + 1 ELSE Cap

(* failed: exactly at the second failure in a row it is time to tell; report *)
(* has a window of its own.                                                  *)
Reports(n) == Counted(n) = probeFailuresBeforeReport

Failure ==
    /\ net = "down"
    /\ fails' = Counted(fails)
    /\ IF Reports(fails) /\ window = 0 THEN window' = TTL /\ told' = TRUE ELSE UNCHANGED <<window, told>>
    /\ recent' = (recent \/ (Reports(fails) /\ window > 0))
    /\ UNCHANGED <<slow, slowWindow>>

Slowness ==
    /\ net = "slow" /\ fails' = 0 /\ slow' = Counted(slow)
    /\ slowWindow' = IF Reports(slow) /\ slowWindow = 0 THEN TTL ELSE slowWindow
    /\ told' = FALSE /\ recent' = FALSE /\ UNCHANGED window

AnswerKeepsCount ==
    /\ net = "up" /\ slow' = 0
    /\ told' = FALSE /\ recent' = FALSE /\ UNCHANGED <<fails, window, slowWindow>>
Answer ==
    /\ net = "up" /\ fails' = 0 /\ slow' = 0
    /\ told' = FALSE /\ recent' = FALSE /\ UNCHANGED <<window, slowWindow>>

(* probeOnce.                                                                *)
probeOnce ==
    /\ ~ran /\ ran' = TRUE /\ waited' = IF Dialled \/ target[2] \notin ready THEN 0 ELSE waited + 1
    /\ offset' = NextOffset
    /\ IF Dialled THEN Failure \/ Slowness \/ Answer
       ELSE UNCHANGED <<fails, slow, window, slowWindow, told, recent>>
    /\ UNCHANGED <<target, net, ready>>

(* The network changes, and the Services do.                                 *)
NetChanges ==
    /\ net' \in {"up", "down"} \cup (IF target[1] = "dns" THEN {"slow"} ELSE {}) /\ net' # net
    /\ UNCHANGED <<target, ready, offset, fails, slow, window, slowWindow, ran, waited, told, recent>>

(* Or a list failed, and the Services of a namespace are missing.            *)
EndpointsChange ==
    /\ \E R \in SUBSET Services : ready' = R
    /\ IsService /\ waited' = 0
    /\ UNCHANGED <<target, net, offset, fails, slow, window, slowWindow, ran, told, recent>>

Less(n) == IF n > 0 THEN n - 1 ELSE 0
Tick ==
    /\ ran /\ ran' = FALSE
    /\ window' = Less(window) /\ slowWindow' = Less(slowWindow)
    /\ UNCHANGED <<target, net, ready, offset, fails, slow, waited, told, recent>>

(* A new process of the agent.                                               *)
Restart ==
    /\ fails' = 0 /\ slow' = 0 /\ window' = 0 /\ slowWindow' = 0 /\ offset' = 0 /\ ran' = FALSE
    /\ waited' = 0 /\ told' = FALSE /\ recent' = FALSE
    /\ UNCHANGED <<target, net, ready>>

Next == probeOnce \/ NetChanges \/ EndpointsChange \/ Tick \/ Restart

Spec == Init /\ [][Next]_vars

-----------------------------------------------------------------------------
(* Properties. *)

(* While the Services stay as they are the rotation reaches each of them in  *)
(* as many passes as there are samples to cover them, wherever it stood when *)
(* they last changed.                                                        *)
EveryServiceDialled ==
    IsService /\ target[2] \in ready => waited * Sample < Cardinality(ready)

(* An outage is told from the second failure in a row on, unless the one     *)
(* before it was told less than a TTL earlier: that one is never told, as    *)
(* the count passes two only once.                                           *)
OutageTold == fails >= probeFailuresBeforeReport => told \/ recent
=================================================================================
