------------------------------- MODULE FixTracker -------------------------------
(***************************************************************************)
(* Fix verification (kube/fixtracker.go) in one process: handlers record    *)
(* the actions they took, and a pass of the leader loops asks whether the   *)
(* workload recovered.  A pass works on a copy of the pending records,      *)
(* without the lock, and puts back what is still pending at its end.        *)
(***************************************************************************)
EXTENDS Integers, Sequences, SequencesExt, FiniteSets

CONSTANTS
    Actions,      \* the remediations this process applies
    Settle, Stable, GiveUp,   \* fixSettleAfter, fixStableFor, fixGiveUpAfter, in ticks
    MaxLen,       \* how many verdicts of a kind are kept for the dashboard
    Controls      \* the process has the controller role: it runs the leader loops

VARIABLES
    age,          \* age[a]: ticks since a was recorded, -1 before
    pending,      \* the records, oldest first: the action and HealthySince
    fixed, failed,\* the verdicts kept
    pass,         \* VerifyFixes: the rest of its copy, and stillPending
    lead,         \* le.IsLeader()
    verdict,      \* history: the verdicts on an action, each with its age
    bad,          \* history: the age at the last unhealthy sample
    paged         \* history: how often FixNotRecovered was escalated

vars == <<age, pending, fixed, failed, pass, lead, verdict, bad, paged>>

Never == -1
Record(a) == [of |-> a, since |-> Never]    \* since: HealthySince, as an age of the action
NoPass == [on |-> FALSE, todo |-> <<>>, still |-> <<>>, taken |-> 0]

Ages == Never..(GiveUp + 1)
Records == [of : Actions, since : Ages]
SeqUpTo(S, n) == UNION {[1..k -> S] : k \in 0..n}

(* Shapes of the records, the lists and the pass of VerifyFixes.             *)
TypeOK ==
    /\ age \in [Actions -> Ages]
    /\ pending \in SeqUpTo(Records, Cardinality(Actions))
    /\ fixed \in SeqUpTo(Actions, MaxLen) /\ failed \in SeqUpTo(Actions, MaxLen)
    /\ pass.on \in BOOLEAN /\ pass.taken \in 0..Len(pending)
    /\ lead \in BOOLEAN
    /\ verdict \in [Actions -> SUBSET ({"fixed", "not-fixed"} \X Ages)]
    /\ bad \in [Actions -> Ages] /\ paged \in [Actions -> 0..1]

Init ==
    /\ age = [a \in Actions |-> Never]
    /\ pending = <<>> /\ fixed = <<>> /\ failed = <<>>
    /\ pass = NoPass /\ lead = FALSE
    /\ verdict = [a \in Actions |-> {}]
    /\ bad = [a \in Actions |-> Never] /\ paged = [a \in Actions |-> 0]

-----------------------------------------------------------------------------
(* A handler applied a change through the gate.                              *)
RecordAction(a) ==
    /\ age[a] = Never
    /\ age' = [age EXCEPT ![a] = 0]
    /\ pending' = Append(pending, Record(a))
    /\ UNCHANGED <<fixed, failed, pass, lead, verdict, bad, paged>>

(* The oldest verdict makes room for a new one.                              *)
Kept(list, a) == Append(IF Len(list) >= MaxLen THEN Tail(list) ELSE list, a)

(* The current spec of the Deployment is rolled out and every replica ready; *)
(* old replicas that are ready do not count.                                 *)
deploymentRecovered(d) ==
    d.observed /\ d.updated >= d.desired /\ d.ready >= d.desired /\ d.unavailable = 0

(* What can be read of a workload: its Deployment, or, when there is none,   *)
(* the pods that its name owns.                                              *)
Deployments == [observed : BOOLEAN, desired : {1}, updated : 0..1, ready : 0..1, unavailable : 0..1]
Reads ==
    {[got |-> "deployment", deploy |-> d] : d \in Deployments}
    \cup {[got |-> "error"]}
    \cup {[got |-> "pods", matching |-> m, ready |-> r] : m \in 0..2, r \in 0..2}

(* A read that fails, and a workload without pods, are not healthy.          *)
isWorkloadHealthy(r) ==
    \/ r.got = "deployment" /\ deploymentRecovered(r.deploy)
    \/ r.got = "pods" /\ r.matching > 0 /\ r.ready = r.matching
Samples == {isWorkloadHealthy(r) : r \in Reads}

(* HealthySince after a sample.                                              *)
SinceSticky(rec, healthy) == IF healthy /\ rec.since = Never THEN age[rec.of] ELSE rec.since
Since(rec, healthy) ==
    IF ~healthy THEN Never ELSE IF rec.since = Never THEN age[rec.of] ELSE rec.since

(* A pass starts with a copy of the pending records.                         *)
VerifyFixes ==
    /\ lead /\ ~pass.on
    /\ pass' = [on |-> TRUE, todo |-> pending, still |-> <<>>, taken |-> Len(pending)]
    /\ UNCHANGED <<age, pending, fixed, failed, lead, verdict, bad, paged>>

Rest == Tail(pass.todo)
Goes(rec) == pass' = [pass EXCEPT !.todo = Rest, !.still = Append(@, rec)]
Leaves == pass' = [pass EXCEPT !.todo = Rest]
Decides(a, v) == verdict' = [verdict EXCEPT ![a] = @ \cup {<<v, age[a]>>}]

(* The next record of the copy: given up, too young, or looked at.           *)
VerifyNext ==
    /\ pass.on /\ pass.todo # <<>>
    /\ LET rec == Head(pass.todo)
           a == rec.of
       IN  \/ /\ age[a] > GiveUp
              /\ failed' = Kept(failed, a) /\ Decides(a, "not-fixed")
              /\ paged' = [paged EXCEPT ![a] = @ + 1]
              /\ Leaves /\ UNCHANGED <<fixed, bad>>
           \/ /\ age[a] < Settle
              /\ Goes(rec) /\ UNCHANGED <<fixed, failed, verdict, bad, paged>>
           \/ /\ age[a] \in Settle..GiveUp
              /\ \E healthy \in Samples :
                    LET since == Since(rec, healthy)
                    IN  /\ bad' = IF healthy THEN bad ELSE [bad EXCEPT ![a] = age[a]]
                        /\ IF healthy /\ age[a] - since >= Stable
                           THEN /\ fixed' = Kept(fixed, a) /\ Decides(a, "fixed") /\ Leaves
                           ELSE /\ Goes([rec EXCEPT !.since = since])
                                /\ UNCHANGED <<fixed, verdict>>
              /\ UNCHANGED <<failed, paged>>
    /\ UNCHANGED <<age, pending, lead>>

(* The records of actions taken since the copy follow the ones still pending.*)
VerifyEndOverwrites ==
    /\ pass.on /\ pass.todo = <<>>
    /\ pending' = pass.still
    /\ pass' = NoPass
    /\ UNCHANGED <<age, fixed, failed, lead, verdict, bad, paged>>
VerifyEnd ==
    /\ pass.on /\ pass.todo = <<>>
    /\ pending' = pass.still \o SubSeq(pending, pass.taken + 1, Len(pending))
    /\ pass' = NoPass
    /\ UNCHANGED <<age, fixed, failed, lead, verdict, bad, paged>>

(* Time passes, also within a pass.                                          *)
Tick ==
    /\ \E a \in Actions : age[a] \in 0..GiveUp
    /\ age' = [a \in Actions |-> IF age[a] \in 0..GiveUp THEN age[a] + 1 ELSE age[a]]
    /\ UNCHANGED <<pending, fixed, failed, pass, lead, verdict, bad, paged>>

(* The lease changes hands; a pass that began goes on.  A node agent         *)
(* (startWork without the controller role) starts no loops and never leads.  *)
LeaseChanges ==
    /\ Controls /\ lead' = ~lead
    /\ UNCHANGED <<age, pending, fixed, failed, pass, verdict, bad, paged>>

Next ==
    \/ \E a \in Actions : RecordAction(a)
    \/ VerifyFixes \/ VerifyNext \/ VerifyEnd \/ Tick \/ LeaseChanges

Spec == Init /\ [][Next]_vars

-----------------------------------------------------------------------------
(* Properties. *)

(* Where the record of an action is: in the rest of the copy, kept by the    *)
(* pass, behind the copied part of the list, or in the list between passes.  *)
Waiting ==
    IF pass.on THEN pass.todo \o pass.still \o SubSeq(pending, pass.taken + 1, Len(pending))
    ELSE pending
Times(a) == Cardinality({i \in DOMAIN Waiting : Waiting[i].of = a})

(* Every action that was taken waits once, or has its one verdict: no pass   *)
(* loses an action recorded while it ran, repeats a verdict or pages twice.  *)
ActionsConserved ==
    \A a \in Actions : Times(a) + Cardinality(verdict[a]) = IF age[a] = Never THEN 0 ELSE 1

(* An action counts as a fix only when the workload was healthy in every     *)
(* sample of the last fixStableFor.                                           *)
FixedStayedHealthy ==
    \A a \in Actions : \A v \in verdict[a] :
        v[1] = "fixed" => bad[a] = Never \/ v[2] - bad[a] >= Stable

Verified(a) == age[a] # Never => verdict[a] # {}

(* In a process that leads from some time on, every action that was taken,   *)
(* before or since, comes to count as fixed, or as not fixed after           *)
(* fixGiveUpAfter.  An action is taken once and a verdict stays, so it is    *)
(* enough that there is no last time at which all are verified.              *)
LeaderVerifies == []<>(lead => \A a \in Actions : Verified(a))
================================================================================
