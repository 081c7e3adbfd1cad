------------------------------- MODULE Leadership -------------------------------
(***************************************************************************)
(* Leader election of the controllers (internal/leader/leader.go), the     *)
(* check loops that only the leader runs (leaderLoops in run.go) and the   *)
(* proxy by which the other controllers answer requests (newLeaderTarget   *)
(* in run.go, toLeader in httpapi/proxy.go).                               *)
(*                                                                         *)
(* The lease and client-go's elector are external.  The elector renews the *)
(* lease while it leads and gives up RenewDeadline (10 s) after its last   *)
(* renewal, before the lease expires at LeaseDuration (15 s); that order   *)
(* is all that is kept of time: a lease expires only when its holder no    *)
(* longer renews it.  Its callbacks are run in the order of the events     *)
(* they report, which are at least RetryPeriod (2 s) apart.                *)
(***************************************************************************)
EXTENDS Naturals

CONSTANTS
    Controllers,    \* the controller pods
    MaxOutages,     \* bound: times a controller loses the API server
    MaxCrashes      \* bound: processes that stop or crash

NoOne == "no one"

ASSUME LeadershipAssumption ==
    /\ NoOne \notin Controllers
    /\ MaxOutages \in Nat /\ MaxCrashes \in Nat

VARIABLES
    holder,     \* the lease: holderIdentity, or NoOne
    elector,    \* elector[c]: what RunOrDie is doing
    flag,       \* flag[c]: Elector.leader, which IsLeader returns
    current,    \* current[c]: Elector.current, NoOne for the empty identity
    loop,       \* loop[c]: whether leaderLoops runs a leaderOnly group
    reach,      \* reach[c]: whether c reaches the API server
    outages, crashes

vars == <<holder, elector, flag, current, loop, reach, outages, crashes>>

(* "stopping": the elector has given up and releases the lease, before       *)
(* OnStoppedLeading; "over": RunOrDie has returned.                          *)
Phases == {"down", "trying", "leading", "stopping", "over"}

(* The shape of every variable. *)
TypeOK ==
    /\ holder \in Controllers \cup {NoOne}
    /\ elector \in [Controllers -> Phases]
    /\ flag \in [Controllers -> BOOLEAN]
    /\ current \in [Controllers -> Controllers \cup {NoOne}]
    /\ loop \in [Controllers -> {"idle", "checks"}]
    /\ reach \in [Controllers -> BOOLEAN]
    /\ outages \in 0..MaxOutages /\ crashes \in 0..MaxCrashes

Init ==
    /\ holder = NoOne
    /\ elector = [c \in Controllers |-> "trying"]
    /\ flag = [c \in Controllers |-> FALSE]
    /\ current = [c \in Controllers |-> NoOne]
    /\ loop = [c \in Controllers |-> "idle"]
    /\ reach = [c \in Controllers |-> TRUE]
    /\ outages = 0 /\ crashes = 0

Up(c) == elector[c] # "down"

--------------------------------------------------------------------------------
(* The elector and its callbacks. *)

(* The lease is free, or was left by an earlier process of the same pod. *)
Acquire(c) ==
    /\ elector[c] = "trying" /\ reach[c]
    /\ holder \in {NoOne, c}
    /\ holder' = c
    /\ elector' = [elector EXCEPT ![c] = "leading"]
    /\ UNCHANGED <<flag, current, loop, reach, outages, crashes>>

StartedUnrecorded(c) ==
    /\ elector[c] = "leading" /\ ~flag[c]
    /\ UNCHANGED vars

OnStartedLeading(c) ==
    /\ elector[c] = "leading" /\ ~flag[c]
    /\ flag' = [flag EXCEPT ![c] = TRUE]
    /\ UNCHANGED <<holder, elector, current, loop, reach, outages, crashes>>

OnFirstLeader(c) ==
    /\ elector[c] \in {"trying", "leading"} /\ reach[c]
    /\ current[c] = NoOne /\ holder # NoOne
    /\ current' = [current EXCEPT ![c] = holder]
    /\ UNCHANGED <<holder, elector, flag, loop, reach, outages, crashes>>

(* Every RetryPeriod the elector reads the lease; OnNewLeader. *)
OnNewLeader(c) ==
    /\ elector[c] \in {"trying", "leading"} /\ reach[c]
    /\ current[c] # holder
    /\ current' = [current EXCEPT ![c] = holder]
    /\ UNCHANGED <<holder, elector, flag, loop, reach, outages, crashes>>

(* RenewDeadline passes without a renewal. *)
GiveUp(c) ==
    /\ elector[c] = "leading" /\ ~reach[c]
    /\ elector' = [elector EXCEPT ![c] = "stopping"]
    /\ UNCHANGED <<holder, flag, current, loop, reach, outages, crashes>>

(* ReleaseOnCancel *)
Release(c) ==
    /\ elector[c] = "stopping" /\ reach[c]
    /\ holder = c
    /\ holder' = NoOne
    /\ UNCHANGED <<elector, flag, current, loop, reach, outages, crashes>>

FlagKept(c) == flag

FlagCleared(c) == [flag EXCEPT ![c] = FALSE]

(* The lease was released or could not be: RunOrDie returns, and nothing    *)
(* starts it again.                                                         *)
OnStoppedLeading(c) ==
    /\ elector[c] = "stopping"
    /\ elector' = [elector EXCEPT ![c] = "over"]
    /\ flag' = FlagCleared(c)
    /\ UNCHANGED <<holder, current, loop, reach, outages, crashes>>

(* LeaseDuration passes without a renewal by the holder. *)
Expire ==
    /\ holder # NoOne /\ elector[holder] # "leading"
    /\ holder' = NoOne
    /\ UNCHANGED <<elector, flag, current, loop, reach, outages, crashes>>

--------------------------------------------------------------------------------
(* leaderLoops: IsLeader is asked once, before the checks of a group. *)

StartChecksAnywhere(c) ==
    /\ Up(c) /\ loop[c] = "idle"
    /\ loop' = [loop EXCEPT ![c] = "checks"]
    /\ UNCHANGED <<holder, elector, flag, current, reach, outages, crashes>>

StartChecks(c) ==
    /\ Up(c) /\ loop[c] = "idle" /\ flag[c]
    /\ loop' = [loop EXCEPT ![c] = "checks"]
    /\ UNCHANGED <<holder, elector, flag, current, reach, outages, crashes>>

EndChecks(c) ==
    /\ loop[c] = "checks"
    /\ loop' = [loop EXCEPT ![c] = "idle"]
    /\ UNCHANGED <<holder, elector, flag, current, reach, outages, crashes>>

--------------------------------------------------------------------------------
(* newLeaderTarget and toLeader *)

(* Where a request that arrives at c is served: here while c leads, else at  *)
(* the controller it takes for the leader, which serves it whatever it is    *)
(* (proxiedHeader).  NoOne: 503.                                             *)
Target(c) == IF flag[c] THEN c ELSE current[c]

--------------------------------------------------------------------------------
(* The processes and the network. *)

Stop(c) ==
    /\ Up(c) /\ crashes < MaxCrashes
    /\ elector' = [elector EXCEPT ![c] = "down"]
    /\ flag' = [flag EXCEPT ![c] = FALSE]
    /\ current' = [current EXCEPT ![c] = NoOne]
    /\ loop' = [loop EXCEPT ![c] = "idle"]
    \* with SIGTERM the elector may still release the lease
    /\ \/ holder' = holder
       \/ holder = c /\ holder' = NoOne
    /\ crashes' = crashes + 1
    /\ UNCHANGED <<reach, outages>>

StartAgain(c) ==
    /\ ~Up(c)
    /\ elector' = [elector EXCEPT ![c] = "trying"]
    /\ UNCHANGED <<holder, flag, current, loop, reach, outages, crashes>>

Outage(c) ==
    /\ reach[c] /\ outages < MaxOutages
    /\ reach' = [reach EXCEPT ![c] = FALSE]
    /\ outages' = outages + 1
    /\ UNCHANGED <<holder, elector, flag, current, loop, crashes>>

Heal(c) ==
    /\ ~reach[c]
    /\ reach' = [reach EXCEPT ![c] = TRUE]
    /\ UNCHANGED <<holder, elector, flag, current, loop, outages, crashes>>

--------------------------------------------------------------------------------
Elect(c) ==
    \/ Acquire(c) \/ OnStartedLeading(c) \/ OnNewLeader(c) \/ GiveUp(c)
    \/ Release(c) \/ OnStoppedLeading(c)

Next ==
    \/ \E c \in Controllers :
          \/ Elect(c) \/ StartChecks(c) \/ EndChecks(c)
          \/ Stop(c) \/ StartAgain(c) \/ Outage(c) \/ Heal(c)
    \/ Expire

Spec == Init /\ [][Next]_vars

(* The elector retries every two seconds and its callbacks run; leases      *)
(* expire, outages end, Kubernetes restarts a pod, and checks return.       *)
Fairness ==
    /\ WF_vars(Expire)
    /\ \A c \in Controllers :
          /\ WF_vars(Acquire(c)) /\ WF_vars(OnStartedLeading(c))
          /\ WF_vars(OnNewLeader(c)) /\ WF_vars(OnStoppedLeading(c))
          /\ WF_vars(EndChecks(c)) /\ WF_vars(StartAgain(c)) /\ WF_vars(Heal(c))

FairSpec == Spec /\ Fairness

--------------------------------------------------------------------------------
(* Properties. *)

(* At most one controller takes itself for the leader, except one that has   *)
(* given up and is about to be told (OnStoppedLeading comes after the        *)
(* release, so its successor may lead already).                              *)
OneLeader ==
    \A c, d \in Controllers :
        flag[c] /\ flag[d] /\ c # d => "stopping" \in {elector[c], elector[d]}

(* A group of checks that outlives the lease may overlap with those of the   *)
(* next leader, but two controllers run checks at once only when one of them *)
(* has given up.                                                             *)
ChecksOverlap ==
    \A c, d \in Controllers :
        loop[c] = "checks" /\ loop[d] = "checks" /\ c # d =>
            \E x \in {c, d} : elector[x] \in {"stopping", "over"}

(* What a user of the election sees of it.                                   *)
Office == INSTANCE LeaderOffice WITH
    leading <- {c \in Controllers : elector[c] = "leading"},
    told    <- {c \in Controllers : flag[c]},
    ousted  <- {c \in Controllers : elector[c] \in {"stopping", "over"}},
    busy    <- {c \in Controllers : loop[c] = "checks"}

(* Leader election is an office that one controller holds at a time: no      *)
(* controller acquires it while another leads, none leads twice in one       *)
(* process, what IsLeader answers lags behind but never goes ahead of it,    *)
(* and checks start only where it answers true.                              *)
ImplementsOffice == Office!Spec

Leads(c) == elector[c] = "leading" /\ flag[c]

(* No controller tries for ever to become leader while nobody leads: a       *)
(* standby takes the place of a leader that crashed, stopped or gave up.     *)
SuccessorLeads ==
    \A c \in Controllers :
        elector[c] = "trying" ~> (\E l \in Controllers : Leads(l)) \/ elector[c] = "over"

(* A standby comes to send its requests to the leader, and stays with it.    *)
StandbysForward ==
    \A c \in Controllers :
        <>[](elector[c] = "trying" => \E l \in Controllers : Leads(l) /\ Target(c) = l)

(* There is a leader again after every loss: "Leader election transfers".    *)
EventuallyLed == []<>(\E c \in Controllers : Leads(c))
================================================================================
