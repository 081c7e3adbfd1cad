---------------------------- MODULE LeadershipProofs ----------------------------
(***************************************************************************)
(* That at most one controller leads, and that the lease and the electors   *)
(* implement LeaderOffice, for any set of controllers and any number of     *)
(* outages and crashes.                                                     *)
(***************************************************************************)
EXTENDS Leadership, TLAPS

(* A leading elector holds the lease, and the flag is set only between       *)
(* OnStartedLeading and OnStoppedLeading.  Checks run only where the flag    *)
(* was set since the process started.                                        *)
LeaseInv ==
    \A c \in Controllers :
        /\ elector[c] = "leading" => holder = c
        /\ flag[c] => elector[c] \in {"leading", "stopping"}
        /\ loop[c] = "checks" => elector[c] \in {"leading", "stopping", "over"}

IndInv == TypeOK /\ LeaseInv

(* The inductive invariant holds when every controller starts. *)
LEMMA InitInd == Init => IndInv
BY LeadershipAssumption DEF Init, IndInv, TypeOK, LeaseInv, Phases

(* Every step of an elector, a check loop, a process or the network keeps    *)
(* the types.                                                                *)
LEMMA NextTypeOK == TypeOK /\ [Next]_vars => TypeOK'
<1> SUFFICES ASSUME TypeOK, [Next]_vars PROVE TypeOK'
  OBVIOUS
<1> USE LeadershipAssumption DEF TypeOK, Phases
<1>1. ASSUME NEW c \in Controllers, Elect(c) PROVE TypeOK'
  BY <1>1 DEF Elect, Acquire, OnStartedLeading, OnNewLeader, GiveUp, Release,
              OnStoppedLeading, FlagCleared
<1>2. ASSUME NEW c \in Controllers, StartChecks(c) \/ EndChecks(c) PROVE TypeOK'
  BY <1>2 DEF StartChecks, EndChecks
<1>3. ASSUME NEW c \in Controllers, Stop(c) PROVE TypeOK'
  BY <1>3 DEF Stop
<1>4. ASSUME NEW c \in Controllers, StartAgain(c) \/ Heal(c) PROVE TypeOK'
  BY <1>4 DEF StartAgain, Heal
<1>5. ASSUME NEW c \in Controllers, Outage(c) PROVE TypeOK'
  BY <1>5 DEF Outage
<1>6. CASE Expire
  BY <1>6 DEF Expire
<1>7. CASE UNCHANGED vars
  BY <1>7 DEF vars
<1>. QED  BY <1>1, <1>2, <1>3, <1>4, <1>5, <1>6, <1>7 DEF Next

(* Every step keeps the lease with the elector that leads: it is acquired    *)
(* only when free, and expires or is released only once its holder gave up.  *)
LEMMA NextLeaseInv == IndInv /\ [Next]_vars => LeaseInv'
<1> SUFFICES ASSUME IndInv, [Next]_vars PROVE LeaseInv'
  OBVIOUS
<1> USE LeadershipAssumption DEF IndInv, TypeOK, LeaseInv
<1>1. ASSUME NEW c \in Controllers, Acquire(c) PROVE LeaseInv'
  BY <1>1 DEF Acquire
<1>2. ASSUME NEW c \in Controllers, OnStartedLeading(c) PROVE LeaseInv'
  BY <1>2 DEF OnStartedLeading
<1>3. ASSUME NEW c \in Controllers, OnNewLeader(c) PROVE LeaseInv'
  BY <1>3 DEF OnNewLeader
<1>4. ASSUME NEW c \in Controllers, GiveUp(c) PROVE LeaseInv'
  BY <1>4 DEF GiveUp
<1>5. ASSUME NEW c \in Controllers, Release(c) PROVE LeaseInv'
  BY <1>5 DEF Release
<1>6. ASSUME NEW c \in Controllers, OnStoppedLeading(c) PROVE LeaseInv'
  BY <1>6 DEF OnStoppedLeading, FlagCleared
<1>7. ASSUME NEW c \in Controllers, StartChecks(c) \/ EndChecks(c) PROVE LeaseInv'
  BY <1>7 DEF StartChecks, EndChecks
<1>8. ASSUME NEW c \in Controllers, Stop(c) PROVE LeaseInv'
  BY <1>8 DEF Stop
<1>9. ASSUME NEW c \in Controllers, StartAgain(c) PROVE LeaseInv'
  BY <1>9 DEF StartAgain, Up
<1>10. ASSUME NEW c \in Controllers, Outage(c) \/ Heal(c) PROVE LeaseInv'
  BY <1>10 DEF Outage, Heal
<1>11. CASE Expire
  BY <1>11 DEF Expire
<1>12. CASE UNCHANGED vars
  BY <1>12 DEF vars
<1>. QED
  BY <1>1, <1>2, <1>3, <1>4, <1>5, <1>6, <1>7, <1>8, <1>9, <1>10, <1>11, <1>12
     DEF Next, Elect

(* Two controllers that both take themselves for the leader cannot both      *)
(* hold the lease, so one of them is already stopping.                       *)
LEMMA LeaseGivesOneLeader == IndInv => OneLeader
BY LeadershipAssumption DEF IndInv, LeaseInv, TypeOK, OneLeader

(* Nor can two controllers that run checks, so one of them gave up.          *)
LEMMA LeaseGivesChecksOverlap == IndInv => ChecksOverlap
BY LeadershipAssumption DEF IndInv, LeaseInv, TypeOK, ChecksOverlap

(* No step breaks the inductive invariant.                                   *)
LEMMA NextInd == IndInv /\ [Next]_vars => IndInv'
BY NextTypeOK, NextLeaseInv DEF IndInv

(* Whatever electors, check loops, crashes and outages do, every variable    *)
(* keeps its shape.                                                          *)
THEOREM TypeCorrect == Spec => []TypeOK
BY InitInd, NextInd, PTL DEF Spec, IndInv

(* At most one controller takes itself for the leader, but for one that has  *)
(* given up and waits for OnStoppedLeading (leader.go), in every behaviour   *)
(* of any number of controllers.                                             *)
THEOREM AtMostOneLeader == Spec => []OneLeader
BY InitInd, NextInd, LeaseGivesOneLeader, PTL DEF Spec

(* leaderLoops (run.go) asks IsLeader once for a group of checks; still, two *)
(* controllers run such checks at the same time only when one of them has    *)
(* given up the lease.                                                       *)
THEOREM LateChecksOnly == Spec => []ChecksOverlap
BY InitInd, NextInd, LeaseGivesChecksOverlap, PTL DEF Spec

--------------------------------------------------------------------------------
(* The office. *)

(* Acquire: the lease is free or left by an earlier process, so nobody is in *)
(* office, and this process was not told of one before.                      *)
LEMMA AcquireIsElected ==
    ASSUME IndInv, NEW c \in Controllers, Acquire(c)
    PROVE  Office!Elected(c)
<1> USE LeadershipAssumption DEF IndInv, TypeOK, LeaseInv, Acquire
<1>1. {d \in Controllers : elector[d] = "leading"} = {}
  OBVIOUS
<1>2. {d \in Controllers : elector'[d] = "leading"} = {c}
  BY <1>1
<1>3. c \notin {d \in Controllers : flag[d]} \cup {d \in Controllers : elector[d] \in {"stopping", "over"}}
  OBVIOUS
<1>4. {d \in Controllers : elector'[d] \in {"stopping", "over"}} = {d \in Controllers : elector[d] \in {"stopping", "over"}}
  OBVIOUS
<1> QED
  BY <1>1, <1>2, <1>3, <1>4 DEF Office!Elected

(* OnStartedLeading runs while its elector leads.                            *)
LEMMA StartedIsTold ==
    ASSUME IndInv, NEW c \in Controllers, OnStartedLeading(c)
    PROVE  Office!ToldOfOffice(c)
<1>1. {d \in Controllers : flag'[d]} = {d \in Controllers : flag[d]} \cup {c}
  BY DEF OnStartedLeading, IndInv, TypeOK
<1> QED
  BY <1>1 DEF OnStartedLeading, Office!ToldOfOffice

(* GiveUp ends the office, although the lease is kept or released later.     *)
LEMMA GiveUpLeaves ==
    ASSUME IndInv, NEW c \in Controllers, GiveUp(c)
    PROVE  Office!Leaves(c)
<1> USE LeadershipAssumption DEF IndInv, TypeOK, LeaseInv, GiveUp
<1>1. \A d \in Controllers : elector[d] = "leading" => d = c
  OBVIOUS
<1>2. {d \in Controllers : elector'[d] = "leading"} = {}
  BY <1>1
<1>3. {d \in Controllers : elector'[d] \in {"stopping", "over"}}
         = {d \in Controllers : elector[d] \in {"stopping", "over"}} \cup {c}
  OBVIOUS
<1> QED
  BY <1>2, <1>3 DEF Office!Leaves

(* OnStoppedLeading comes to one that has left the office.                   *)
LEMMA StoppedIsTold ==
    ASSUME IndInv, NEW c \in Controllers, OnStoppedLeading(c)
    PROVE  Office!ToldOfLoss(c)
<1> USE DEF IndInv, TypeOK, OnStoppedLeading, FlagCleared
<1>1. {d \in Controllers : flag'[d]} = {d \in Controllers : flag[d]} \ {c}
  OBVIOUS
<1>2. {d \in Controllers : elector'[d] = "leading"} = {d \in Controllers : elector[d] = "leading"}
  OBVIOUS
<1>3. {d \in Controllers : elector'[d] \in {"stopping", "over"}} = {d \in Controllers : elector[d] \in {"stopping", "over"}}
  OBVIOUS
<1> QED
  BY <1>1, <1>2, <1>3 DEF Office!ToldOfLoss

(* A group of checks starts where IsLeader answers true.                     *)
LEMMA ChecksOfOffice ==
    ASSUME IndInv, NEW c \in Controllers, StartChecks(c) \/ EndChecks(c)
    PROVE  Office!StartsChecks(c) \/ Office!EndsChecks(c)
<1>1. CASE StartChecks(c)
  <2>1. {d \in Controllers : loop'[d] = "checks"} = {d \in Controllers : loop[d] = "checks"} \cup {c}
    BY <1>1 DEF StartChecks, IndInv, TypeOK
  <2> QED
    BY <1>1, <2>1 DEF StartChecks, Office!StartsChecks
<1>2. CASE EndChecks(c)
  <2>1. {d \in Controllers : loop'[d] = "checks"} = {d \in Controllers : loop[d] = "checks"} \ {c}
    BY <1>2 DEF EndChecks, IndInv, TypeOK
  <2> QED
    BY <1>2, <2>1 DEF EndChecks, Office!EndsChecks
<1> QED
  BY <1>1, <1>2

(* A process that stops leaves nothing behind but the lease.                 *)
LEMMA StopEnds ==
    ASSUME IndInv, NEW c \in Controllers, Stop(c)
    PROVE  Office!Ends(c)
<1> USE DEF IndInv, TypeOK, Stop
<1>1. {d \in Controllers : elector'[d] = "leading"} = {d \in Controllers : elector[d] = "leading"} \ {c}
  OBVIOUS
<1>2. {d \in Controllers : flag'[d]} = {d \in Controllers : flag[d]} \ {c}
  OBVIOUS
<1>3. {d \in Controllers : elector'[d] \in {"stopping", "over"}}
         = {d \in Controllers : elector[d] \in {"stopping", "over"}} \ {c}
  OBVIOUS
<1>4. {d \in Controllers : loop'[d] = "checks"} = {d \in Controllers : loop[d] = "checks"} \ {c}
  OBVIOUS
<1> QED
  BY <1>1, <1>2, <1>3, <1>4 DEF Office!Ends

(* The lease, the network and what a controller knows of the holder change   *)
(* nothing that a user of the election sees.                                 *)
LEMMA UnseenSteps ==
    ASSUME IndInv,
           \/ Expire \/ UNCHANGED vars
           \/ \E c \in Controllers :
                 OnNewLeader(c) \/ Release(c) \/ StartAgain(c) \/ Outage(c) \/ Heal(c)
    PROVE  UNCHANGED Office!vars
<1>1. ASSUME NEW c \in Controllers, StartAgain(c)
      PROVE  UNCHANGED Office!vars
  <2>1. /\ {d \in Controllers : elector'[d] = "leading"} = {d \in Controllers : elector[d] = "leading"}
        /\ {d \in Controllers : elector'[d] \in {"stopping", "over"}}
              = {d \in Controllers : elector[d] \in {"stopping", "over"}}
    BY <1>1 DEF StartAgain, Up, IndInv, TypeOK
  <2> QED
    BY <1>1, <2>1 DEF StartAgain, Office!vars
<1>2. CASE Expire \/ UNCHANGED vars
  BY <1>2 DEF Expire, vars, Office!vars
<1>3. ASSUME NEW c \in Controllers, OnNewLeader(c) \/ Release(c) \/ Outage(c) \/ Heal(c)
      PROVE  UNCHANGED Office!vars
  BY <1>3 DEF OnNewLeader, Release, Outage, Heal, Office!vars
<1> QED
  BY <1>1, <1>2, <1>3

(* Leader election (leader.go) and the loops of the leader (run.go) implement *)
(* the office: with any number of controllers, outages and crashes, nobody is *)
(* elected while another leads, a process that gave up never leads again, and *)
(* checks start only where the elector has told of the office.                *)
THEOREM ElectionImplementsOffice == Spec => ImplementsOffice
<1>1. Init => Office!Init
  BY DEF Init, Office!Init
<1>2. IndInv /\ [Next]_vars => [Office!Next]_(Office!vars)
  <2> SUFFICES ASSUME IndInv, [Next]_vars PROVE [Office!Next]_(Office!vars)
    OBVIOUS
  <2>1. ASSUME NEW c \in Controllers,
               \/ Acquire(c) \/ OnStartedLeading(c) \/ GiveUp(c) \/ OnStoppedLeading(c)
               \/ StartChecks(c) \/ EndChecks(c) \/ Stop(c)
        PROVE  Office!Next
    BY <2>1, AcquireIsElected, StartedIsTold, GiveUpLeaves, StoppedIsTold, ChecksOfOffice, StopEnds
       DEF Office!Next
  <2> QED
    BY <2>1, UnseenSteps DEF Next, Elect
<1> QED
  BY <1>1, <1>2, InitInd, NextInd, PTL DEF Spec, ImplementsOffice, Office!Spec

--------------------------------------------------------------------------------
(* What the office alone promises. *)

Leading == {c \in Controllers : elector[c] = "leading"}
Told    == {c \in Controllers : flag[c]}
Ousted  == {c \in Controllers : elector[c] \in {"stopping", "over"}}
Busy    == {c \in Controllers : loop[c] = "checks"}

(* One is in office, and who was told of it or runs checks is in it or has    *)
(* left it.                                                                   *)
OfficeInv ==
    /\ \A c, d \in Leading : c = d
    /\ Told \cup Busy \subseteq Leading \cup Ousted

(* Every behaviour of the office, and so whatever implements it, lets the     *)
(* checks of two controllers overlap only when one of them has left: the      *)
(* bound on late checks in leaderLoops (run.go) rests on nothing else.        *)
THEOREM OfficeBoundsChecks == ImplementsOffice => []ChecksOverlap
<1> USE DEF Leading, Told, Ousted, Busy
<1>1. Office!Init => OfficeInv
  BY DEF Office!Init, OfficeInv
<1>2. OfficeInv /\ [Office!Next]_(Office!vars) => OfficeInv'
  <2> SUFFICES ASSUME OfficeInv, [Office!Next]_(Office!vars) PROVE OfficeInv'
    OBVIOUS
  <2>1. CASE UNCHANGED Office!vars
    BY <2>1 DEF Office!vars, OfficeInv
  <2>2. ASSUME NEW c \in Controllers, Office!Elected(c) PROVE OfficeInv'
    BY <2>2 DEF Office!Elected, OfficeInv
  <2>3. ASSUME NEW c \in Controllers, Office!ToldOfOffice(c) PROVE OfficeInv'
    BY <2>3 DEF Office!ToldOfOffice, OfficeInv
  <2>4. ASSUME NEW c \in Controllers, Office!Leaves(c) PROVE OfficeInv'
    BY <2>4 DEF Office!Leaves, OfficeInv
  <2>5. ASSUME NEW c \in Controllers, Office!ToldOfLoss(c) PROVE OfficeInv'
    BY <2>5 DEF Office!ToldOfLoss, OfficeInv
  <2>6. ASSUME NEW c \in Controllers, Office!StartsChecks(c) PROVE OfficeInv'
    BY <2>6 DEF Office!StartsChecks, OfficeInv
  <2>7. ASSUME NEW c \in Controllers, Office!EndsChecks(c) PROVE OfficeInv'
    BY <2>7 DEF Office!EndsChecks, OfficeInv
  <2>8. ASSUME NEW c \in Controllers, Office!Ends(c) PROVE OfficeInv'
    BY <2>8 DEF Office!Ends, OfficeInv
  <2> QED BY <2>1, <2>2, <2>3, <2>4, <2>5, <2>6, <2>7, <2>8 DEF Office!Next
<1>3. OfficeInv => ChecksOverlap
  BY DEF OfficeInv, ChecksOverlap
<1> QED BY <1>1, <1>2, <1>3, PTL DEF ImplementsOffice, Office!Spec
================================================================================
