------------------------------- MODULE AgentProofs -------------------------------
(***************************************************************************)
(* Proofs about the parts of a process that share nothing but the process:  *)
(* the detectors, the network probes, node pressure, pending and evicted    *)
(* pods, fix verification, the policy store and the autoscaler, for all     *)
(* values of their parameters.  What a proof needs of a parameter is an     *)
(* assumption of Detectors or of Agent.                                     *)
(***************************************************************************)
EXTENDS Agent, Sequences, FiniteSetTheorems, SequenceTheorems, TLAPS

-----------------------------------------------------------------------------
(* Detectors. *)

(* Shapes of the windows; what is followed is of the check that runs.        *)
DetectShape ==
    /\ check \in DOMAIN Observed /\ sights = Observed[check] /\ obs \in sights
    /\ lead \in BOOLEAN /\ ran \in BOOLEAN
    /\ own \in Nat /\ reported \in 0..TTL /\ quiet \in [Severities -> Nat]
    /\ \A o \in sights : \A f \in Followed(o) : own <= Window(f)

(* Only what the check finds now counts as withheld.                         *)
QuietInv == \A s \in Severities : quiet[s] # 0 => \E f \in Followed(obs) : f.severity = s

(* Without a window of its own, what is left of report's bounds the silence. *)
(* With one it does so while report's lasts, and then what is left of the    *)
(* own one; a pass leaves no window closed that it could have told in.       *)
SilenceInv ==
    \A f \in Followed(obs) :
        LET q == quiet[f.severity]
        IN  /\ f.window = "none" => q + reported <= TTL /\ (ran /\ reported = 0 => q = 0)
            /\ f.window # "none" => /\ reported > 0 => q + reported <= TTL
                                    /\ reported = 0 => q + own <= Withheld(f)
                                    /\ ran /\ own = 0 => q = 0

DetectInv == DetectShape /\ QuietInv /\ SilenceInv

(* What the assumption says of what is followed.                             *)
LEMMA FollowedFacts ==
    ASSUME check \in DOMAIN Observed, sights = Observed[check], NEW o \in sights, NEW f \in Followed(o)
    PROVE  /\ f.severity \in Severities /\ f.window \in {"none", "hour", "day"}
           /\ Window(f) \in Nat \ {0} /\ TTL \in Nat \ {0}
           /\ \A p \in sights : \A g \in Followed(p) : g.window = f.window /\ Window(g) = Window(f)
           /\ \A g \in Followed(o) : g = f
<1> DEFINE findings == UNION Observed[check]
<1>1. /\ TTL \in Nat \ {0} /\ Hour \in Nat \ {0} /\ Day \in Nat \ {0}
      /\ \A x \in findings : x.severity \in {"info", "warning", "critical"}
      /\ \A x \in findings : x.window \in {"none", "hour", "day"}
      /\ \A x, y \in findings : KeyOf(x) = KeyOf(y) => x.window = y.window
      /\ \A x \in Observed[check] : \A y, z \in x : KeyOf(y) = KeyOf(z) => y = z
  BY DetectorsAssumption
<1>2. f \in findings /\ KeyOf(f) = key /\ f \in o
  BY DEF Followed
<1>3. ASSUME NEW p \in sights, NEW g \in Followed(p)
      PROVE  g \in findings /\ KeyOf(g) = key /\ g \in p
  BY <1>3 DEF Followed
<1> HIDE DEF findings
<1>4. f.severity \in Severities /\ f.window \in {"none", "hour", "day"}
  BY <1>1, <1>2 DEF Severities
<1>5. Window(f) \in Nat \ {0}
  BY <1>1, <1>4 DEF Window
<1>6. ASSUME NEW p \in sights, NEW g \in Followed(p)
      PROVE  g.window = f.window /\ Window(g) = Window(f)
  BY <1>1, <1>2, <1>3 DEF Window
<1>7. ASSUME NEW g \in Followed(o)
      PROVE  g = f
  BY <1>1, <1>2, <1>3
<1> QED
  BY <1>1, <1>4, <1>5, <1>6, <1>7

(* report withholds the finding or tells it; the own window is consumed      *)
(* first, whatever comes of it.                                              *)
LEMMA ReportFacts ==
    ASSUME NEW f, own \in Nat, reported \in Nat
    PROVE  /\ Report(f).tells = TRUE <=> reported = 0 /\ (f.window = "none" \/ own = 0)
           /\ Report(f).tells \in BOOLEAN
           /\ Report(f).reported = IF reported = 0 /\ (f.window = "none" \/ own = 0) THEN TTL ELSE reported
           /\ Report(f).own = IF f.window # "none" /\ own = 0 THEN Window(f) ELSE own
<1>1. CASE f.window = "none" /\ reported = 0
  <2>1. Report(f) = [tells |-> TRUE, own |-> own, reported |-> TTL]
    BY <1>1 DEF Report, CheckFor
  <2> QED
    BY <1>1, <2>1
<1>2. CASE f.window = "none" /\ reported # 0
  <2>1. Report(f) = [tells |-> FALSE, own |-> own, reported |-> reported]
    BY <1>2 DEF Report, CheckFor
  <2> QED
    BY <1>2, <2>1
<1>3. CASE f.window # "none" /\ own = 0 /\ reported = 0
  <2>1. Report(f) = [tells |-> TRUE, own |-> Window(f), reported |-> TTL]
    BY <1>3 DEF Report, CheckFor
  <2> QED
    BY <1>3, <2>1
<1>4. CASE f.window # "none" /\ own = 0 /\ reported # 0
  <2>1. Report(f) = [tells |-> FALSE, own |-> Window(f), reported |-> reported]
    BY <1>4 DEF Report, CheckFor
  <2> QED
    BY <1>4, <2>1
<1>5. CASE f.window # "none" /\ own # 0
  <2>1. Report(f) = [tells |-> FALSE, own |-> own, reported |-> reported]
    BY <1>5 DEF Report, CheckFor
  <2> QED
    BY <1>5, <2>1
<1> QED
  BY <1>1, <1>2, <1>3, <1>4, <1>5

(* When nothing is withheld, the windows that are left bound the silence.    *)
LEMMA HeardQuiet == DetectShape /\ quiet = Heard => QuietInv /\ SilenceInv
<1> SUFFICES ASSUME DetectShape, quiet = Heard
             PROVE  QuietInv /\ SilenceInv
  OBVIOUS
<1>1. QuietInv
  BY DEF QuietInv, Heard
<1>2. ASSUME NEW f \in Followed(obs)
      PROVE  /\ quiet[f.severity] = 0 /\ reported <= TTL /\ own <= Window(f)
             /\ own \in Nat /\ reported \in Nat /\ TTL \in Nat \ {0} /\ Window(f) \in Nat \ {0}
  BY FollowedFacts DEF DetectShape, Heard
<1>3. SilenceInv
  BY <1>2 DEF SilenceInv, Withheld
<1> QED
  BY <1>1, <1>3

(* A pass finds nothing, tells the finding, or leaves a window that lasts.   *)
LEMMA PassKeeps ==
    ASSUME DetectInv, Pass
    PROVE  DetectInv'
<1>1. /\ check' = check /\ sights' = sights /\ key' = key /\ obs' = obs /\ lead' = lead
      /\ ran' = TRUE
  BY Zenon DEF Pass
<1>2. \A o : Followed(o)' = Followed(o)
  BY <1>1 DEF Followed, KeyOf
<1>3. \A f : Window(f)' = Window(f) /\ Withheld(f)' = Withheld(f)
  BY DEF Window, Withheld
<1>4. /\ check \in DOMAIN Observed /\ sights = Observed[check] /\ obs \in sights
      /\ own \in Nat /\ reported \in Nat /\ reported <= TTL /\ quiet \in [Severities -> Nat]
      /\ \A o \in sights : \A f \in Followed(o) : own <= Window(f)
  <2>1. TTL \in Nat
    BY DetectorsAssumption
  <2> QED
    BY <2>1 DEF DetectInv, DetectShape
<1>5. CASE Followed(obs) = {}
  <2>1. own' = own /\ reported' = reported /\ quiet' = quiet
    BY <1>5, Zenon DEF Pass
  <2>2. DetectShape'
    <3>1. lead' \in BOOLEAN /\ ran' \in BOOLEAN
      BY <1>1, Zenon DEF DetectInv, DetectShape
    <3> QED
      BY <1>1, <1>2, <1>3, <2>1, <3>1 DEF DetectInv, DetectShape
  <2>3. QuietInv' /\ SilenceInv'
    BY <1>1, <1>2, <1>5, <2>1 DEF DetectInv, QuietInv, SilenceInv
  <2> QED
    BY <2>2, <2>3 DEF DetectInv
<1>6. ASSUME NEW f \in Followed(obs),
             own' = Report(f).own, reported' = Report(f).reported,
             quiet' = IF Report(f).tells THEN Told(f.severity) ELSE quiet
      PROVE  DetectInv'
  <2>1. /\ f.severity \in Severities
        /\ Window(f) \in Nat \ {0} /\ TTL \in Nat \ {0}
        /\ \A p \in sights : \A g \in Followed(p) : g.window = f.window /\ Window(g) = Window(f)
        /\ \A g \in Followed(obs) : g = f
    BY <1>4, FollowedFacts
  <2> DEFINE tells == reported = 0 /\ (f.window = "none" \/ own = 0)
             q == quiet[f.severity]
  <2>2. /\ reported' = IF tells THEN TTL ELSE reported
        /\ own' = IF f.window # "none" /\ own = 0 THEN Window(f) ELSE own
    BY <1>4, <1>6, ReportFacts
  <2>3. quiet' = IF tells THEN [quiet EXCEPT ![f.severity] = 0] ELSE quiet
    BY <1>4, <1>6, ReportFacts DEF Told
  <2>4. DetectShape'
    <3>1. lead' \in BOOLEAN /\ ran' \in BOOLEAN
      BY <1>1, Zenon DEF DetectInv, DetectShape
    <3>2. own' \in Nat /\ reported' \in 0..TTL /\ quiet' \in [Severities -> Nat]
      BY <1>4, <2>1, <2>2, <2>3
    <3>3. ASSUME NEW o \in sights, NEW g \in Followed(o)
          PROVE  own' <= Window(g)
      BY <1>4, <2>1, <2>2
    <3>4. check' \in DOMAIN Observed /\ sights' = Observed[check'] /\ obs' \in sights'
      BY <1>1, <1>4
    <3> QED
      BY <1>1, <1>2, <1>3, <3>1, <3>2, <3>3, <3>4 DEF DetectShape
  <2>5. QuietInv'
    <3>1. ASSUME NEW s \in Severities, quiet'[s] # 0
          PROVE  quiet[s] # 0
      BY <1>4, <2>1, <2>3, <3>1
    <3> QED
      BY <1>1, <1>2, <3>1 DEF DetectInv, QuietInv
  <2>6. SilenceInv'
    <3>1. q \in Nat /\ quiet'[f.severity] = IF tells THEN 0 ELSE q
      BY <1>4, <2>1, <2>3
    <3>2. /\ f.window = "none" => q + reported <= TTL
          /\ f.window # "none" => /\ reported > 0 => q + reported <= TTL
                                  /\ reported = 0 => q + own <= Withheld(f)
      BY DEF DetectInv, SilenceInv
    <3>3. /\ f.window = "none" => /\ quiet'[f.severity] + reported' <= TTL
                                  /\ reported' # 0
          /\ f.window # "none" => /\ reported' > 0 => quiet'[f.severity] + reported' <= TTL
                                  /\ reported' = 0 => quiet'[f.severity] + own' <= Withheld(f)
                                  /\ own' # 0
      BY <1>4, <2>1, <2>2, <3>1, <3>2
    <3> QED
      BY <1>1, <1>2, <1>3, <2>1, <3>3 DEF SilenceInv
  <2> QED
    BY <2>4, <2>5, <2>6 DEF DetectInv
<1> QED
  BY <1>5, <1>6, Zenon DEF Pass

(* The object changes to one of which the key is still found at a severity:  *)
(* the windows are those of the key.                                         *)
LEMMA ChangesKeeps ==
    ASSUME DetectInv, Changes
    PROVE  DetectInv'
<1>1. /\ check' = check /\ sights' = sights /\ key' = key /\ lead' = lead /\ ran' = ran
      /\ own' = own /\ reported' = reported
  BY Zenon DEF Changes
<1>2. PICK o \in sights :
        /\ obs' = o
        /\ quiet' = [s \in Severities |-> IF \E f \in Followed(o) : f.severity = s THEN quiet[s] ELSE 0]
  BY Zenon DEF Changes
<1>3. \A x : Followed(x)' = Followed(x)
  BY <1>1 DEF Followed, KeyOf
<1>4. \A f : Window(f)' = Window(f) /\ Withheld(f)' = Withheld(f)
  BY DEF Window, Withheld
<1>5. DetectShape'
  <2>1. quiet' \in [Severities -> Nat]
    BY <1>2 DEF DetectInv, DetectShape
  <2>2. lead' \in BOOLEAN /\ ran' \in BOOLEAN
    BY <1>1, Zenon DEF DetectInv, DetectShape
  <2>3. obs' \in sights'
    BY <1>1, <1>2
  <2> QED
    BY <1>1, <1>3, <1>4, <2>1, <2>2, <2>3 DEF DetectInv, DetectShape
<1>6. QuietInv'
  BY <1>2, <1>3 DEF QuietInv
<1>7. ASSUME NEW g \in Followed(o)
      PROVE  LET q == quiet'[g.severity]
             IN  /\ g.window = "none" => q + reported <= TTL /\ (ran /\ reported = 0 => q = 0)
                 /\ g.window # "none" => /\ reported > 0 => q + reported <= TTL
                                         /\ reported = 0 => q + own <= Withheld(g)
                                         /\ ran /\ own = 0 => q = 0
  <2>1. /\ check \in DOMAIN Observed /\ sights = Observed[check] /\ obs \in sights
        /\ own \in Nat /\ reported \in 0..TTL /\ own <= Window(g)
    BY DEF DetectInv, DetectShape
  <2>2. /\ g.severity \in Severities /\ Window(g) \in Nat \ {0} /\ TTL \in Nat \ {0}
        /\ \A p \in sights : \A f \in Followed(p) : f.window = g.window /\ Window(f) = Window(g)
    BY <2>1, FollowedFacts
  <2>3. quiet'[g.severity] = quiet[g.severity]
    BY <1>2, <2>2
  <2>4. CASE quiet[g.severity] = 0
    BY <2>1, <2>2, <2>3, <2>4 DEF Withheld
  <2>5. CASE quiet[g.severity] # 0
    <3>1. PICK f \in Followed(obs) : f.severity = g.severity
      BY <2>2, <2>5 DEF DetectInv, QuietInv
    <3>2. f.window = g.window /\ Withheld(f) = Withheld(g)
      BY <2>1, <2>2 DEF Withheld
    <3> QED
      BY <2>3, <3>1, <3>2 DEF DetectInv, SilenceInv
  <2> QED
    BY <2>4, <2>5
<1>8. SilenceInv'
  BY <1>1, <1>2, <1>3, <1>4, <1>7 DEF SilenceInv
<1> QED
  BY <1>5, <1>6, <1>8 DEF DetectInv

(* A tick after a pass: what is withheld grows by one, and a window that     *)
(* withholds it shrinks by one.                                              *)
LEMMA DetectTick ==
    ASSUME DetectInv, Tick
    PROVE  DetectInv'
<1>1. /\ check' = check /\ sights' = sights /\ key' = key /\ lead' = lead /\ obs' = obs
      /\ ran' = FALSE /\ own' = Less(own) /\ reported' = Less(reported)
  BY Zenon DEF Tick
<1>2. quiet' = [s \in Severities |->
                  IF ran /\ (\E f \in Followed(obs) : f.severity = s) /\ quiet[s] < MaxQuiet THEN quiet[s] + 1 ELSE 0]
  BY Zenon DEF Tick
<1>3. \A x : Followed(x)' = Followed(x)
  BY <1>1 DEF Followed, KeyOf
<1>4. \A f : Window(f)' = Window(f) /\ Withheld(f)' = Withheld(f)
  BY DEF Window, Withheld
<1>5. TTL \in Nat \ {0} /\ own \in Nat /\ reported \in 0..TTL /\ quiet \in [Severities -> Nat]
  BY DetectorsAssumption DEF DetectInv, DetectShape
<1>6. DetectShape'
  <2>1. quiet' \in [Severities -> Nat]
    BY <1>2, <1>5
  <2>2. lead' \in BOOLEAN /\ ran' \in BOOLEAN
    BY <1>1, Zenon DEF DetectInv, DetectShape
  <2>3. own' \in Nat /\ reported' \in 0..TTL /\ own' <= own
    BY <1>1, <1>5 DEF Less
  <2>4. ASSUME NEW o \in sights, NEW f \in Followed(o)
        PROVE  own' <= Window(f)
    <3>1. Window(f) \in Nat /\ own <= Window(f)
      BY FollowedFacts DEF DetectInv, DetectShape
    <3> QED
      BY <1>5, <2>3, <3>1
  <2>5. check' \in DOMAIN Observed /\ sights' = Observed[check'] /\ obs' \in sights'
    BY <1>1 DEF DetectInv, DetectShape
  <2> QED
    BY <1>1, <1>3, <1>4, <2>1, <2>2, <2>3, <2>4, <2>5 DEF DetectShape
<1>7. CASE ran = TRUE
  <2>1. QuietInv'
    BY <1>1, <1>2, <1>3 DEF QuietInv
  <2>2. ASSUME NEW f \in Followed(obs)
        PROVE  LET q == quiet'[f.severity]
               IN  /\ f.window = "none" => q + reported' <= TTL
                   /\ f.window # "none" => /\ reported' > 0 => q + reported' <= TTL
                                           /\ reported' = 0 => q + own' <= Withheld(f)
    <3>1. f.severity \in Severities /\ Window(f) \in Nat \ {0} /\ own <= Window(f)
      BY FollowedFacts DEF DetectInv, DetectShape
    <3> DEFINE q == quiet[f.severity]
    <3>2. q \in Nat /\ quiet'[f.severity] \in {q + 1, 0}
      BY <1>2, <1>5, <3>1
    <3>3. /\ f.window = "none" => q + reported <= TTL /\ (reported = 0 => q = 0)
          /\ f.window # "none" => /\ reported > 0 => q + reported <= TTL
                                  /\ reported = 0 => q + own <= Withheld(f)
                                  /\ own = 0 => q = 0
      BY <1>7 DEF DetectInv, SilenceInv
    <3> HIDE DEF q
    <3>4. /\ own' = IF own > 0 THEN own - 1 ELSE 0
          /\ reported' = IF reported > 0 THEN reported - 1 ELSE 0
      BY <1>1 DEF Less
    <3>5. CASE f.window = "none"
      BY <1>5, <3>2, <3>3, <3>4, <3>5
    <3>6. CASE f.window # "none"
      <4>1. Withheld(f) = Window(f) + TTL - 1
        BY <3>6 DEF Withheld
      <4>2. reported' > 0 => quiet'[f.severity] + reported' <= TTL
        BY <1>5, <3>2, <3>3, <3>4, <3>6
      <4>3. reported' = 0 => quiet'[f.severity] + own' <= Withheld(f)
        BY <1>5, <3>1, <3>2, <3>3, <3>4, <3>6, <4>1
      <4> QED
        BY <3>6, <4>2, <4>3
    <3> QED
      BY <3>5, <3>6
  <2>3. SilenceInv'
    BY <1>1, <1>3, <1>4, <2>2 DEF SilenceInv
  <2> QED
    BY <1>6, <2>1, <2>3 DEF DetectInv
<1>8. CASE ran = FALSE
  <2>1. quiet' = Heard
    BY <1>2, <1>8 DEF Heard
  <2>2. (DetectShape /\ quiet = Heard => QuietInv /\ SilenceInv)'
    BY HeardQuiet, PTL
  <2>3. Heard' = Heard
    BY DEF Heard
  <2> QED
    BY <1>6, <2>1, <2>2, <2>3 DEF DetectInv
<1> QED
  BY <1>7, <1>8 DEF DetectInv, DetectShape

(* Every step keeps the windows and the silence apart.                       *)
LEMMA DetectStep ==
    ASSUME DetectInv, [Next]_vars
    PROVE  DetectInv'
<1>1. ASSUME PassFails \/ OtherPodTold \/ LeaseMoves \/ Restart
      PROVE  DetectInv'
  <2>1. /\ check' = check /\ sights' = sights /\ key' = key /\ obs' = obs /\ quiet' = Heard
        /\ own' \in {own, 0} /\ reported' \in {reported, TTL, 0}
    BY <1>1 DEF PassFails, OtherPodTold, LeaseMoves, Restart
  <2>2. ran' \in {ran, TRUE, FALSE} /\ lead' \in {lead, ~lead, FALSE}
    BY <1>1, Zenon DEF PassFails, OtherPodTold, LeaseMoves, Restart
  <2>3. lead' \in BOOLEAN /\ ran' \in BOOLEAN
    BY <2>2, Zenon DEF DetectInv, DetectShape
  <2>4. \A x : Followed(x)' = Followed(x)
    BY <2>1 DEF Followed, KeyOf
  <2>5. \A f : Window(f)' = Window(f)
    BY DEF Window
  <2>6. own' \in Nat /\ reported' \in 0..TTL /\ quiet' \in [Severities -> Nat]
    BY <2>1, DetectorsAssumption DEF DetectInv, DetectShape, Heard
  <2>7. ASSUME NEW o \in sights, NEW f \in Followed(o)
        PROVE  own' <= Window(f)
    <3>1. Window(f) \in Nat /\ own <= Window(f)
      BY FollowedFacts DEF DetectInv, DetectShape
    <3> QED
      BY <2>1, <3>1
  <2>8. check' \in DOMAIN Observed /\ sights' = Observed[check'] /\ obs' \in sights'
    BY <2>1 DEF DetectInv, DetectShape
  <2>9. DetectShape'
    BY <2>1, <2>3, <2>4, <2>5, <2>6, <2>7, <2>8 DEF DetectShape
  <2>10. (DetectShape /\ quiet = Heard => QuietInv /\ SilenceInv)'
    BY HeardQuiet, PTL
  <2>11. Heard' = Heard
    BY DEF Heard
  <2> QED
    BY <2>1, <2>9, <2>10, <2>11 DEF DetectInv
<1>2. CASE UNCHANGED vars
  BY <1>2 DEF vars, DetectInv, DetectShape, QuietInv, SilenceInv, Followed, KeyOf, Window, Withheld
<1> QED
  BY <1>1, <1>2, PassKeeps, ChangesKeeps, DetectTick DEF Next

(* report and the checks of the leader's loop (findings.go): what a check    *)
(* finds at every pass is told within its own window and report's, at its    *)
(* severity, whatever the windows last.                                      *)
THEOREM NoSilence == Spec => []NeverSilent
<1>1. Init => DetectInv
  <2> SUFFICES ASSUME Init PROVE DetectInv
    OBVIOUS
  <2>1. lead \in BOOLEAN /\ ran \in BOOLEAN
    BY Zenon DEF Init
  <2>2. quiet = Heard /\ own = 0 /\ reported = 0
    BY DEF Init
  <2>3. check \in DOMAIN Observed /\ sights = Observed[check] /\ obs \in sights
    BY DEF Init
  <2>4. ASSUME NEW o \in sights, NEW f \in Followed(o)
        PROVE  own <= Window(f)
    BY <2>2, <2>3, FollowedFacts
  <2>5. DetectShape
    BY <2>1, <2>2, <2>3, <2>4, DetectorsAssumption DEF DetectShape, Heard
  <2> QED
    BY <2>2, <2>5, HeardQuiet DEF DetectInv
<1>2. DetectInv /\ [Next]_vars => DetectInv'
  BY DetectStep
<1>3. DetectInv => NeverSilent
  <2> SUFFICES ASSUME DetectInv, NEW f \in Followed(obs)
               PROVE  quiet[f.severity] <= Withheld(f)
    BY DEF NeverSilent
  <2>1. /\ f.severity \in Severities /\ Window(f) \in Nat \ {0} /\ TTL \in Nat \ {0}
        /\ own \in Nat /\ reported \in Nat /\ quiet[f.severity] \in Nat
    BY FollowedFacts DEF DetectInv, DetectShape
  <2> QED
    BY <2>1 DEF DetectInv, SilenceInv, Withheld
<1> QED
  BY <1>1, <1>2, <1>3, PTL DEF Spec

-----------------------------------------------------------------------------
(* Network probes. *)

(* What the probes count is in its range, and an outage is told.             *)
ProbesInv ==
    /\ fails \in 0..3 /\ window \in Nat
    /\ outageTold \in BOOLEAN /\ recent \in BOOLEAN
    /\ fails \in {2, 3} => outageTold \/ recent

(* The count passes two in one step of one pass; in that step report's       *)
(* window is free, and the outage told, or is not.                           *)
LEMMA ProbesStep ==
    ASSUME TTL \in Nat, ProbesInv, [N!Next]_(N!vars)
    PROVE  ProbesInv'
<1>0. USE DEF ProbesInv
<1>1. CASE N!probeOnce
  <2>1. CASE N!Failure
    <3>1. N!Reports(fails) <=> fails = 1
      BY DEF N!Reports, N!Counted, N!Cap, N!probeFailuresBeforeReport
    <3>2. fails' = IF fails < 3 THEN fails + 1 ELSE 3
      BY <2>1 DEF N!Failure, N!Counted, N!Cap, N!probeFailuresBeforeReport
    <3>3. CASE fails = 1 /\ window = 0
      <4>1. fails' \in 0..3 /\ window' \in Nat
        BY <2>1, <3>1, <3>2, <3>3 DEF N!Failure
      <4>2. outageTold' = TRUE /\ recent' \in BOOLEAN
        BY <2>1, <3>1, <3>3, Zenon DEF N!Failure
      <4> QED
        BY <4>1, <4>2
    <3>4. CASE fails = 1 /\ window # 0
      <4>1. window > 0 /\ fails' \in 0..3
        BY <3>2, <3>4
      <4>2. window' = window /\ outageTold' = outageTold /\ recent' = TRUE
        BY <2>1, <3>1, <3>4, <4>1, Zenon DEF N!Failure
      <4> QED
        BY <4>1, <4>2
    <3>5. CASE fails # 1
      <4>1. window' = window /\ outageTold' = outageTold /\ recent' = recent
        BY <2>1, <3>1, <3>5, Zenon DEF N!Failure
      <4>2. fails' \in 0..3 /\ (fails' \in {2, 3} => fails \in {2, 3})
        BY <3>2, <3>5
      <4> QED
        BY <4>1, <4>2
    <3> QED
      BY <3>3, <3>4, <3>5
  <2>2. CASE N!Slowness \/ N!Answer
    <3>1. outageTold' = FALSE /\ recent' = FALSE /\ fails' = 0 /\ window' = window
      BY <2>2, Zenon DEF N!Slowness, N!Answer
    <3>2. fails' \in 0..3 /\ fails' \notin {2, 3} /\ window' \in Nat
      BY <3>1
    <3> QED
      BY <3>1, <3>2, Zenon
  <2>3. CASE UNCHANGED <<fails, window, outageTold, recent>>
    BY <2>3
  <2> QED
    BY <1>1, <2>1, <2>2, <2>3 DEF N!probeOnce
<1>2. CASE N!Restart
  <2>1. outageTold' = FALSE /\ recent' = FALSE /\ fails' = 0 /\ window' = 0
    BY <1>2, Zenon DEF N!Restart
  <2>2. fails' \in 0..3 /\ fails' \notin {2, 3} /\ window' \in Nat
    BY <2>1
  <2> QED
    BY <2>1, <2>2, Zenon
<1>3. CASE N!Tick
  BY <1>3 DEF N!Tick, N!Less
<1>4. CASE N!NetChanges \/ N!EndpointsChange \/ UNCHANGED N!vars
  BY <1>4 DEF N!NetChanges, N!EndpointsChange, N!vars
<1> QED
  BY <1>1, <1>2, <1>3, <1>4 DEF N!Next

(* probeOnce (netprobe.go): an outage is told from the second failure in a   *)
(* row on, unless an earlier one was told less than a TTL before, for every  *)
(* set of Services, sample size and TTL.                                     *)
THEOREM OutagesTold == N!Spec => []OutageTold
<1>0. TTL \in Nat
  BY DetectorsAssumption
<1>1. N!Init => ProbesInv
  <2> SUFFICES ASSUME N!Init
               PROVE  ProbesInv
    OBVIOUS
  <2>1. outageTold = FALSE /\ recent = FALSE /\ fails = 0 /\ window = 0
    BY DEF N!Init
  <2>2. fails \in 0..3 /\ fails \notin {2, 3} /\ window \in Nat
    BY <2>1
  <2> QED
    BY <2>1, <2>2, Zenon DEF ProbesInv
<1>2. ProbesInv /\ [N!Next]_(N!vars) => ProbesInv'
  BY <1>0, ProbesStep
<1>3. ProbesInv => OutageTold
  BY DEF ProbesInv, OutageTold, N!OutageTold, N!probeFailuresBeforeReport
<1> QED
  BY <1>1, <1>2, <1>3, PTL DEF N!Spec

(* The instance counts as this module does.                                  *)
LEMMA SameSize == \A R : N!Cardinality(R) = Cardinality(R)
  BY DEF N!Cardinality, Cardinality

(* The place of s in the sorted list of R, counted from 0.                   *)
Place(R, s) == Cardinality({r \in R : r < s})

(* Every element has a place in the list, and no two the same.               *)
LEMMA Places ==
    ASSUME NEW R, R \subseteq Nat, IsFiniteSet(R)
    PROVE  /\ Cardinality(R) \in Nat
           /\ \A s \in R : Place(R, s) \in Nat /\ Place(R, s) < Cardinality(R)
           /\ \A s, t \in R : Place(R, s) = Place(R, t) => s = t
<1> DEFINE Below(s) == {r \in R : r < s}
<1>1. Cardinality(R) \in Nat
  BY FS_CardinalityType
<1>2. ASSUME NEW s \in R
      PROVE  /\ IsFiniteSet(Below(s)) /\ Place(R, s) \in Nat /\ Place(R, s) < Cardinality(R)
  <2>1. Below(s) \subseteq R /\ s \in R /\ s \notin Below(s)
    OBVIOUS
  <2>2. IsFiniteSet(Below(s)) /\ Cardinality(Below(s)) <= Cardinality(R)
        /\ (Cardinality(Below(s)) = Cardinality(R) => Below(s) = R)
    BY <2>1, FS_Subset
  <2>3. Cardinality(Below(s)) \in Nat
    BY <2>2, FS_CardinalityType
  <2>4. Cardinality(Below(s)) # Cardinality(R)
    BY <2>1, <2>2
  <2> QED
    BY <2>2, <2>3, <2>4, <1>1 DEF Place
<1>3. ASSUME NEW s \in R, NEW t \in R, s < t
      PROVE  Place(R, s) < Place(R, t)
  <2>1. s \in Nat /\ t \in Nat /\ R \subseteq Nat
    OBVIOUS
  <2>2. Below(s) \subseteq Below(t)
    <3>1. \A r \in R : r < s => r < t
      BY <2>1, <1>3
    <3> QED
      BY <3>1
  <2>7. s \in Below(t) /\ s \notin Below(s)
    BY <2>1, <1>3
  <2>3. IsFiniteSet(Below(t))
    BY <1>2
  <2>4. Cardinality(Below(s)) <= Cardinality(Below(t))
        /\ (Cardinality(Below(s)) = Cardinality(Below(t)) => Below(s) = Below(t))
    BY <2>2, <2>3, FS_Subset
  <2>5. Cardinality(Below(s)) # Cardinality(Below(t))
    BY <2>7, <2>4
  <2>6. Place(R, s) \in Nat /\ Place(R, t) \in Nat
    BY <1>2
  <2> QED
    BY <2>4, <2>5, <2>6 DEF Place
<1>4. ASSUME NEW s \in R, NEW t \in R, Place(R, s) = Place(R, t)
      PROVE  s = t
  <2>1. s \in Nat /\ t \in Nat /\ Place(R, s) \in Nat /\ Place(R, t) \in Nat
    BY <1>2
  <2>2. ~(s < t) /\ ~(t < s)
    BY <2>1, <1>3, <1>4
  <2> QED
    BY <2>1, <2>2
<1> QED
  BY <1>1, <1>2, <1>4

(* The element at a place is the one whose place it is.                      *)
LEMMA AtPlace ==
    ASSUME NEW R, R \subseteq Nat, IsFiniteSet(R), NEW s \in R
    PROVE  N!Nth(R, Place(R, s)) = s
<1>1. \A t \in R : Place(R, t) = Place(R, s) => t = s
  BY Places
<1>2. (CHOOSE t \in R : Place(R, t) = Place(R, s)) = s
  BY <1>1
<1>3. N!Nth(R, Place(R, s)) = CHOOSE t \in R : Place(R, t) = Place(R, s)
  BY SameSize DEF N!Nth, Place
<1> QED
  BY <1>2, <1>3

(* Division leaves a remainder.                                              *)
LEMMA Remainder ==
    ASSUME NEW a \in Int, NEW n \in Nat, n > 0
    PROVE  /\ a % n \in Nat /\ a % n < n
           /\ \E q \in Int : a = q * n + (a % n)
<1>1. a % n \in Nat /\ a % n < n
  OBVIOUS
<1>2. a = (a \div n) * n + (a % n) /\ a \div n \in Int
  OBVIOUS
<1> QED
  BY <1>1, <1>2

(* And no other.                                                             *)
LEMMA OneRemainder ==
    ASSUME NEW n \in Nat, NEW k \in Nat, k < n, NEW q \in Int
    PROVE  (q * n + k) % n = k
<1> DEFINE r == (q * n + k) % n
<1>1. q * n + k \in Int /\ n > 0
  OBVIOUS
<1>2. r \in Nat /\ r < n /\ \E p \in Int : q * n + k = p * n + r
  BY <1>1, Remainder
<1> HIDE DEF r
<1>3. PICK p \in Int : q * n + k = p * n + r
  BY <1>2
<1>4. (q - p) * n = r - k
  <2>1. (q - p) * n = q * n - p * n
    OBVIOUS
  <2> QED
    BY <2>1, <1>2, <1>3
<1> DEFINE d == q - p
<1>5. d \in Int /\ d * n = r - k
  BY <1>4
<1> HIDE DEF d
<1>6. ~(d >= 1)
  <2>1. d >= 1 => d * n >= n
    BY <1>5
  <2> QED
    BY <2>1, <1>2, <1>5
<1>7. ~(d <= -1)
  <2>1. d <= -1 => d * n <= -n
    BY <1>5
  <2> QED
    BY <2>1, <1>2, <1>5
<1>8. d = 0
  BY <1>5, <1>6, <1>7
<1>9. d * n = 0
  BY <1>8
<1> QED
  BY <1>5, <1>9, <1>2 DEF r

(* From any offset, every place of the list is ahead by less than a round.   *)
LEMMA Ahead ==
    ASSUME NEW n \in Nat, NEW k \in Nat, k < n, NEW o \in Nat
    PROVE  \E d \in Nat : d < n /\ \E q \in Int : o + d = q * n + k
<1>1. k - o \in Int /\ n > 0
  OBVIOUS
<1> DEFINE d == (k - o) % n
<1>2. d \in Nat /\ d < n /\ \E p \in Int : k - o = p * n + d
  BY <1>1, Remainder
<1> HIDE DEF d
<1>3. PICK p \in Int : k - o = p * n + d
  BY <1>2
<1>4. (-p) * n = -(p * n) /\ p * n \in Int /\ -p \in Int
  OBVIOUS
<1>5. o + d = (-p) * n + k
  BY <1>2, <1>3, <1>4
<1> QED
  BY <1>2, <1>4, <1>5

(* The target is d places ahead of the offset, and what the passes since it  *)
(* was dialled have gone through, with these, is less than a round.          *)
StillAhead ==
    \E d \in Nat : /\ waited * Sample + d < Cardinality(ready)
                   /\ \E q \in Int : offset + d = q * Cardinality(ready) + Place(ready, target[2])

(* Where the rotation stands.                                                *)
RotationInv ==
    /\ target \in N!Targets /\ ready \subseteq Services /\ offset \in Nat /\ waited \in Nat
    /\ N!IsService /\ target[2] \in ready => StillAhead

(* The facts about the list that is probed.                                  *)
LEMMA ListFacts ==
    ASSUME ready \subseteq Services, target[2] \in ready
    PROVE  /\ IsFiniteSet(ready) /\ ready \subseteq Nat
           /\ Cardinality(ready) \in Nat /\ Place(ready, target[2]) \in Nat
           /\ Place(ready, target[2]) < Cardinality(ready)
           /\ N!Nth(ready, Place(ready, target[2])) = target[2]
<1>1. IsFiniteSet(ready) /\ ready \subseteq Nat
  BY AgentAssumption, FS_Subset DEF ServicesAreListed
<1> QED
  BY <1>1, Places, AtPlace

(* When the wait starts again the target is less than a round ahead.         *)
LEMMA RotationRestarts ==
    ASSUME ready' \subseteq Services, offset' \in Nat, waited' = 0, target'[2] \in ready'
    PROVE  StillAhead'
<1>1. /\ Cardinality(ready') \in Nat /\ Place(ready', target'[2]) \in Nat
      /\ Place(ready', target'[2]) < Cardinality(ready')
  <2>1. IsFiniteSet(ready') /\ ready' \subseteq Nat
    BY AgentAssumption, FS_Subset DEF ServicesAreListed
  <2> QED
    BY <2>1, Places
<1>2. PICK d \in Nat : /\ d < Cardinality(ready')
                      /\ \E q \in Int : offset' + d = q * Cardinality(ready') + Place(ready', target'[2])
  BY <1>1, Ahead
<1>3. Sample \in Nat
  BY AgentAssumption DEF ServicesAreListed
<1>4. waited' * Sample + d = d
  BY <1>3
<1> QED
  BY <1>2, <1>4 DEF StillAhead, Place

(* A target that is dialled is d < Sample places ahead.                      *)
LEMMA DialledWithinSample ==
    ASSUME RotationInv, N!IsService, target[2] \in ready, ~N!Dialled,
           NEW d \in Nat, d < Cardinality(ready), NEW q \in Int,
           offset + d = q * Cardinality(ready) + Place(ready, target[2])
    PROVE  d >= Sample
<1> DEFINE n == Cardinality(ready)
           k == Place(ready, target[2])
<1>1. n \in Nat /\ k \in Nat /\ k < n /\ N!Nth(ready, k) = target[2]
  BY ListFacts DEF RotationInv
<1>2. Sample \in Nat /\ offset \in Nat
  BY AgentAssumption DEF ServicesAreListed, RotationInv
<1> SUFFICES ASSUME d < Sample
             PROVE  target[2] \in N!Sampled
  BY <1>2 DEF N!Dialled
<1>3. (offset + d) % n = k
  <2>1. (q * n + k) % n = k
    BY <1>1, OneRemainder
  <2> QED
    BY <2>1
<1>4. d \in {j \in 0..(Sample - 1) : j < n}
  BY <1>2
<1>5. N!Cardinality(ready) = n
  BY SameSize
<1>6. N!Sampled = {N!Nth(ready, (offset + i) % n) : i \in {j \in 0..(Sample - 1) : j < n}}
  BY <1>5 DEF N!Sampled
<1> QED
  BY <1>1, <1>3, <1>4, <1>6

(* One pass that misses the target brings it Sample places nearer.           *)
LEMMA RotationMisses ==
    ASSUME RotationInv, N!IsService, target[2] \in ready, ~N!Dialled,
           offset' = N!NextOffset, waited' = waited + 1, ready' = ready, target' = target
    PROVE  StillAhead'
<1> DEFINE n == Cardinality(ready)
           k == Place(ready, target[2])
<1>1. n \in Nat /\ k \in Nat /\ k < n
  BY ListFacts DEF RotationInv
<1>2. Sample \in Nat /\ offset \in Nat /\ waited \in Nat
  BY AgentAssumption DEF ServicesAreListed, RotationInv
<1>3. PICK d \in Nat : waited * Sample + d < n /\ \E q \in Int : offset + d = q * n + k
  BY DEF RotationInv, StillAhead
<1>4. PICK q \in Int : offset + d = q * n + k
  BY <1>3
<1>5. waited * Sample \in Nat /\ d < n
  <2>1. waited * Sample \in Nat
    BY <1>2
  <2> QED
    BY <2>1, <1>1, <1>3
<1>6. d >= Sample
  BY <1>4, <1>5, DialledWithinSample
<1>7. offset' = (offset + Sample) % n
  BY SameSize DEF N!NextOffset
<1>8. offset + Sample \in Int /\ n > 0
  BY <1>1, <1>2
<1>9. PICK p \in Int : offset + Sample = p * n + offset'
  BY <1>1, <1>7, <1>8, Remainder
<1>10. offset' \in Nat
  BY <1>1, <1>7, <1>8, Remainder
<1>11. (waited + 1) * Sample = waited * Sample + Sample
  BY <1>2
<1>12. (q - p) * n = q * n - p * n /\ q * n \in Int /\ p * n \in Int /\ q - p \in Int
  BY <1>1
<1> HIDE DEF n, k
<1>13. d - Sample \in Nat /\ (waited + 1) * Sample + (d - Sample) < n
  BY <1>1, <1>2, <1>3, <1>5, <1>6, <1>11
<1>14. offset' + (d - Sample) = (q - p) * n + k
  BY <1>1, <1>2, <1>4, <1>9, <1>10, <1>12
<1>15. \E e \in Nat : /\ waited' * Sample + e < n
                     /\ \E r \in Int : offset' + e = r * n + k
  BY <1>12, <1>13, <1>14
<1> QED
  BY <1>15 DEF StillAhead, n, k, Place

(* The next offset is a number, also for an empty list.                      *)
LEMMA NextOffsetType ==
    ASSUME ready \subseteq Services, offset \in Nat
    PROVE  N!NextOffset \in Nat
<1>1. CASE ready = {}
  BY <1>1 DEF N!NextOffset
<1>2. CASE ready # {}
  <2>1. IsFiniteSet(ready)
    BY AgentAssumption, FS_Subset DEF ServicesAreListed
  <2>2. Cardinality(ready) \in Nat /\ Cardinality(ready) > 0
    BY <2>1, <1>2, FS_CardinalityType, FS_EmptySet
  <2>3. offset + Sample \in Int
    BY AgentAssumption DEF ServicesAreListed
  <2>4. (offset + Sample) % Cardinality(ready) \in Nat
    BY <2>2, <2>3, Remainder
  <2> QED
    BY <2>4, <1>2, SameSize DEF N!NextOffset
<1> QED
  BY <1>1, <1>2

(* Passes that miss the target go on with the rotation; everything else      *)
(* either leaves it alone or starts the wait again.                          *)
LEMMA RotationStep ==
    ASSUME RotationInv, [N!Next]_(N!vars)
    PROVE  RotationInv'
<1>1. target \in N!Targets /\ ready \subseteq Services /\ offset \in Nat /\ waited \in Nat
  BY DEF RotationInv
<1>2. target' = target
  BY DEF N!Next, N!vars, N!probeOnce, N!NetChanges, N!EndpointsChange, N!Tick, N!Restart
<1>3. CASE UNCHANGED <<ready, offset, waited>>
  BY <1>2, <1>3 DEF RotationInv, StillAhead, N!IsService, N!Targets, Place
<1>4. CASE N!probeOnce
  <2>1. ready' = ready /\ offset' = N!NextOffset
    BY <1>4 DEF N!probeOnce
  <2>2. offset' \in Nat
    BY <2>1, <1>1, NextOffsetType
  <2>3. CASE N!Dialled \/ target[2] \notin ready
    <3>1. waited' = 0
      BY <1>4, <2>3 DEF N!probeOnce
    <3>2. target'[2] \in ready' => StillAhead'
      BY <1>1, <2>1, <2>2, <3>1, RotationRestarts
    <3> QED
      BY <1>1, <1>2, <2>1, <2>2, <3>1, <3>2 DEF RotationInv, N!Targets
  <2>4. CASE ~N!Dialled /\ target[2] \in ready
    <3>1. waited' = waited + 1 /\ N!IsService
      BY <1>4, <2>4 DEF N!probeOnce, N!Dialled
    <3>2. StillAhead'
      BY <1>2, <2>1, <2>4, <3>1, RotationMisses
    <3> QED
      BY <1>1, <1>2, <2>1, <2>2, <3>1, <3>2 DEF RotationInv, N!Targets
  <2> QED
    BY <2>3, <2>4
<1>5. CASE N!EndpointsChange \/ N!Restart
  <2>1. ready' \subseteq Services /\ offset' \in Nat /\ waited' = 0
    BY <1>1, <1>5 DEF N!EndpointsChange, N!Restart
  <2>2. target'[2] \in ready' => StillAhead'
    BY <2>1, RotationRestarts
  <2> QED
    BY <1>1, <1>2, <2>1, <2>2 DEF RotationInv, N!Targets
<1> QED
  BY <1>3, <1>4, <1>5 DEF N!Next, N!vars, N!NetChanges, N!Tick

(* probeOnce (netprobe.go): while the Services stay as they are, the sample  *)
(* that rotates from pass to pass reaches each of them in as many passes as  *)
(* there are samples to cover the list, for any list and sample, wherever    *)
(* the rotation stood when the list last changed.                            *)
THEOREM ServicesDialled == N!Spec => []EveryServiceDialled
<1>1. N!Init => RotationInv
  <2> SUFFICES ASSUME N!Init
               PROVE  RotationInv
    OBVIOUS
  <2>1. target \in N!Targets /\ ready = Services /\ offset = 0 /\ waited = 0
    BY DEF N!Init
  <2>2. ASSUME target[2] \in ready
        PROVE  StillAhead
    <3>1. /\ Cardinality(ready) \in Nat /\ Place(ready, target[2]) \in Nat
          /\ Place(ready, target[2]) < Cardinality(ready)
      BY <2>1, <2>2, ListFacts
    <3>2. PICK d \in Nat : /\ d < Cardinality(ready)
                          /\ \E q \in Int : offset + d = q * Cardinality(ready) + Place(ready, target[2])
      BY <2>1, <3>1, Ahead
    <3>3. waited * Sample + d = d
      BY <2>1, AgentAssumption DEF ServicesAreListed
    <3> QED
      BY <3>2, <3>3 DEF StillAhead
  <2> QED
    BY <2>1, <2>2 DEF RotationInv
<1>2. RotationInv /\ [N!Next]_(N!vars) => RotationInv'
  BY RotationStep
<1>3. RotationInv => EveryServiceDialled
  <2> SUFFICES ASSUME RotationInv, N!IsService, target[2] \in ready
               PROVE  waited * Sample < N!Cardinality(ready)
    BY DEF EveryServiceDialled, N!EveryServiceDialled
  <2>1. PICK d \in Nat : waited * Sample + d < Cardinality(ready)
    BY DEF RotationInv, StillAhead
  <2>2. waited * Sample \in Nat /\ Cardinality(ready) \in Nat
    <3>1. waited \in Nat /\ Sample \in Nat
      BY AgentAssumption DEF RotationInv, ServicesAreListed
    <3>2. Cardinality(ready) \in Nat
      BY ListFacts DEF RotationInv
    <3> QED
      BY <3>1, <3>2
  <2> QED
    BY <2>1, <2>2, SameSize
<1> QED
  BY <1>1, <1>2, <1>3, PTL DEF N!Spec

-----------------------------------------------------------------------------
(* Evicted pods. *)

(* A pod whose UID is in the detector's window is covered by a report.       *)
EvictedInv ==
    /\ uidSeen \in [Pods -> Nat] /\ covered \in [Pods -> BOOLEAN]
    /\ \A p \in Pods : uidSeen[p] > 0 => covered[p]

(* The window opens with the report, and a new pod of the name has neither.  *)
LEMMA EvictedStep ==
    ASSUME Day \in Nat, EvictedInv, [E!Next]_(E!vars)
    PROVE  EvictedInv'
<1>0. USE DEF EvictedInv
<1>1. CASE E!CheckEphemeralStorageFull
  <2> DEFINE found == {p \in Pods : pods[p] = "storage" /\ uidSeen[p] = 0}
  <2>1. /\ uidSeen' = [p \in Pods |-> IF p \in found THEN Day ELSE uidSeen[p]]
        /\ covered' = [p \in Pods |-> covered[p] \/ p \in found]
    BY <1>1, Zenon DEF E!CheckEphemeralStorageFull
  <2> HIDE DEF found
  <2>2. uidSeen' \in [Pods -> Nat]
    BY <2>1
  <2>3. covered' \in [Pods -> BOOLEAN]
    BY <2>1, Zenon
  <2>4. ASSUME NEW p \in Pods, uidSeen'[p] > 0
        PROVE  covered'[p]
    <3>1. covered'[p] = (covered[p] \/ p \in found)
      BY <2>1, Zenon
    <3>2. p \in found \/ uidSeen[p] > 0
      BY <2>1, <2>4
    <3> QED
      BY <3>1, <3>2
  <2> QED
    BY <2>2, <2>3, <2>4
<1>2. ASSUME NEW q \in Pods, E!Replaced(q)
      PROVE  EvictedInv'
  <2>1. /\ uidSeen' = [uidSeen EXCEPT ![q] = 0]
        /\ covered' = [covered EXCEPT ![q] = FALSE]
    BY <1>2 DEF E!Replaced
  <2>2. uidSeen' \in [Pods -> Nat]
    BY <2>1
  <2>3. covered' \in [Pods -> BOOLEAN]
    BY <2>1
  <2>4. ASSUME NEW p \in Pods, uidSeen'[p] > 0
        PROVE  covered'[p]
    BY <2>1, <2>4
  <2> QED
    BY <2>2, <2>3, <2>4
<1>3. CASE E!Tick
  <2>1. uidSeen' = [p \in Pods |-> E!Less(uidSeen[p])] /\ covered' = covered
    BY <1>3 DEF E!Tick
  <2>2. uidSeen' \in [Pods -> Nat]
    BY <2>1 DEF E!Less
  <2>3. ASSUME NEW p \in Pods, uidSeen'[p] > 0
        PROVE  uidSeen[p] > 0
    BY <2>1, <2>3 DEF E!Less
  <2> QED
    BY <2>1, <2>2, <2>3
<1>4. CASE E!ListEvicted \/ E!DeleteListed \/ E!FailedPodsUnread \/ (\E p \in Pods : E!KubeletEvicts(p)) \/ UNCHANGED E!vars
  BY <1>4 DEF E!ListEvicted, E!DeleteListed, E!FailedPodsUnread, E!KubeletEvicts, E!vars
<1> QED
  BY <1>1, <1>2, <1>3, <1>4 DEF E!Next

(* CheckEphemeralStorageFull (pod_extended.go): a pass of the detector that  *)
(* reads the failed pods leaves none that was evicted for local storage      *)
(* without a report, also when a pod of the same name was reported before,   *)
(* whatever the cleanup does in between.                                     *)
THEOREM DetectorCovers == E!Spec => EvictionsCovered
<1>0. Day \in Nat
  BY DetectorsAssumption
<1>1. E!Init => EvictedInv
  BY DEF E!Init, EvictedInv
<1>2. EvictedInv /\ [E!Next]_(E!vars) => EvictedInv'
  BY <1>0, EvictedStep
<1>3. EvictedInv /\ [E!Next]_(E!vars) => [E!DetectorStep]_evars
  <2> SUFFICES ASSUME EvictedInv, E!Next, at = "detect", at' = "idle", ~unread',
                      NEW p \in Pods, pods[p] = "storage"
               PROVE  covered'[p]
    BY DEF E!DetectorStep, E!vars, evars
  <2>1. E!CheckEphemeralStorageFull
    BY DEF E!Next, E!ListEvicted, E!DeleteListed, E!FailedPodsUnread, E!KubeletEvicts, E!Replaced, E!Tick
  <2>2. covered'[p] = (covered[p] \/ p \in {q \in Pods : pods[q] = "storage" /\ uidSeen[q] = 0})
    BY <2>1, Zenon DEF E!CheckEphemeralStorageFull
  <2>3. uidSeen[p] = 0 \/ uidSeen[p] > 0
    BY DEF EvictedInv
  <2> QED
    BY <2>2, <2>3 DEF EvictedInv
<1> QED
  BY <1>1, <1>2, <1>3, PTL DEF E!Spec, EvictionsCovered

-----------------------------------------------------------------------------
(* Node pressure. *)

(* A handler that is going to uncordon the node: the copy it works on is     *)
(* without pressure and carries the agent's cordon.                          *)
Uncordons(h) ==
    /\ jobs[h].step \in {"look", "uncordon"}
    /\ ~P!Pressed(jobs[h].copy) /\ jobs[h].copy.unschedulable /\ jobs[h].copy.mark

(* A version yet to be delivered that ends the pressure and carries it.      *)
EndsAt(i) ==
    /\ P!Pressed(versions[i - 1]) /\ ~P!Pressed(versions[i])
    /\ versions[i].unschedulable /\ versions[i].mark
EndAhead == \E i \in 2..Len(versions) : EndsAt(i)

(* A node that the agent cordoned carries its mark, and the end of the       *)
(* pressure is to come, on its way, in the hands of a handler, or missed.    *)
PressureInv ==
    /\ P!TypeOK
    /\ cordoner = "agent" => P!Server.unschedulable /\ P!Server.mark
    /\ cordoner = "agent" =>
          missed \/ P!Pressed(P!Server) \/ EndAhead \/ \E h \in Handlers : Uncordons(h)

(* The last version is the node in the API server.                           *)
LEMMA ServerIsNode ==
    ASSUME P!TypeOK
    PROVE  /\ Len(versions) \in Nat /\ Len(versions) >= 1 /\ P!Server \in P!Node
           /\ \A i \in 1..Len(versions) : versions[i] \in P!Node
BY DEF P!TypeOK, P!Server

(* A write is the last version, and leaves the others as they are.           *)
LEMMA NodeWritten ==
    ASSUME P!TypeOK, NEW n \in P!Node, P!Becomes(n)
    PROVE  /\ versions' \in Seq(P!Node) /\ versions' # <<>> /\ P!Server' = n
           /\ EndAhead => EndAhead'
           /\ n # P!Server => /\ Len(versions') = Len(versions) + 1
                              /\ versions'[Len(versions)] = P!Server
                              /\ versions'[Len(versions) + 1] = n
<1>1. versions \in Seq(P!Node) /\ versions # <<>> /\ Len(versions) \in Nat /\ Len(versions) >= 1
  BY ServerIsNode DEF P!TypeOK
<1>2. CASE n = P!Server
  <2>1. versions' = versions
    BY <1>2 DEF P!Becomes
  <2> QED
    BY <1>1, <1>2, <2>1 DEF P!Server, EndAhead, EndsAt
<1>3. CASE n # P!Server
  <2>1. versions' = Append(versions, n)
    BY <1>3 DEF P!Becomes
  <2>2. /\ versions' \in Seq(P!Node) /\ Len(versions') = Len(versions) + 1
        /\ versions'[Len(versions) + 1] = n
        /\ \A i \in 1..Len(versions) : versions'[i] = versions[i]
    BY <1>1, <2>1
  <2>3. versions' # <<>>
    BY <1>1, <2>2
  <2>4. ASSUME NEW i \in 2..Len(versions), EndsAt(i)
        PROVE  EndAhead'
    <3>1. i \in 1..Len(versions) /\ i - 1 \in 1..Len(versions) /\ i \in 2..Len(versions')
      BY <1>1, <2>2
    <3>2. EndsAt(i)'
      BY <2>2, <2>4, <3>1 DEF EndsAt, P!Pressed
    <3> QED
      BY <3>1, <3>2 DEF EndAhead
  <2> QED
    BY <1>1, <1>3, <2>2, <2>3, <2>4 DEF P!Server, EndAhead
<1> QED
  BY <1>2, <1>3

(* What is delivered leaves the others as they are.                          *)
LEMMA Delivered ==
    ASSUME P!TypeOK, Len(versions) > 1, versions' = Tail(versions)
    PROVE  /\ versions' \in Seq(P!Node) /\ versions' # <<>> /\ P!Server' = P!Server
           /\ EndAhead => EndAhead' \/ EndsAt(2)
<1>1. versions \in Seq(P!Node) /\ Len(versions) \in Nat
  BY ServerIsNode DEF P!TypeOK
<1>2. /\ versions' \in Seq(P!Node) /\ Len(versions') = Len(versions) - 1
      /\ \A i \in 1..Len(versions') : versions'[i] = versions[i + 1]
  BY <1>1
<1>3. versions' # <<>>
  BY <1>1, <1>2
<1>4. P!Server' = P!Server
  BY <1>1, <1>2 DEF P!Server
<1>5. ASSUME NEW i \in 2..Len(versions), EndsAt(i), i # 2
      PROVE  EndAhead'
  <2>1. i - 1 \in 2..Len(versions') /\ i - 1 \in 1..Len(versions') /\ (i - 1) - 1 \in 1..Len(versions')
        /\ (i - 1) + 1 = i /\ ((i - 1) - 1) + 1 = i - 1
    BY <1>1, <1>2, <1>5
  <2>2. versions'[i - 1] = versions[i] /\ versions'[(i - 1) - 1] = versions[i - 1]
    BY <1>2, <2>1
  <2>3. EndsAt(i - 1)'
    BY <1>5, <2>2 DEF EndsAt, P!Pressed
  <2> QED
    BY <2>1, <2>3 DEF EndAhead
<1> QED
  BY <1>2, <1>3, <1>4, <1>5 DEF EndAhead

(* A list and a restart keep the last version alone.                         *)
LEMMA Listed ==
    ASSUME P!TypeOK, versions' = <<P!Server>>
    PROVE  versions' \in Seq(P!Node) /\ versions' # <<>> /\ P!Server' = P!Server
<1>1. P!Server \in P!Node
  BY ServerIsNode
<1>2. Len(versions') = 1 /\ versions'[1] = P!Server
  OBVIOUS
<1> QED
  BY <1>1, <1>2 DEF P!Server

(* The handler slots keep their shape.                                       *)
LEMMA PressureTypes ==
    ASSUME MaxFaults \in Nat, P!TypeOK, [P!Next]_(P!vars)
    PROVE  P!TypeOK'
<1> DEFINE J == [step : {"none", "look", "uncordon", "cordon", "list", "evict"},
                 copy : P!Node, todo : SUBSET Evictable]
<1>1. /\ versions \in Seq(P!Node) /\ versions # <<>> /\ jobs \in [Handlers -> J]
      /\ silenced \in BOOLEAN /\ missed \in BOOLEAN
      /\ cordoner \in {"nobody", "agent", "operator"} /\ faults \in 0..MaxFaults
      /\ P!Server \in P!Node
  BY ServerIsNode DEF P!TypeOK
<1>2. P!NoJob \in J
  BY DEF P!NoJob, P!Node
<1>3. versions' \in Seq(P!Node) /\ versions' # <<>>
  <2>1. CASE versions' = versions
    BY <1>1, <2>1
  <2>2. ASSUME NEW n \in P!Node, P!Becomes(n)
        PROVE  versions' \in Seq(P!Node) /\ versions' # <<>>
    BY <2>2, NodeWritten
  <2>3. ASSUME NEW h \in Handlers, P!Uncordon(h)
        PROVE  versions' \in Seq(P!Node) /\ versions' # <<>>
    <3>1. [P!Server EXCEPT !.unschedulable = FALSE, !.mark = FALSE] \in P!Node
      BY <1>1 DEF P!Node
    <3> QED
      BY <2>2, <2>3, <3>1 DEF P!Uncordon
  <2>4. ASSUME NEW h \in Handlers, P!Cordon(h)
        PROVE  versions' \in Seq(P!Node) /\ versions' # <<>>
    <3>1. [P!Server EXCEPT !.unschedulable = TRUE, !.mark = TRUE] \in P!Node
      BY <1>1 DEF P!Node
    <3> QED
      BY <2>1, <2>2, <2>4, <3>1 DEF P!Cordon
  <2>5. CASE P!PressureFlips
    <3>1. ASSUME NEW c \in Conditions
          PROVE  [P!Server EXCEPT !.pressure = IF c \in @ THEN @ \ {c} ELSE @ \cup {c}] \in P!Node
      BY <1>1 DEF P!Node
    <3> QED
      BY <2>2, <2>5, <3>1 DEF P!PressureFlips
  <2>6. CASE P!OperatorCordons
    <3>1. [P!Server EXCEPT !.unschedulable = ~@] \in P!Node
      BY <1>1 DEF P!Node
    <3> QED
      BY <2>2, <2>6, <3>1 DEF P!OperatorCordons
  <2>7. CASE P!Deliver
    BY <2>7, Delivered DEF P!Deliver
  <2>8. CASE P!Relist \/ P!Restart
    BY <2>8, Listed DEF P!Relist, P!Restart
  <2> QED
    BY <2>1, <2>3, <2>4, <2>5, <2>6, <2>7, <2>8
    DEF P!Next, P!vars, P!TTLEnds, P!HandlerStep, P!Look, P!UncordonRefused, P!ListPods, P!Evict
<1>4. jobs' \in [Handlers -> J]
  <2>1. CASE jobs' = jobs
    BY <1>1, <2>1
  <2>2. CASE jobs' = [h \in Handlers |-> P!NoJob]
    BY <1>2, <2>2
  <2>3. ASSUME NEW old, NEW new \in P!Node, P!Update(old, new)
        PROVE  jobs' \in [Handlers -> J]
    <3>1. [step |-> "look", copy |-> new, todo |-> {}] \in J
      BY <2>3
    <3> QED
      BY <1>1, <2>1, <2>3, <3>1 DEF P!Update
  <2>4. CASE P!Deliver
    <3>1. 2 \in 1..Len(versions)
      BY <1>1, <2>4, ServerIsNode DEF P!Deliver
    <3>2. versions[2] \in P!Node
      BY <3>1, ServerIsNode
    <3> QED
      BY <2>3, <2>4, <3>2 DEF P!Deliver
  <2>5. CASE P!Relist
    BY <1>1, <2>1, <2>3, <2>5 DEF P!Relist
  <2>6. ASSUME NEW h \in Handlers, P!HandlerStep(h)
        PROVE  jobs' \in [Handlers -> J]
    <3>1. CASE P!Ends(h)
      BY <1>1, <1>2, <3>1 DEF P!Ends
    <3>2. ASSUME NEW to \in {"uncordon", "cordon", "list"}, P!Goes(h, to)
          PROVE  jobs' \in [Handlers -> J]
      BY <1>1, <3>2 DEF P!Goes
    <3>3. CASE P!ListPods(h)
      <4>1. CASE jobs' = [jobs EXCEPT ![h].step = "evict", ![h].todo = Evictable]
        BY <1>1, <4>1
      <4> QED
        BY <3>1, <3>3, <4>1 DEF P!ListPods
    <3>4. CASE P!Evict(h)
      <4>1. ASSUME NEW p \in jobs[h].todo, jobs' = [jobs EXCEPT ![h].todo = @ \ {p}]
            PROVE  jobs' \in [Handlers -> J]
        BY <1>1, <4>1
      <4> QED
        BY <3>1, <3>4, <4>1 DEF P!Evict
    <3>5. CASE P!Look(h) \/ P!Uncordon(h) \/ P!UncordonRefused(h) \/ P!Cordon(h)
      BY <3>1, <3>2, <3>5 DEF P!Look, P!Uncordon, P!UncordonRefused, P!Cordon
    <3> QED
      BY <2>6, <3>3, <3>4, <3>5 DEF P!HandlerStep
  <2> QED
    BY <2>1, <2>2, <2>4, <2>5, <2>6
    DEF P!Next, P!vars, P!PressureFlips, P!OperatorCordons, P!TTLEnds, P!Restart
<1>5. cordoner' \in {"nobody", "agent", "operator"}
  BY <1>1
  DEF P!Next, P!vars, P!Deliver, P!Relist, P!PressureFlips, P!OperatorCordons, P!TTLEnds, P!Restart,
      P!HandlerStep, P!Look, P!Uncordon, P!UncordonRefused, P!Cordon, P!ListPods, P!Evict
<1>6. faults' \in 0..MaxFaults
  <2>1. faults' = faults \/ P!Fault
    BY DEF P!Next, P!vars, P!Deliver, P!Relist, P!Update, P!PressureFlips, P!OperatorCordons, P!TTLEnds,
           P!Restart, P!HandlerStep, P!Look, P!Uncordon, P!UncordonRefused, P!Cordon, P!ListPods, P!Evict
  <2> QED
    BY <1>1, <2>1 DEF P!Fault
<1>7. silenced' \in BOOLEAN
  BY <1>1, Zenon
  DEF P!Next, P!vars, P!Deliver, P!Relist, P!PressureFlips, P!OperatorCordons, P!TTLEnds, P!Restart,
      P!HandlerStep, P!Look, P!Uncordon, P!UncordonRefused, P!Cordon, P!ListPods, P!Evict
<1>8. missed' \in BOOLEAN
  BY <1>1, Zenon
  DEF P!Next, P!vars, P!Deliver, P!Relist, P!Update, P!PressureFlips, P!OperatorCordons, P!TTLEnds,
      P!Restart, P!HandlerStep, P!Look, P!Uncordon, P!UncordonRefused, P!Cordon, P!ListPods, P!Evict
<1> QED
  BY <1>3, <1>4, <1>5, <1>6, <1>7, <1>8 DEF P!TypeOK

(* The cordon and its mark stay while the agent is the cordoner.             *)
LEMMA PressureMark ==
    ASSUME PressureInv, [P!Next]_(P!vars), cordoner' = "agent"
    PROVE  P!Server'.unschedulable /\ P!Server'.mark
<1>1. P!TypeOK /\ P!Server \in P!Node /\ (cordoner = "agent" => P!Server.unschedulable /\ P!Server.mark)
  BY ServerIsNode DEF PressureInv
<1>2. CASE cordoner' = cordoner /\ P!Server' = P!Server
  BY <1>1, <1>2
<1>3. CASE cordoner' = cordoner /\ versions' = versions
  BY <1>1, <1>3 DEF P!Server
<1>4. ASSUME NEW h \in Handlers, P!Cordon(h)
      PROVE  P!Server'.unschedulable /\ P!Server'.mark
  <2>1. CASE P!Becomes([P!Server EXCEPT !.unschedulable = TRUE, !.mark = TRUE])
    <3>1. [P!Server EXCEPT !.unschedulable = TRUE, !.mark = TRUE] \in P!Node
      BY <1>1 DEF P!Node
    <3>2. P!Server' = [P!Server EXCEPT !.unschedulable = TRUE, !.mark = TRUE]
      BY <1>1, <2>1, <3>1, NodeWritten
    <3> QED
      BY <1>1, <3>2 DEF P!Node
  <2> QED
    BY <1>3, <1>4, <2>1 DEF P!Cordon
<1>5. CASE P!PressureFlips
  <2>1. PICK c \in Conditions :
          P!Becomes([P!Server EXCEPT !.pressure = IF c \in @ THEN @ \ {c} ELSE @ \cup {c}])
    BY <1>5 DEF P!PressureFlips
  <2>2. [P!Server EXCEPT !.pressure = IF c \in @ THEN @ \ {c} ELSE @ \cup {c}] \in P!Node
    BY <1>1 DEF P!Node
  <2>3. P!Server' = [P!Server EXCEPT !.pressure = IF c \in @ THEN @ \ {c} ELSE @ \cup {c}]
    BY <1>1, <2>1, <2>2, NodeWritten
  <2>4. cordoner = "agent"
    BY <1>5 DEF P!PressureFlips
  <2> QED
    BY <1>1, <2>3, <2>4 DEF P!Node
<1>6. CASE P!Deliver
  BY <1>1, <1>2, <1>6, Delivered DEF P!Deliver
<1>7. CASE P!Relist \/ P!Restart
  BY <1>1, <1>2, <1>7, Listed DEF P!Relist, P!Restart
<1> QED
  BY <1>3, <1>4, <1>5, <1>6, <1>7
  DEF P!Next, P!vars, P!OperatorCordons, P!TTLEnds, P!HandlerStep, P!Look, P!Uncordon, P!UncordonRefused,
      P!ListPods, P!Evict

(* A handler that will uncordon is not lost: its slot stays its own, and it  *)
(* leaves it by uncordoning or by a refusal, which is a miss.                *)
LEMMA UncordonsStays ==
    ASSUME PressureInv, [P!Next]_(P!vars), ~missed', cordoner' = "agent", ~P!Restart,
           NEW h \in Handlers, Uncordons(h)
    PROVE  Uncordons(h)'
<1>1. jobs \in [Handlers -> [step : {"none", "look", "uncordon", "cordon", "list", "evict"},
                             copy : P!Node, todo : SUBSET Evictable]]
  BY DEF PressureInv, P!TypeOK
<1>2. jobs[h] # P!NoJob
  BY DEF Uncordons, P!NoJob
<1>3. CASE jobs'[h] = jobs[h]
  BY <1>3 DEF Uncordons, P!Pressed
<1>4. CASE P!Deliver \/ P!Relist
  BY <1>1, <1>2, <1>3, <1>4 DEF P!Deliver, P!Relist, P!Update
<1>5. ASSUME NEW g \in Handlers, P!HandlerStep(g)
      PROVE  Uncordons(h)'
  <2>1. CASE g # h
    BY <1>1, <1>3, <1>5, <2>1
    DEF P!HandlerStep, P!Look, P!Uncordon, P!UncordonRefused, P!Cordon, P!ListPods, P!Evict, P!Ends, P!Goes
  <2>2. CASE g = h
    <3>1. P!Look(h)
      BY <1>5, <2>2
      DEF Uncordons, P!HandlerStep, P!Uncordon, P!UncordonRefused, P!Cordon, P!ListPods, P!Evict
    <3>2. P!Goes(h, "uncordon")
      BY <3>1 DEF P!Look, Uncordons
    <3>3. jobs'[h].step = "uncordon" /\ jobs'[h].copy = jobs[h].copy
      BY <1>1, <3>2 DEF P!Goes
    <3> QED
      BY <3>3 DEF Uncordons, P!Pressed
  <2> QED
    BY <2>1, <2>2
<1> QED
  BY <1>3, <1>4, <1>5 DEF P!Next, P!vars, P!PressureFlips, P!OperatorCordons, P!TTLEnds

(* An update that ends the pressure and carries the cordon finds a handler,  *)
(* or is a miss.                                                             *)
LEMMA EndUpdated ==
    ASSUME PressureInv, NEW old, NEW new \in P!Node, P!Update(old, new), P!Pressed(old),
           ~P!Pressed(new), new.unschedulable, new.mark, P!Server' = P!Server
    PROVE  missed' \/ P!Pressed(P!Server)' \/ \E h \in Handlers : Uncordons(h)'
<1>1. jobs \in [Handlers -> [step : {"none", "look", "uncordon", "cordon", "list", "evict"},
                             copy : P!Node, todo : SUBSET Evictable]]
  BY DEF PressureInv, P!TypeOK
<1>2. P!PressureChanged(old, new)
  BY DEF P!PressureChanged, P!Pressed
<1>3. ASSUME NEW h \in Handlers,
             jobs' = [jobs EXCEPT ![h] = [step |-> "look", copy |-> new, todo |-> {}]]
      PROVE  Uncordons(h)'
  <2>1. jobs'[h].step = "look" /\ jobs'[h].copy = new
    BY <1>1, <1>3
  <2> QED
    BY <2>1 DEF Uncordons, P!Pressed
<1>4. CASE missed' = (missed \/ (~P!Pressed(new) /\ ~P!Pressed(P!Server)))
  <2>1. P!Pressed(P!Server)' <=> P!Pressed(P!Server)
    BY DEF P!Pressed
  <2> QED
    BY <1>4, <2>1, Zenon
<1> QED
  BY <1>2, <1>3, <1>4 DEF P!Update

(* The last part of PressureInv, step by step: the cordon is applied under   *)
(* pressure or is a miss, and every version that ends the pressure carries   *)
(* the cordon that the node has then.                                        *)
LEMMA PressureEnd ==
    ASSUME PressureInv, [P!Next]_(P!vars), cordoner' = "agent"
    PROVE  missed' \/ P!Pressed(P!Server)' \/ EndAhead' \/ \E h \in Handlers : Uncordons(h)'
<1> DEFINE Goal == missed' \/ P!Pressed(P!Server)' \/ EndAhead' \/ \E h \in Handlers : Uncordons(h)'
<1>1. /\ P!TypeOK /\ P!Server \in P!Node /\ missed \in BOOLEAN /\ Len(versions) \in Nat
      /\ cordoner = "agent" => P!Server.unschedulable /\ P!Server.mark
      /\ cordoner = "agent" =>
           missed \/ P!Pressed(P!Server) \/ EndAhead \/ \E h \in Handlers : Uncordons(h)
      /\ \A i \in 1..Len(versions) : versions[i] \in P!Node
  BY ServerIsNode DEF PressureInv, P!TypeOK
<1>2. CASE P!Restart
  <2>1. P!Server' = P!Server /\ missed' = (missed \/ ~P!Pressed(P!Server))
    BY <1>1, <1>2, Listed DEF P!Restart
  <2>2. P!Pressed(P!Server)' <=> P!Pressed(P!Server)
    BY <2>1 DEF P!Pressed
  <2> QED
    BY <2>1, <2>2, Zenon
<1>3. ASSUME ~P!Restart, NEW h \in Handlers, Uncordons(h)
      PROVE  Goal
  BY <1>3, UncordonsStays
<1> HIDE DEF Goal
<1>4. CASE P!Deliver
  <2>1. /\ cordoner = "agent" /\ P!Server' = P!Server /\ (EndAhead => EndAhead' \/ EndsAt(2))
        /\ P!Update(versions[1], versions[2])
    BY <1>1, <1>4, Delivered DEF P!Deliver
  <2>2. P!Pressed(P!Server)' <=> P!Pressed(P!Server)
    BY <2>1 DEF P!Pressed
  <2>3. missed => missed'
    BY <2>1, Zenon DEF P!Update
  <2>4. CASE EndsAt(2)
    <3>1. versions[2] \in P!Node
      BY <1>1, <1>4 DEF P!Deliver
    <3>2. 2 - 1 = 1
      OBVIOUS
    <3>3. /\ P!Pressed(versions[1]) /\ ~P!Pressed(versions[2])
          /\ versions[2].unschedulable /\ versions[2].mark
      BY <2>4, <3>2 DEF EndsAt
    <3> QED
      BY <2>1, <3>1, <3>3, EndUpdated DEF Goal
  <2>5. ~P!Restart \/ P!Restart
    OBVIOUS
  <2> QED
    BY <1>1, <1>2, <1>3, <2>1, <2>2, <2>3, <2>4, <2>5 DEF Goal
<1>5. CASE P!Relist
  <2>1. cordoner = "agent" /\ P!Server' = P!Server
    BY <1>1, <1>5, Listed DEF P!Relist
  <2>2. P!Pressed(P!Server)' <=> P!Pressed(P!Server)
    BY <2>1 DEF P!Pressed
  <2>3. CASE P!Pressed(versions[1]) /\ ~P!Pressed(P!Server)
    <3>1. P!Update(versions[1], P!Server)
      BY <1>5, <2>3 DEF P!Relist
    <3> QED
      BY <1>1, <2>1, <2>3, <3>1, EndUpdated DEF Goal
  <2>4. CASE ~P!Pressed(versions[1]) /\ ~P!Pressed(P!Server)
    BY <1>5, <2>4 DEF P!Relist, Goal
  <2> QED
    BY <2>2, <2>3, <2>4 DEF Goal
<1>6. ASSUME NEW g \in Handlers, P!Cordon(g)
      PROVE  Goal
  <2>1. CASE /\ P!Becomes([P!Server EXCEPT !.unschedulable = TRUE, !.mark = TRUE])
             /\ missed' = (missed \/ ~P!Pressed(P!Server))
    <3>1. [P!Server EXCEPT !.unschedulable = TRUE, !.mark = TRUE] \in P!Node
      BY <1>1 DEF P!Node
    <3>2. P!Server' = [P!Server EXCEPT !.unschedulable = TRUE, !.mark = TRUE]
      BY <1>1, <2>1, <3>1, NodeWritten
    <3>3. P!Server'.pressure = P!Server.pressure
      BY <1>1, <3>2 DEF P!Node
    <3>4. P!Pressed(P!Server)' <=> P!Pressed(P!Server)
      BY <3>3 DEF P!Pressed
    <3> QED
      BY <2>1, <3>4, Zenon DEF Goal
  <2>2. CASE UNCHANGED <<versions, cordoner, missed>>
    <3>1. P!Pressed(P!Server)' <=> P!Pressed(P!Server)
      BY <2>2 DEF P!Pressed, P!Server
    <3>2. EndAhead' <=> EndAhead
      BY <2>2 DEF EndAhead, EndsAt, P!Pressed
    <3> QED
      BY <1>1, <1>2, <1>3, <2>2, <3>1, <3>2 DEF Goal
  <2> QED
    BY <1>6, <2>1, <2>2 DEF P!Cordon
<1>7. CASE P!PressureFlips
  <2>1. PICK c \in Conditions :
          /\ P!Becomes([P!Server EXCEPT !.pressure = IF c \in @ THEN @ \ {c} ELSE @ \cup {c}])
          /\ missed' = (missed /\ ~P!Pressed([P!Server EXCEPT !.pressure = IF c \in @ THEN @ \ {c} ELSE @ \cup {c}]))
    BY <1>7 DEF P!PressureFlips
  <2> DEFINE n == [P!Server EXCEPT !.pressure = IF c \in @ THEN @ \ {c} ELSE @ \cup {c}]
  <2>2. n \in P!Node /\ n.unschedulable = P!Server.unschedulable /\ n.mark = P!Server.mark
    BY <1>1 DEF P!Node
  <2>3. cordoner = "agent"
    BY <1>7 DEF P!PressureFlips
  <2> HIDE DEF n
  <2>4. /\ P!Becomes(n) /\ missed' = (missed /\ ~P!Pressed(n)) /\ n \in P!Node
        /\ n.unschedulable /\ n.mark
    BY <1>1, <2>1, <2>2, <2>3 DEF n
  <2>5. /\ P!Server' = n /\ (EndAhead => EndAhead')
        /\ n # P!Server => /\ Len(versions') = Len(versions) + 1
                           /\ versions'[Len(versions)] = P!Server
                           /\ versions'[Len(versions) + 1] = n
    BY <1>1, <2>4, NodeWritten
  <2>6. P!Pressed(P!Server)' <=> P!Pressed(n)
    BY <2>5 DEF P!Pressed
  <2>7. CASE ~P!Pressed(n) /\ P!Pressed(P!Server)
    <3>1. n # P!Server
      BY <2>7
    <3>2. Len(versions) >= 1
      BY <1>1, ServerIsNode
    <3>3. Len(versions) + 1 \in 2..Len(versions') /\ (Len(versions) + 1) - 1 = Len(versions)
      BY <1>1, <2>5, <3>1, <3>2
    <3>4. PICK i \in Int : i = Len(versions) + 1
      BY <3>3
    <3>5. /\ P!Pressed(versions'[i - 1]) /\ ~P!Pressed(versions'[i])
          /\ versions'[i].unschedulable /\ versions'[i].mark
      <4>1. i - 1 = Len(versions)
        BY <3>3, <3>4
      <4> QED
        BY <2>4, <2>5, <2>7, <3>1, <3>4, <4>1
    <3>6. EndsAt(i)'
      BY <3>5 DEF EndsAt, P!Pressed
    <3> QED
      BY <3>3, <3>4, <3>6 DEF EndAhead, Goal
  <2> QED
    BY <1>1, <1>2, <1>3, <2>3, <2>4, <2>5, <2>6, <2>7 DEF Goal
<1>8. CASE versions' = versions /\ cordoner = "agent" /\ (missed' = missed \/ missed' = TRUE)
  <2>1. P!Pressed(P!Server)' <=> P!Pressed(P!Server)
    BY <1>8 DEF P!Pressed, P!Server
  <2>2. EndAhead' <=> EndAhead
    BY <1>8 DEF EndAhead, EndsAt, P!Pressed
  <2> QED
    BY <1>1, <1>2, <1>3, <1>8, <2>1, <2>2 DEF Goal
<1>9. Goal
  BY <1>2, <1>4, <1>5, <1>6, <1>7, <1>8
  DEF P!Next, P!vars, P!OperatorCordons, P!TTLEnds, P!HandlerStep, P!Look, P!Uncordon,
      P!UncordonRefused, P!ListPods, P!Evict, Goal
<1> QED
  BY <1>9 DEF Goal

(* handleNodePressure (nodes.go): a node that the agent cordoned is          *)
(* schedulable again once the pressure is over and nothing is under way,     *)
(* unless its end was missed, for any conditions, any number of handlers and *)
(* pods, any lag of the informer and any number of faults.                   *)
THEOREM NodesUncordoned == P!Spec => []UncordonedUnlessMissed
<1>0. MaxFaults \in Nat
  BY AgentAssumption
<1>1. P!Init => PressureInv
  <2> SUFFICES ASSUME P!Init
               PROVE  PressureInv
    OBVIOUS
  <2>1. P!TypeOK
    <3>1. P!NoJob \in [step : {"none", "look", "uncordon", "cordon", "list", "evict"},
                       copy : P!Node, todo : SUBSET Evictable]
      BY DEF P!NoJob, P!Node
    <3>2. P!NoJob.copy \in P!Node
      BY DEF P!NoJob, P!Node
    <3>3. versions \in Seq(P!Node) /\ versions # <<>>
      BY <3>2 DEF P!Init
    <3>4. faults \in 0..MaxFaults
      BY <1>0 DEF P!Init
    <3> QED
      BY <3>1, <3>3, <3>4, Zenon DEF P!Init, P!TypeOK
  <2> QED
    BY <2>1 DEF P!Init, PressureInv
<1>2. PressureInv /\ [P!Next]_(P!vars) => PressureInv'
  <2> SUFFICES ASSUME PressureInv, [P!Next]_(P!vars)
               PROVE  PressureInv'
    OBVIOUS
  <2>1. P!TypeOK'
    BY <1>0, PressureTypes DEF PressureInv
  <2>2. cordoner' = "agent" => P!Server'.unschedulable /\ P!Server'.mark
    BY PressureMark
  <2>3. cordoner' = "agent" =>
          missed' \/ P!Pressed(P!Server)' \/ EndAhead' \/ \E h \in Handlers : Uncordons(h)'
    BY PressureEnd
  <2> QED
    BY <2>1, <2>2, <2>3 DEF PressureInv
<1>3. PressureInv => UncordonedUnlessMissed
  <2> SUFFICES ASSUME PressureInv, ~P!Pressed(P!Server), Len(versions) = 1,
                      \A h \in Handlers : jobs[h] = P!NoJob,
                      cordoner = "agent", ~missed
               PROVE  FALSE
    BY DEF UncordonedUnlessMissed, P!UncordonedUnlessMissed, P!StillCordoned, PressureInv, P!TypeOK
  <2>1. ~EndAhead
    BY DEF EndAhead
  <2>2. PICK h \in Handlers : Uncordons(h)
    BY <2>1 DEF PressureInv
  <2> QED
    BY <2>2 DEF Uncordons, P!NoJob
<1> QED
  BY <1>1, <1>2, <1>3, PTL DEF P!Spec

-----------------------------------------------------------------------------
(* Pending pods. *)

(* Shapes of the windows and of what was read.                               *)
PendingFlags ==
    /\ volumeFails \in BOOLEAN /\ elsewhere \in BOOLEAN /\ reading \in BOOLEAN
    /\ updated \in BOOLEAN /\ checked \in BOOLEAN
PendingNumbers ==
    /\ keyLeft \in 0..TTL /\ volumeLeft \in 0..TTL /\ silent \in 0..TTL
    /\ eventsSeen \in {"none", "failing", "fine"}

(* Of the two that look at the pod, the one that its reason falls to has     *)
(* been silent for no longer than its window has run, unless it has only     *)
(* now come to owe the message; what the leader read may be old only then.   *)
PendingDue ==
    /\ checked => eventsSeen = "none"
    /\ eventsSeen = "failing" /\ ~volumeFails => silent = 0
    /\ eventsSeen = "fine" /\ volumeFails => silent = 0
    /\ volumeFails => volumeLeft + silent <= TTL /\ (checked /\ volumeLeft = 0 => silent = 0)
    /\ ~volumeFails /\ ~elsewhere /\ ~reading =>
          keyLeft + silent <= TTL /\ (updated /\ keyLeft = 0 => silent = 0)

PendingInv == PendingFlags /\ PendingNumbers /\ PendingDue

(* The flags stay flags.                                                     *)
LEMMA PendingFlagsKept ==
    ASSUME PendingFlags, [PP!Next]_(PP!vars)
    PROVE  PendingFlags'
<1> USE DEF PendingFlags
<1>1. CASE PP!PodUpdate
  BY <1>1, Zenon DEF PP!PodUpdate
<1>2. CASE PP!handlePending \/ PP!OtherPod \/ PP!AgentRestarts
  BY <1>2, Zenon DEF PP!handlePending, PP!OtherPod, PP!AgentRestarts
<1>3. CASE PP!ListPodStates \/ PP!checkVolumeFailures \/ PP!LeaderChanges
  BY <1>3, Zenon DEF PP!ListPodStates, PP!checkVolumeFailures, PP!LeaderChanges
<1>4. CASE PP!EventsChange \/ PP!StateChanges \/ PP!Tick \/ UNCHANGED PP!vars
  BY <1>4, Zenon DEF PP!EventsChange, PP!StateChanges, PP!Tick, PP!vars
<1> QED
  BY <1>1, <1>2, <1>3, <1>4 DEF PP!Next

(* Each step of the two, of the pod and of the clock keeps what is due.      *)
LEMMA PendingStep ==
    ASSUME TTL \in Nat \ {0}, PendingFlags, PendingNumbers, PendingDue, [PP!Next]_(PP!vars)
    PROVE  PendingNumbers' /\ PendingDue'
<1>0. USE DEF PendingFlags, PendingNumbers, PendingDue, PP!Tells
<1>1. CASE PP!PodUpdate
  BY <1>1, SMT DEF PP!PodUpdate
<1>2. CASE PP!handlePending
  BY <1>2, SMT DEF PP!handlePending
<1>3. CASE PP!OtherPod \/ PP!AgentRestarts
  BY <1>3, SMT DEF PP!OtherPod, PP!AgentRestarts
<1>4. CASE PP!ListPodStates
  BY <1>4, SMT DEF PP!ListPodStates
<1>5. CASE PP!checkVolumeFailures
  BY <1>5, SMT DEF PP!checkVolumeFailures
<1>6. CASE PP!LeaderChanges
  <2>1. /\ volumeLeft' \in 0..TTL /\ silent' = 0 /\ eventsSeen' = "none"
        /\ UNCHANGED <<volumeFails, elsewhere, keyLeft, reading, updated, checked>>
    BY <1>6 DEF PP!LeaderChanges
  <2>2. PendingNumbers'
    BY <2>1
  <2>3. volumeLeft' + silent' <= TTL /\ keyLeft' + silent' <= TTL
    <3>1. \A n \in 0..TTL : n + 0 <= TTL
      OBVIOUS
    <3>2. volumeLeft' \in 0..TTL /\ keyLeft' \in 0..TTL /\ silent' = 0
      BY <2>1, <2>2, Zenon
    <3> QED
      BY <3>1, <3>2, Zenon
  <2>4. PendingDue'
    BY <2>1, <2>3, Zenon
  <2> QED
    BY <2>2, <2>4
<1>7. CASE PP!EventsChange \/ PP!StateChanges
  BY <1>7, SMT DEF PP!EventsChange, PP!StateChanges
<1>8. CASE PP!Tick
  <2>1. /\ keyLeft' = PP!Less(keyLeft) /\ volumeLeft' = PP!Less(volumeLeft)
        /\ UNCHANGED <<volumeFails, elsewhere, reading, eventsSeen>>
        /\ ~reading /\ ~updated' /\ ~checked'
    BY <1>8 DEF PP!Tick
  <2>2. PP!Less(keyLeft) \in 0..TTL /\ PP!Less(volumeLeft) \in 0..TTL
    BY DEF PP!Less
  <2>3. CASE ~(updated /\ checked /\ PP!Owed)
    <3>1. silent' = 0
      BY <1>8, <2>3 DEF PP!Tick
    <3> QED
      BY <2>1, <2>2, <3>1
  <2>4. CASE updated /\ checked /\ PP!Owed
    <3>1. silent' = silent + 1
      BY <1>8, <2>4 DEF PP!Tick
    <3>2. eventsSeen = "none"
      BY <2>4
    <3>3. CASE volumeFails
      BY <2>1, <2>4, <3>1, <3>2, <3>3 DEF PP!Less
    <3>4. CASE ~volumeFails /\ ~elsewhere
      BY <2>1, <2>4, <3>1, <3>2, <3>4 DEF PP!Less
    <3> QED
      BY <2>4, <3>3, <3>4 DEF PP!Owed
  <2> QED
    BY <2>3, <2>4
<1>9. CASE UNCHANGED PP!vars
  BY <1>9, SMT DEF PP!vars
<1> QED
  BY <1>1, <1>2, <1>3, <1>4, <1>5, <1>6, <1>7, <1>8, <1>9 DEF PP!Next

(* handlePending (handlers.go) and checkVolumeFailures (podstate.go): a pod  *)
(* that cannot start is told of within a dedup window by the one that its    *)
(* reason falls to, however the events changed between their reads.          *)
THEOREM PendingPodsTold == PP!Spec => []PendingTold
<1>0. TTL \in Nat \ {0}
  BY DetectorsAssumption
<1>1. PP!Init => PendingInv
  <2> SUFFICES ASSUME PP!Init
               PROVE  PendingInv
    OBVIOUS
  <2>1. PendingFlags
    BY Zenon DEF PP!Init, PendingFlags
  <2>2. PendingNumbers /\ PendingDue
    BY <1>0 DEF PP!Init, PendingNumbers, PendingDue
  <2> QED
    BY <2>1, <2>2 DEF PendingInv
<1>2. PendingInv /\ [PP!Next]_(PP!vars) => PendingInv'
  BY <1>0, PendingFlagsKept, PendingStep DEF PendingInv
<1>3. PendingInv => PendingTold
  BY <1>0 DEF PendingInv, PendingNumbers, PendingTold, PP!PendingTold
<1> QED
  BY <1>1, <1>2, <1>3, PTL DEF PP!Spec

-----------------------------------------------------------------------------
(* The autoscaler. *)

(* A copy is a record with the age of the annotation in it, and a process    *)
(* that listed after the last scale-up has that scale-up in its copy.        *)
ScalerInv ==
    /\ cp \in Policies /\ up \in Int /\ sinceUp = up
    /\ listed = [l \in Leaders |-> listed[l]]
    /\ \A l \in Leaders : \A d \in listed[l] : d = [replicas |-> d.replicas, up |-> d.up, down |-> d.down]
    /\ \A l \in Leaders \ early : \A d \in listed[l] : d.up = up

(* The cooldown in force is a number.                                        *)
LEMMA CooldownNumber ==
    ASSUME CooldownsAreNumbers, NEW c \in Policies
    PROVE  S!scaleLimitsFor(c).up \in Int
<1>1. CASE c = {}
  BY <1>1 DEF CooldownsAreNumbers, S!scaleLimitsFor
<1>2. CASE c # {}
  <2> DEFINE p == CHOOSE q \in c : TRUE
  <2>1. p \in c
    BY <1>2
  <2>2. p.cooldown \in Int /\ Global.up \in Int
    BY <2>1 DEF CooldownsAreNumbers
  <2>3. S!effectiveCooldown(p, Global.up) \in Int
    BY <2>2 DEF S!effectiveCooldown
  <2>4. S!scaleLimitsFor(c).up = S!effectiveCooldown(p, Global.up)
    BY <1>2 DEF S!scaleLimitsFor
  <2> QED
    BY <2>3, <2>4
<1> QED
  BY <1>1, <1>2

(* A step keeps ScalerInv: a list copies the annotation, a scale-up makes    *)
(* every other pass an early one, and the clock ages all alike.              *)
LEMMA ScalerStep ==
    ASSUME ScalerInv, [S!Next]_(S!vars)
    PROVE  ScalerInv'
<1>0. USE DEF ScalerInv
<1>1. ASSUME NEW l \in Leaders, S!List(l)
      PROVE  ScalerInv'
  <2>1. /\ listed' = [listed EXCEPT ![l] = {[replicas |-> replicas, up |-> up, down |-> down]}]
        /\ early' = early \ {l} /\ UNCHANGED <<cp, up, sinceUp>>
    BY <1>1 DEF S!List
  <2>2. ASSUME NEW m \in Leaders, NEW d \in listed'[m], m # l
        PROVE  d \in listed[m]
    BY <2>1, <2>2
  <2>3. ASSUME NEW d \in listed'[l]
        PROVE  d = [replicas |-> replicas, up |-> up, down |-> down]
    BY <2>1, <2>3
  <2>4. ASSUME NEW m \in Leaders, NEW d \in listed'[m]
        PROVE  d = [replicas |-> d.replicas, up |-> d.up, down |-> d.down]
    BY <2>2, <2>3, <2>4
  <2>5. ASSUME NEW m \in Leaders \ early', NEW d \in listed'[m]
        PROVE  d.up = up'
    BY <2>1, <2>2, <2>3, <2>5
  <2>6. listed' = [m \in Leaders |-> listed'[m]]
    BY <2>1
  <2> QED
    BY <2>1, <2>4, <2>5, <2>6
<1>2. ASSUME NEW l \in Leaders, S!Ends(l)
      PROVE  /\ cp' = cp /\ listed' = [m \in Leaders |-> listed'[m]]
             /\ listed'[l] = {} /\ \A m \in Leaders : m # l => listed'[m] = listed[m]
  BY <1>2 DEF S!Ends
<1>3. ASSUME NEW l \in Leaders, S!ScaleUp(l)
      PROVE  ScalerInv'
  <2>1. /\ S!Ends(l) /\ up' = 0 /\ sinceUp' = 0
        /\ early' = {m \in Leaders \ {l} : listed[m] # {}}
    BY <1>3 DEF S!ScaleUp
  <2>2. \A m \in Leaders \ early' : listed'[m] = {}
    BY <1>2, <2>1
  <2> QED
    BY <1>2, <2>1, <2>2
<1>4. ASSUME NEW l \in Leaders, S!ScaleDown(l) \/ S!LeavesIt(l)
      PROVE  ScalerInv'
  <2>1. S!Ends(l) /\ UNCHANGED <<up, sinceUp, early>>
    BY <1>4 DEF S!ScaleDown, S!LeavesIt
  <2> QED
    BY <1>2, <2>1
<1>5. CASE S!Tick
  <2>1. /\ up' = S!Older(up) /\ sinceUp' = S!Older(sinceUp) /\ UNCHANGED <<cp, early>>
        /\ listed' = [l \in Leaders |->
                        {[d EXCEPT !.up = S!Older(@), !.down = S!Older(@)] : d \in listed[l]}]
    BY <1>5 DEF S!Tick
  <2>2. up' \in Int /\ sinceUp' = up'
    <3>1. up \in Int /\ sinceUp = up /\ up' = S!Older(up) /\ sinceUp' = S!Older(sinceUp)
      BY <2>1
    <3> HIDE DEF ScalerInv
    <3> QED
      BY <3>1 DEF S!Older
  <2>3. ASSUME NEW m \in Leaders, NEW d \in listed'[m]
        PROVE  /\ d = [replicas |-> d.replicas, up |-> d.up, down |-> d.down]
               /\ m \notin early => d.up = up'
    <3>1. PICK c \in listed[m] : d = [c EXCEPT !.up = S!Older(@), !.down = S!Older(@)]
      BY <2>1, <2>3
    <3>2. c = [replicas |-> c.replicas, up |-> c.up, down |-> c.down] /\ (m \notin early => c.up = up)
      BY <3>1
    <3>3. d = [replicas |-> c.replicas, up |-> S!Older(c.up), down |-> S!Older(c.down)]
      BY <3>1, <3>2
    <3> QED
      BY <2>1, <3>2, <3>3
  <2>4. listed' = [m \in Leaders |-> listed'[m]]
    BY <2>1
  <2> QED
    BY <2>1, <2>2, <2>3, <2>4
<1>6. CASE UNCHANGED <<cp, up, listed, sinceUp, early>>
  BY <1>6
<1> QED
  BY <1>1, <1>3, <1>4, <1>5, <1>6 DEF S!Next, S!vars, S!UserScales, S!LeaseMoves, S!LoadSettles

(* EvaluateAndScale (scaler.go): within the cooldown after a scale-up no     *)
(* process scales again in either direction, but for one that had listed the *)
(* Deployment before it, for every number of processes, all settings and all *)
(* policies, and whatever the queries answer.                                *)
THEOREM NoScalingInCooldown == S!Spec => CooldownHolds
<1>0. CooldownsAreNumbers /\ Aged \in Nat
  BY AgentAssumption DEF CooldownsAreNumbers
<1>1. S!Init => ScalerInv
  BY <1>0 DEF S!Init, ScalerInv
<1>2. ScalerInv /\ [S!Next]_(S!vars) => ScalerInv'
  BY <1>0, ScalerStep
<1>3. ScalerInv /\ [S!Next]_(S!vars) => [S!CooldownStep]_svars
  <2> SUFFICES ASSUME ScalerInv, NEW l \in Leaders \ early, S!ScaleUp(l) \/ S!ScaleDown(l)
               PROVE  sinceUp >= S!scaleLimitsFor(cp).up
    BY DEF S!CooldownStep, S!vars, svars
  <2>1. PICK d \in listed[l] : ~S!inCooldown(d.up, S!scaleLimitsFor(cp).up)
    BY DEF S!ScaleUp, S!ScaleDown
  <2>2. d.up = sinceUp /\ sinceUp \in Int
    BY <2>1 DEF ScalerInv
  <2>3. S!scaleLimitsFor(cp).up \in Int
    BY <1>0, CooldownNumber DEF ScalerInv
  <2> QED
    BY <2>1, <2>2, <2>3 DEF S!inCooldown
<1> QED
  BY <1>1, <1>2, <1>3, PTL DEF S!Spec, CooldownHolds

-----------------------------------------------------------------------------
(* The policy store. *)

(* The policies that syncAll finds for a namespace in the informer's store.  *)
Found(s) == {C!parse(n, cached[n]) : n \in {m \in Names : Ns[m] = s /\ C!Parses(cached[m])}}

(* The store and the synchronisation that runs are functions on the          *)
(* namespaces.                                                               *)
StoreShape ==
    /\ objects = [n \in Names |-> objects[n]] /\ cached = [n \in Names |-> cached[n]]
    /\ \A n \in Names : objects[n] \in Written[n] \cup {Absent}
    /\ byNS = [s \in C!Namespaces |-> byNS[s]]
    /\ sync = [on |-> sync.on, nsMap |-> sync.nsMap, gone |-> sync.gone, next |-> sync.next,
               current |-> sync.current]
    /\ held \subseteq Names /\ sync.current \subseteq Names
    /\ sync.on \in BOOLEAN /\ due \in BOOLEAN

(* A set of policies has at most one of each name.                           *)
OneEach(policies) == \A p, q \in policies : p.name = q.name => p = q

(* At rest the store has what the informer has; while a synchronisation runs *)
(* the namespaces it is done with have what it found, which is what the      *)
(* informer has unless another notification waits.                           *)
FollowInv ==
    /\ ~due /\ ~sync.on => \A s \in C!Namespaces : byNS[s] = Found(s)
    /\ ~due /\ sync.on => \A s \in C!Namespaces : sync.nsMap[s] = Found(s)
    /\ sync.on => \A s \in C!Namespaces :
          /\ s \in sync.gone => sync.nsMap[s] = {}
          /\ s \notin sync.gone \cup sync.next => byNS[s] = sync.nsMap[s]

(* A policy that the store was given as it is now is in the informer's store *)
(* as it is, in the store, and in what a synchronisation that runs found.    *)
HeldInv ==
    /\ \A n \in held \cup sync.current : cached[n] = objects[n]
    /\ \A n \in held : C!Parses(objects[n]) /\ C!parse(n, objects[n]) \in byNS[Ns[n]]
    /\ sync.on => \A n \in held \cup sync.current :
          C!Parses(objects[n]) => C!parse(n, objects[n]) \in sync.nsMap[Ns[n]]
    /\ \A s \in C!Namespaces : OneEach(byNS[s])
    /\ sync.on => \A s \in C!Namespaces : OneEach(sync.nsMap[s])

StoreInv == StoreShape /\ FollowInv /\ HeldInv

(* What syncAll finds has each name once.                                    *)
LEMMA FoundOnce ==
    ASSUME NEW s
    PROVE  OneEach(Found(s))
<1> SUFFICES ASSUME NEW n \in Names, NEW m \in Names,
                    C!parse(n, cached[n]).name = C!parse(m, cached[m]).name
             PROVE  n = m
  BY DEF OneEach, Found
<1> QED
  BY DEF C!parse

(* What the informer's store leads to changes only with it.                  *)
LEMMA FoundStays ==
    ASSUME cached' = cached, NEW s
    PROVE  Found(s)' = Found(s)
BY DEF Found, C!Parses

(* A user's change takes the policy out of what the store was given.         *)
LEMMA StoreObject ==
    ASSUME StoreInv, NEW n \in Names, C!ObjectChanges(n)
    PROVE  StoreInv'
<1>1. PICK u \in Written[n] \cup {Absent} : objects' = [objects EXCEPT ![n] = u]
  BY DEF C!ObjectChanges
<1>2. /\ held' = held \ {n} /\ sync' = [sync EXCEPT !.current = @ \ {n}]
      /\ UNCHANGED <<cached, due, byNS>>
  BY DEF C!ObjectChanges
<1>3. /\ sync' = [on |-> sync.on, nsMap |-> sync.nsMap, gone |-> sync.gone, next |-> sync.next,
                 current |-> sync.current \ {n}]
      /\ sync'.on = sync.on /\ sync'.nsMap = sync.nsMap /\ sync'.gone = sync.gone
      /\ sync'.next = sync.next /\ sync'.current = sync.current \ {n}
  BY <1>2 DEF StoreInv, StoreShape
<1>4. \A m \in Names : m # n => objects'[m] = objects[m]
  BY <1>1 DEF StoreInv, StoreShape
<1>5. StoreShape'
  <2>1. objects' = [m \in Names |-> objects'[m]] /\ \A m \in Names : objects'[m] \in Written[m] \cup {Absent}
    BY <1>1 DEF StoreInv, StoreShape
  <2> QED
    BY <1>2, <1>3, <2>1 DEF StoreInv, StoreShape
<1>6. FollowInv'
  BY <1>2, <1>3, FoundStays DEF StoreInv, FollowInv
<1>7. HeldInv'
  <2>1. \A m \in held' \cup sync'.current : m \in held \cup sync.current /\ objects'[m] = objects[m]
    BY <1>2, <1>3, <1>4 DEF StoreInv, StoreShape
  <2>2. \A m \in held' : m \in held
    BY <1>2
  <2> QED
    BY <1>2, <1>3, <2>1, <2>2 DEF StoreInv, HeldInv, OneEach, C!Parses
<1> QED
  BY <1>5, <1>6, <1>7 DEF StoreInv

(* The informer stores only what differs, so nothing that the store was      *)
(* given as it is now.                                                       *)
LEMMA StoreNotify ==
    ASSUME StoreInv, NEW n \in Names, C!Notify(n)
    PROVE  StoreInv'
<1>1. /\ cached[n] # objects[n] /\ cached' = [cached EXCEPT ![n] = objects[n]]
      /\ due' = TRUE /\ UNCHANGED <<objects, sync, byNS, held>>
  BY DEF C!Notify
<1>2. /\ cached' = [m \in Names |-> cached'[m]]
      /\ \A m \in Names : m # n => cached'[m] = cached[m]
  BY <1>1 DEF StoreInv, StoreShape
<1>3. StoreShape'
  BY <1>1, <1>2 DEF StoreInv, StoreShape
<1>4. FollowInv'
  BY <1>1 DEF StoreInv, FollowInv
<1>5. HeldInv'
  <2>1. \A m \in held \cup sync.current : m \in Names /\ m # n
    BY <1>1 DEF StoreInv, StoreShape, HeldInv
  <2> QED
    BY <1>1, <1>2, <2>1 DEF StoreInv, HeldInv, OneEach, C!Parses
<1> QED
  BY <1>3, <1>4, <1>5 DEF StoreInv

(* A synchronisation starts with what the informer has, which includes the   *)
(* policies that the store was given as they are.                            *)
LEMMA StoreStart ==
    ASSUME StoreInv, C!SyncStart
    PROVE  StoreInv'
<1> DEFINE nsMap == [s \in C!Namespaces |-> Found(s)]
           gone == {s \in C!Namespaces : byNS[s] # {} /\ nsMap[s] = {}}
           next == {s \in C!Namespaces : nsMap[s] # {}}
           current == {n \in Names : cached[n] = objects[n]}
<1>1. /\ sync' = [on |-> TRUE, nsMap |-> nsMap, gone |-> gone, next |-> next, current |-> current]
      /\ due' = FALSE /\ UNCHANGED <<objects, cached, byNS, held>>
  BY DEF C!SyncStart, Found
<1>2. \A s \in C!Namespaces : /\ nsMap[s] = Found(s) /\ (s \in gone => nsMap[s] = {})
                              /\ s \notin gone \cup next => byNS[s] = nsMap[s]
  OBVIOUS
<1>3. /\ current \subseteq Names /\ \A n \in current : cached[n] = objects[n]
      /\ \A n \in held : n \in Names /\ cached[n] = objects[n]
  BY DEF StoreInv, StoreShape, HeldInv
<1>4. ASSUME NEW n \in held \cup current, C!Parses(objects[n])
      PROVE  C!parse(n, objects[n]) \in nsMap[Ns[n]]
  <2>1. n \in Names /\ cached[n] = objects[n] /\ Ns[n] \in C!Namespaces
    BY <1>3, <1>4 DEF C!Namespaces
  <2>2. C!parse(n, cached[n]) \in Found(Ns[n])
    BY <1>4, <2>1 DEF Found
  <2> QED
    BY <2>1, <2>2
<1> HIDE DEF nsMap, gone, next, current
<1>5. /\ sync'.on = TRUE /\ sync'.nsMap = nsMap /\ sync'.gone = gone
      /\ sync'.next = next /\ sync'.current = current
  BY <1>1
<1>6. StoreShape'
  BY <1>1, <1>3, <1>5 DEF StoreInv, StoreShape
<1>7. FollowInv'
  <2>1. \A s \in C!Namespaces : sync'.nsMap[s] = Found(s)'
    BY <1>1, <1>2, <1>5, FoundStays
  <2>2. ASSUME NEW s \in C!Namespaces
        PROVE  /\ s \in sync'.gone => sync'.nsMap[s] = {}
               /\ s \notin sync'.gone \cup sync'.next => byNS'[s] = sync'.nsMap[s]
    BY <1>1, <1>2, <1>5
  <2> QED
    BY <1>5, <2>1, <2>2 DEF FollowInv
<1>8. HeldInv'
  <2>1. ASSUME NEW s \in C!Namespaces
        PROVE  OneEach(nsMap[s])
    <3>1. nsMap[s] = Found(s) /\ OneEach(Found(s))
      BY <1>2, FoundOnce
    <3> QED
      BY <3>1 DEF OneEach
  <2> QED
    BY <1>1, <1>3, <1>4, <1>5, <2>1 DEF StoreInv, HeldInv, OneEach, C!Parses
<1> QED
  BY <1>6, <1>7, <1>8 DEF StoreInv

(* A namespace is deleted only when the synchronisation found nothing in it, *)
(* so none of a policy that the store was given as it is.                    *)
LEMMA StoreDelete ==
    ASSUME StoreInv, C!SyncDelete
    PROVE  StoreInv'
<1>1. PICK s \in sync.gone : /\ byNS' = [byNS EXCEPT ![s] = {}]
                             /\ sync' = [sync EXCEPT !.gone = @ \ {s}]
  BY DEF C!SyncDelete
<1>2. sync.on /\ UNCHANGED <<objects, cached, due, held>>
  BY DEF C!SyncDelete
<1>3. /\ sync' = [on |-> sync.on, nsMap |-> sync.nsMap, gone |-> sync.gone \ {s}, next |-> sync.next,
                 current |-> sync.current]
      /\ sync'.on = sync.on /\ sync'.nsMap = sync.nsMap /\ sync'.gone = sync.gone \ {s}
      /\ sync'.next = sync.next /\ sync'.current = sync.current
  BY <1>1 DEF StoreInv, StoreShape
<1>4. /\ byNS' = [r \in C!Namespaces |-> byNS'[r]]
      /\ \A r \in C!Namespaces : byNS'[r] = IF r = s THEN {} ELSE byNS[r]
  BY <1>1 DEF StoreInv, StoreShape
<1>5. s \in C!Namespaces => sync.nsMap[s] = {}
  BY <1>2 DEF StoreInv, FollowInv
<1>6. \A n \in held : n \in Names /\ Ns[n] \in C!Namespaces /\ Ns[n] # s
  BY <1>2, <1>5 DEF StoreInv, StoreShape, HeldInv, C!Namespaces
<1>7. StoreShape'
  BY <1>2, <1>3, <1>4 DEF StoreInv, StoreShape
<1>8. FollowInv'
  BY <1>2, <1>3, <1>4, <1>5, FoundStays DEF StoreInv, FollowInv
<1>9. HeldInv'
  <2>1. \A r \in C!Namespaces : OneEach(byNS'[r])
    BY <1>4 DEF StoreInv, HeldInv, OneEach
  <2> QED
    BY <1>2, <1>3, <1>4, <1>6, <2>1 DEF StoreInv, HeldInv, OneEach, C!Parses
<1> QED
  BY <1>7, <1>8, <1>9 DEF StoreInv

(* A namespace is replaced as a whole by what the synchronisation found,     *)
(* with the policies in it that the store was given as they are.             *)
LEMMA StoreUpdate ==
    ASSUME StoreInv, C!SyncUpdate
    PROVE  StoreInv'
<1>1. PICK s \in sync.next : /\ byNS' = [byNS EXCEPT ![s] = sync.nsMap[s]]
                             /\ sync' = [sync EXCEPT !.next = @ \ {s}]
                             /\ held' = held \cup {n \in sync.current : Ns[n] = s /\ C!Parses(objects[n])}
  BY DEF C!SyncUpdate
<1>2. sync.on /\ UNCHANGED <<objects, cached, due>>
  BY DEF C!SyncUpdate
<1>3. /\ sync' = [on |-> sync.on, nsMap |-> sync.nsMap, gone |-> sync.gone, next |-> sync.next \ {s},
                 current |-> sync.current]
      /\ sync'.on = sync.on /\ sync'.nsMap = sync.nsMap /\ sync'.gone = sync.gone
      /\ sync'.next = sync.next \ {s} /\ sync'.current = sync.current
  BY <1>1 DEF StoreInv, StoreShape
<1>4. /\ byNS' = [r \in C!Namespaces |-> byNS'[r]]
      /\ \A r \in C!Namespaces : byNS'[r] = IF r = s THEN sync.nsMap[s] ELSE byNS[r]
  BY <1>1 DEF StoreInv, StoreShape
<1>5. StoreShape'
  BY <1>1, <1>2, <1>3, <1>4 DEF StoreInv, StoreShape
<1>6. FollowInv'
  BY <1>2, <1>3, <1>4, FoundStays DEF StoreInv, FollowInv
<1>7. HeldInv'
  <2>1. \A r \in C!Namespaces : OneEach(byNS'[r])
    BY <1>2, <1>4 DEF StoreInv, HeldInv, OneEach
  <2>2. ASSUME NEW n \in held'
        PROVE  /\ C!Parses(objects[n]) /\ n \in held \cup sync.current
               /\ C!parse(n, objects[n]) \in byNS'[Ns[n]]
    <3>1. n \in Names /\ Ns[n] \in C!Namespaces /\ C!Parses(objects[n]) /\ n \in held \cup sync.current
      BY <1>1, <2>2 DEF StoreInv, StoreShape, HeldInv, C!Namespaces
    <3>2. CASE Ns[n] = s
      BY <1>2, <1>4, <3>1, <3>2 DEF StoreInv, HeldInv
    <3>3. CASE Ns[n] # s
      BY <1>1, <1>4, <2>2, <3>1, <3>3 DEF StoreInv, HeldInv
    <3> QED
      BY <3>2, <3>3, <3>1
  <2>3. \A n \in held' \cup sync'.current : n \in held \cup sync.current
    BY <1>3, <2>2
  <2> QED
    BY <1>2, <1>3, <2>1, <2>2, <2>3 DEF StoreInv, HeldInv, OneEach, C!Parses
<1> QED
  BY <1>5, <1>6, <1>7 DEF StoreInv

(* At the end every namespace has what the synchronisation found.            *)
LEMMA StoreEnd ==
    ASSUME StoreInv, C!SyncEnd
    PROVE  StoreInv'
<1>1. /\ sync.on /\ sync.gone = {} /\ sync.next = {} /\ sync' = C!Off
      /\ UNCHANGED <<objects, cached, due, byNS, held>>
  BY DEF C!SyncEnd
<1>2. /\ sync'.on = FALSE /\ sync'.current = {}
      /\ sync' = [on |-> sync'.on, nsMap |-> sync'.nsMap, gone |-> sync'.gone, next |-> sync'.next,
                 current |-> sync'.current]
  BY <1>1 DEF C!Off
<1>3. StoreShape'
  BY <1>1, <1>2 DEF StoreInv, StoreShape
<1>4. FollowInv'
  <2>1. ASSUME ~due, NEW s \in C!Namespaces
        PROVE  byNS'[s] = Found(s)'
    BY <1>1, <2>1, FoundStays DEF StoreInv, FollowInv
  <2> QED
    BY <1>1, <1>2, <2>1 DEF FollowInv
<1>5. HeldInv'
  BY <1>1, <1>2 DEF StoreInv, HeldInv, OneEach, C!Parses
<1> QED
  BY <1>3, <1>4, <1>5 DEF StoreInv

(* A process that starts.                                                    *)
StoreFresh ==
    /\ objects = [n \in Names |-> objects[n]] /\ cached = [n \in Names |-> Absent]
    /\ due = FALSE /\ sync = C!Off /\ byNS = [s \in C!Namespaces |-> {}] /\ held = {}
    /\ \A n \in Names : objects[n] \in Written[n] \cup {Absent}

(* A new process, and the first one, have nothing: no object that the        *)
(* informer has not read parses.                                             *)
LEMMA StoreEmpty == StoreFresh => StoreInv
<1> SUFFICES ASSUME StoreFresh
             PROVE  StoreInv
  OBVIOUS
<1>0. USE DEF StoreFresh
<1>1. /\ sync.on = FALSE /\ sync.current = {}
      /\ sync = [on |-> sync.on, nsMap |-> sync.nsMap, gone |-> sync.gone, next |-> sync.next,
                current |-> sync.current]
  BY DEF C!Off
<1>2. \A s : Found(s) = {}
  BY DEF Found, C!Parses
<1>3. StoreShape
  BY <1>1 DEF StoreShape
<1>4. FollowInv
  BY <1>1, <1>2 DEF FollowInv
<1>5. HeldInv
  BY <1>1 DEF HeldInv, OneEach
<1> QED
  BY <1>3, <1>4, <1>5 DEF StoreInv

(* parse keeps what such an object says.                                     *)
LEMMA ParseKeeps ==
    ASSUME NEW n, NEW u, Typed(u.bump), Typed(u.perHour),
           Typed(u.scale.min), Typed(u.scale.max), Typed(u.scale.step)
    PROVE  C!parse(n, u).name = n /\ C!Agrees(C!parse(n, u), u)
<1>1. ASSUME NEW v, Typed(v)
      PROVE  C!Number(v) = v[2] /\ (C!Fits(v[2]) => C!int32(v) = v[2])
  <2>1. C!Number(v) = v[2]
    BY <1>1 DEF Typed, C!Number
  <2> QED
    BY <2>1 DEF C!int32
<1>2. /\ C!Number(u.bump) = u.bump[2] /\ C!Number(u.perHour) = u.perHour[2]
      /\ C!Fits(u.scale.min[2]) => C!int32(u.scale.min) = u.scale.min[2]
      /\ C!Fits(u.scale.max[2]) => C!int32(u.scale.max) = u.scale.max[2]
      /\ C!Fits(u.scale.step[2]) => C!int32(u.scale.step) = u.scale.step[2]
  BY <1>1
<1>3. /\ C!parse(n, u).name = n /\ C!parse(n, u).bump = C!Number(u.bump)
      /\ C!parse(n, u).perHour = C!Number(u.perHour) /\ C!parse(n, u).approval = u.approval
      /\ C!parse(n, u).scale = C!parseScaleConfig(u.scale)
  BY DEF C!parse
<1>4. LET s == C!parseScaleConfig(u.scale)
      IN  /\ s.enabled = u.scale.enabled /\ s.override = u.scale.override
          /\ s.min = C!int32(u.scale.min) /\ s.max = C!int32(u.scale.max)
          /\ s.step = C!int32(u.scale.step)
  BY DEF C!parseScaleConfig
<1> QED
  BY <1>2, <1>3, <1>4 DEF C!Agrees

(* A reader finds a policy that the store was given as it is, and one that   *)
(* requires approval refuses when it is the only one.                        *)
LEMMA StoreGap ==
    ASSUME StoreInv
    PROVE  C!NoGap
<1> SUFFICES ASSUME NEW n \in held
             PROVE  LET u == objects[n]
                        others == {p \in byNS[Ns[n]] : p.name # n}
                    IN  /\ C!parse(n, u) \in byNS[Ns[n]]
                        /\ u.approval /\ others = {} =>
                              \A pol \in C!effectivePolicy(Ns[n], u.selector) :
                                  C!policyRefusal(pol, "delete_pod", 0)
  BY DEF C!NoGap
<1> DEFINE u == objects[n]
           others == {p \in byNS[Ns[n]] : p.name # n}
<1>1. C!parse(n, u) \in byNS[Ns[n]] /\ Ns[n] \in C!Namespaces /\ OneEach(byNS[Ns[n]])
  BY DEF StoreInv, StoreShape, HeldInv, C!Namespaces
<1>2. ASSUME u.approval, others = {}, NEW pol \in C!effectivePolicy(Ns[n], u.selector)
      PROVE  C!policyRefusal(pol, "delete_pod", 0)
  <2>1. /\ C!parse(n, u).name = n /\ C!parse(n, u).selector = u.selector
        /\ C!parse(n, u).approval = u.approval
    BY DEF C!parse
  <2>2. C!parse(n, u) \in C!Match(Ns[n], u.selector)
    BY <1>1, <2>1 DEF C!Match
  <2>3. PICK p \in C!Match(Ns[n], u.selector) : pol = {p}
    BY <1>2, <2>2 DEF C!effectivePolicy
  <2>4. p \in byNS[Ns[n]] /\ p.name = n
    BY <1>2, <2>3 DEF C!Match
  <2>5. p = C!parse(n, u)
    BY <1>1, <2>1, <2>4 DEF OneEach
  <2> QED
    BY <1>2, <2>1, <2>3, <2>5 DEF C!policyRefusal
<1> QED
  BY <1>1, <1>2

(* At rest, with the informer caught up, the store says what the objects     *)
(* say.                                                                      *)
LEMMA StoreFollowing ==
    ASSUME NumbersTyped, StoreInv
    PROVE  C!StoreFollows
<1> SUFFICES ASSUME cached = objects, ~due, ~sync.on, NEW s \in C!Namespaces
             PROVE  /\ {p.name : p \in byNS[s]} = {n \in Names : Ns[n] = s /\ C!Parses(objects[n])}
                    /\ \A p \in byNS[s] : C!Agrees(p, objects[p.name])
  BY DEF C!StoreFollows
<1> DEFINE here == {m \in Names : Ns[m] = s /\ C!Parses(objects[m])}
<1>1. byNS[s] = {C!parse(n, objects[n]) : n \in here}
  BY DEF StoreInv, FollowInv, Found
<1>2. ASSUME NEW n \in here
      PROVE  C!parse(n, objects[n]).name = n /\ C!Agrees(C!parse(n, objects[n]), objects[n])
  <2>1. n \in Names /\ objects[n] \in Written[n] /\ C!Parses(objects[n])
    BY DEF StoreInv, StoreShape, C!Parses
  <2> QED
    BY <2>1, ParseKeeps DEF NumbersTyped
<1>3. {p.name : p \in byNS[s]} = here
  BY <1>1, <1>2
<1>4. \A p \in byNS[s] : C!Agrees(p, objects[p.name])
  BY <1>1, <1>2
<1> QED
  BY <1>3, <1>4

(* syncAll (crd/controller.go) and Store (crd/store.go): a policy that the   *)
(* store was given stays in force while others come and go, and at rest the  *)
(* store has what the objects say, for all policies and namespaces.          *)
THEOREM PoliciesInForce == C!Spec => []PolicyInForce
<1>0. NumbersTyped
  BY AgentAssumption
<1>1. C!Init => StoreInv
  <2> SUFFICES ASSUME C!Init
               PROVE  StoreInv
    OBVIOUS
  <2>1. objects = [n \in Names |-> objects[n]]
    BY DEF C!Init
  <2> QED
    BY <2>1, StoreEmpty DEF C!Init, StoreFresh
<1>2. StoreInv /\ [C!Next]_(C!vars) => StoreInv'
  <2> SUFFICES ASSUME StoreInv, [C!Next]_(C!vars)
               PROVE  StoreInv'
    OBVIOUS
  <2>1. CASE C!Restart
    <3>1. StoreShape
      BY DEF StoreInv
    <3>2. /\ objects' = [n \in Names |-> objects'[n]]
          /\ \A n \in Names : objects'[n] \in Written[n] \cup {Absent}
      BY <2>1, <3>1 DEF StoreShape, C!Restart
    <3>3. StoreFresh'
      BY <2>1, <3>2 DEF C!Restart, StoreFresh, C!Off
    <3>4. StoreFresh' => StoreInv'
      BY StoreEmpty, PTL
    <3> QED
      BY <3>3, <3>4
  <2>2. CASE UNCHANGED C!vars
    <3>1. UNCHANGED <<objects, cached, due, sync, byNS, held>>
      BY <2>2 DEF C!vars
    <3>2. StoreShape'
      BY <3>1 DEF StoreInv, StoreShape
    <3>3. FollowInv'
      BY <3>1, FoundStays DEF StoreInv, FollowInv
    <3>4. HeldInv'
      BY <3>1 DEF StoreInv, HeldInv, OneEach, C!Parses
    <3> QED
      BY <3>2, <3>3, <3>4 DEF StoreInv
  <2> QED
    BY <2>1, <2>2, StoreObject, StoreNotify, StoreStart, StoreDelete, StoreUpdate, StoreEnd DEF C!Next
<1>3. StoreInv => PolicyInForce
  BY <1>0, StoreGap, StoreFollowing DEF PolicyInForce, C!PolicyInForce
<1> QED
  BY <1>1, <1>2, <1>3, PTL DEF C!Spec

-----------------------------------------------------------------------------
(* Fix verification.  Lists of records: what they hold, and that they hold   *)
(* one record of an action at most. *)

Rec == [of : Actions, since : Int]
In(s) == {s[i] : i \in 1..Len(s)}
Apart(s) == \A i, j \in 1..Len(s) : s[i].of = s[j].of => i = j
NoneOf(some, others) == \A r \in some, q \in others : r.of # q.of

(* The empty list holds nothing.                                             *)
LEMMA InEmpty == In(<<>>) = {} /\ Apart(<<>>)
BY DEF In, Apart

(* Two lists joined (restored pending records before those recorded         *)
(* meanwhile) hold what both hold.                                           *)
LEMMA InConcat ==
    ASSUME NEW s \in Seq(Rec), NEW t \in Seq(Rec)
    PROVE  /\ s \o t \in Seq(Rec) /\ In(s \o t) = In(s) \cup In(t)
           /\ Apart(s) /\ Apart(t) /\ NoneOf(In(s), In(t)) => Apart(s \o t)
<1> DEFINE u == s \o t
<1>1. /\ u \in Seq(Rec) /\ Len(u) = Len(s) + Len(t) /\ Len(s) \in Nat /\ Len(t) \in Nat
      /\ \A i \in 1..(Len(s) + Len(t)) : u[i] = IF i <= Len(s) THEN s[i] ELSE t[i - Len(s)]
  BY ConcatProperties, LenProperties
<1> HIDE DEF u
<1>2. ASSUME NEW i \in 1..Len(u)
      PROVE  u[i] \in In(s) \cup In(t)
  BY <1>1 DEF In
<1>3. ASSUME NEW i \in 1..Len(s)
      PROVE  s[i] \in In(u)
  <2>1. i \in 1..Len(u) /\ u[i] = s[i]
    BY <1>1
  <2> QED
    BY <2>1 DEF In
<1>4. ASSUME NEW i \in 1..Len(t)
      PROVE  t[i] \in In(u)
  <2> DEFINE j == i + Len(s)
  <2>1. j \in 1..(Len(s) + Len(t)) /\ ~(j <= Len(s)) /\ j - Len(s) = i
    BY <1>1
  <2> HIDE DEF j
  <2>2. j \in 1..Len(u) /\ u[j] = t[i]
    BY <1>1, <2>1
  <2> QED
    BY <2>2 DEF In
<1>5. In(u) = In(s) \cup In(t)
  BY <1>2, <1>3, <1>4 DEF In
<1>6. ASSUME Apart(s), Apart(t), NoneOf(In(s), In(t)),
             NEW i \in 1..Len(u), NEW j \in 1..Len(u), u[i].of = u[j].of
      PROVE  i = j
  <2>1. CASE i <= Len(s) /\ j <= Len(s)
    BY <1>1, <1>6, <2>1 DEF Apart
  <2>2. CASE ~(i <= Len(s)) /\ ~(j <= Len(s))
    <3>1. i - Len(s) \in 1..Len(t) /\ j - Len(s) \in 1..Len(t) /\ u[i] = t[i - Len(s)] /\ u[j] = t[j - Len(s)]
      BY <1>1, <2>2
    <3>2. i - Len(s) = j - Len(s)
      BY <1>6, <3>1 DEF Apart
    <3> QED
      BY <1>1, <3>2
  <2>3. CASE i <= Len(s) /\ ~(j <= Len(s))
    <3>1. u[i] \in In(s) /\ u[j] \in In(t)
      BY <1>1, <2>3 DEF In
    <3> QED
      BY <1>6, <3>1 DEF NoneOf
  <2>4. CASE ~(i <= Len(s)) /\ j <= Len(s)
    <3>0. i - Len(s) \in 1..Len(t) /\ u[i] = t[i - Len(s)] /\ j \in 1..Len(s) /\ u[j] = s[j]
      BY <1>1, <2>4
    <3>1. u[j] \in In(s) /\ u[i] \in In(t)
      BY <3>0 DEF In
    <3> QED
      BY <1>6, <3>1 DEF NoneOf
  <2> QED
    BY <2>1, <2>2, <2>3, <2>4
<1>7. Apart(s) /\ Apart(t) /\ NoneOf(In(s), In(t)) => Apart(u)
  BY <1>6 DEF Apart
<1> QED
  BY <1>1, <1>5, <1>7 DEF u

(* A list that a record is appended to holds that record too.                *)
LEMMA InAppend ==
    ASSUME NEW s \in Seq(Rec), NEW r \in Rec
    PROVE  /\ Append(s, r) \in Seq(Rec) /\ In(Append(s, r)) = In(s) \cup {r}
           /\ Apart(s) /\ NoneOf(In(s), {r}) => Apart(Append(s, r))
<1> DEFINE u == Append(s, r)
<1>1. /\ u \in Seq(Rec) /\ Len(u) = Len(s) + 1 /\ Len(s) \in Nat
      /\ \A i \in 1..Len(s) : u[i] = s[i]
      /\ u[Len(s) + 1] = r
  OBVIOUS
<1> HIDE DEF u
<1>2. In(u) = In(s) \cup {r}
  <2>1. ASSUME NEW i \in 1..Len(u)
        PROVE  u[i] \in In(s) \cup {r}
    BY <1>1 DEF In
  <2>2. ASSUME NEW i \in 1..Len(s)
        PROVE  s[i] \in In(u)
    <3>1. i \in 1..Len(u) /\ u[i] = s[i]
      BY <1>1
    <3> QED
      BY <3>1 DEF In
  <2>3. r \in In(u)
    <3>1. Len(s) + 1 \in 1..Len(u) /\ u[Len(s) + 1] = r
      BY <1>1
    <3> QED
      BY <3>1 DEF In
  <2> QED
    BY <2>1, <2>2, <2>3 DEF In
<1>3. ASSUME Apart(s), NoneOf(In(s), {r}), NEW i \in 1..Len(u), NEW j \in 1..Len(u), u[i].of = u[j].of
      PROVE  i = j
  <2>1. \A k \in 1..Len(s) : s[k].of # r.of
    BY <1>3 DEF NoneOf, In
  <2> QED
    BY <1>1, <1>3, <2>1 DEF Apart
<1>4. Apart(s) /\ NoneOf(In(s), {r}) => Apart(u)
  BY <1>3 DEF Apart
<1> QED
  BY <1>1, <1>2, <1>4 DEF u

(* A list holds its head and, apart from it, its tail: one record of a pass. *)
LEMMA InTail ==
    ASSUME NEW s \in Seq(Rec), s # <<>>
    PROVE  /\ Head(s) \in Rec /\ Tail(s) \in Seq(Rec) /\ In(s) = {Head(s)} \cup In(Tail(s))
           /\ Apart(s) => Apart(Tail(s)) /\ NoneOf(In(Tail(s)), {Head(s)})
<1> DEFINE t == Tail(s)
<1>1. /\ Head(s) \in Rec /\ t \in Seq(Rec) /\ Len(t) = Len(s) - 1 /\ Len(s) \in Nat /\ Len(s) > 0
      /\ Head(s) = s[1] /\ \A i \in 1..Len(t) : t[i] = s[i + 1]
  BY HeadTailProperties, EmptySeq
<1> HIDE DEF t
<1>2. In(s) = {Head(s)} \cup In(t)
  <2>1. ASSUME NEW i \in 1..Len(s)
        PROVE  s[i] \in {Head(s)} \cup In(t)
    <3>1. CASE i = 1
      BY <1>1, <3>1
    <3>2. CASE i # 1
      <4>1. i - 1 \in 1..Len(t) /\ t[i - 1] = s[i]
        BY <1>1, <3>2
      <4> QED
        BY <4>1 DEF In
    <3> QED
      BY <3>1, <3>2
  <2>2. ASSUME NEW i \in 1..Len(t)
        PROVE  t[i] \in In(s)
    <3>1. i + 1 \in 1..Len(s) /\ t[i] = s[i + 1]
      BY <1>1
    <3> QED
      BY <3>1 DEF In
  <2>3. Head(s) \in In(s)
    BY <1>1 DEF In
  <2> QED
    BY <2>1, <2>2, <2>3 DEF In
<1>3. ASSUME Apart(s)
      PROVE  Apart(t) /\ NoneOf(In(t), {Head(s)})
  <2>1. ASSUME NEW i \in 1..Len(t), NEW j \in 1..Len(t), t[i].of = t[j].of
        PROVE  i = j
    <3>1. i + 1 \in 1..Len(s) /\ j + 1 \in 1..Len(s) /\ s[i + 1].of = s[j + 1].of
      BY <1>1, <2>1
    <3>2. i + 1 = j + 1
      BY <1>3, <3>1 DEF Apart
    <3> QED
      BY <3>2
  <2>2. ASSUME NEW i \in 1..Len(t)
        PROVE  t[i].of # Head(s).of
    <3>1. i + 1 \in 1..Len(s) /\ 1 \in 1..Len(s) /\ t[i] = s[i + 1] /\ i + 1 # 1
      BY <1>1
    <3> QED
      BY <1>1, <1>3, <3>1 DEF Apart
  <2> QED
    BY <2>1, <2>2 DEF Apart, NoneOf, In
<1> QED
  BY <1>1, <1>2, <1>3 DEF t

(* A list that grew keeps, behind its first k, what was there.               *)
LEMMA LaterAppend ==
    ASSUME NEW s \in Seq(Rec), NEW r \in Rec, NEW k \in 0..Len(s)
    PROVE  /\ SubSeq(s, k + 1, Len(s)) \in Seq(Rec)
           /\ SubSeq(Append(s, r), k + 1, Len(s) + 1) = Append(SubSeq(s, k + 1, Len(s)), r)
<1> DEFINE u == Append(s, r)
           a == SubSeq(u, k + 1, Len(s) + 1)
           b == SubSeq(s, k + 1, Len(s))
           c == Append(b, r)
<1>1. /\ u \in Seq(Rec) /\ Len(u) = Len(s) + 1 /\ Len(s) \in Nat
      /\ \A i \in 1..Len(s) : u[i] = s[i]
      /\ u[Len(s) + 1] = r
  OBVIOUS
<1> HIDE DEF u
<1>2. /\ b \in Seq(Rec) /\ Len(b) = Len(s) - k
      /\ \A i \in 1..(Len(s) - k) : b[i] = s[k + i]
  <2>1. \A i \in (k + 1)..Len(s) : s[i] \in Rec
    BY ElementOfSeq
  <2>2. /\ b \in Seq(Rec) /\ Len(b) = IF k + 1 <= Len(s) THEN Len(s) - (k + 1) + 1 ELSE 0
        /\ \A i \in 1..(Len(s) - (k + 1) + 1) : b[i] = s[(k + 1) + i - 1]
    BY <1>1, <2>1, SubSeqProperties
  <2> QED
    BY <1>1, <2>2
<1>3. /\ a \in Seq(Rec) /\ Len(a) = Len(s) + 1 - k
      /\ \A i \in 1..(Len(s) + 1 - k) : a[i] = u[k + i]
  <2>1. \A i \in (k + 1)..(Len(s) + 1) : u[i] \in Rec
    BY <1>1, ElementOfSeq
  <2>2. /\ a \in Seq(Rec) /\ Len(a) = IF k + 1 <= Len(s) + 1 THEN (Len(s) + 1) - (k + 1) + 1 ELSE 0
        /\ \A i \in 1..((Len(s) + 1) - (k + 1) + 1) : a[i] = u[(k + 1) + i - 1]
    BY <1>1, <2>1, SubSeqProperties
  <2> QED
    BY <1>1, <2>2
<1> HIDE DEF a, b
<1>4. /\ c \in Seq(Rec) /\ Len(c) = Len(b) + 1
      /\ \A i \in 1..Len(b) : c[i] = b[i]
      /\ c[Len(b) + 1] = r
  BY <1>2
<1> HIDE DEF c
<1>5. ASSUME NEW i \in 1..Len(a)
      PROVE  a[i] = c[i]
  <2>1. CASE i = Len(s) + 1 - k
    BY <1>1, <1>2, <1>3, <1>4, <2>1
  <2>2. CASE i # Len(s) + 1 - k
    <3>1. i \in 1..(Len(s) - k) /\ k + i \in 1..Len(s)
      BY <1>1, <1>3, <2>2
    <3> QED
      BY <1>1, <1>2, <1>3, <1>4, <3>1
  <2> QED
    BY <2>1, <2>2
<1>6. Len(a) = Len(c)
  BY <1>1, <1>2, <1>3, <1>4
<1>7. a = c
  BY <1>3, <1>4, <1>5, <1>6, SeqEqual
<1> QED
  BY <1>2, <1>7 DEF a, b, c, u

(* The records behind the copied part of the list, and all that wait: in the *)
(* rest of the copy, kept by the pass, behind it, or in the list.            *)
Later == SubSeq(pending, verifying.taken + 1, Len(pending))
Waits == IF verifying.on THEN In(verifying.todo) \cup In(verifying.still) \cup In(Later) ELSE In(pending)

(* Shapes of the lists and of the pass.                                      *)
FixShape ==
    /\ pending \in Seq(Rec)
    /\ verifying = [on |-> verifying.on, todo |-> verifying.todo, still |-> verifying.still,
                    taken |-> verifying.taken]
    /\ verifying.on \in BOOLEAN
    /\ verifying.todo \in Seq(Rec) /\ verifying.still \in Seq(Rec) /\ verifying.taken \in 0..Len(pending)

(* No action waits twice.                                                    *)
FixApart ==
    /\ verifying.on =>
          /\ Apart(verifying.todo) /\ Apart(verifying.still) /\ Apart(Later)
          /\ NoneOf(In(verifying.todo), In(verifying.still)) /\ NoneOf(In(verifying.todo), In(Later))
          /\ NoneOf(In(verifying.still), In(Later))
    /\ ~verifying.on => Apart(pending)

(* An action waits from its record on until its one verdict.                 *)
FixVerdicts ==
    /\ age \in [Actions -> Int] /\ verdict = [a \in Actions |-> verdict[a]]
    /\ \A a \in Actions : age[a] = -1 => verdict[a] = {}
    /\ \A a \in Actions : verdict[a] = {} \/ \E v : verdict[a] = {v}
    /\ \A a \in Actions : (\E r \in Waits : r.of = a) <=> (age[a] # -1 /\ verdict[a] = {})

(* HealthySince of a record is not before the last unhealthy sample.         *)
FixHealthy ==
    /\ bad \in [Actions -> Int]
    /\ \A a \in Actions : bad[a] <= age[a]
    /\ \A r \in Waits : r.since # -1 => bad[r.of] <= r.since
    /\ F!FixedStayedHealthy

FixInv == FixShape /\ FixApart /\ FixVerdicts /\ FixHealthy

(* The records behind the copied part are records.                           *)
LEMMA LaterShape ==
    ASSUME FixShape
    PROVE  Later \in Seq(Rec)
<1>1. CASE Actions = {}
  <2>1. \A i \in (verifying.taken + 1)..Len(pending) : pending[i] \in Rec
    BY ElementOfSeq DEF FixShape
  <2>2. Len(pending) \in Nat /\ verifying.taken + 1 \in Int
    BY LenProperties DEF FixShape
  <2> QED
    BY <2>1, <2>2, SubSeqProperties DEF Later
<1>2. CASE Actions # {}
  <2>1. PICK a : a \in Actions
    BY <1>2
  <2>2. [of |-> a, since |-> -1] \in Rec
    BY <2>1 DEF Rec
  <2> QED
    BY <2>2, LaterAppend DEF FixShape, Later
<1> QED
  BY <1>1, <1>2

(* All that waits is a record.                                               *)
LEMMA WaitsRecords ==
    ASSUME FixShape
    PROVE  Waits \subseteq Rec
<1>1. ASSUME NEW s \in Seq(Rec)
      PROVE  In(s) \subseteq Rec
  BY ElementOfSeq DEF In
<1> QED
  BY <1>1, LaterShape DEF FixShape, Waits

(* VerifyNext takes the first record out of the copy.                        *)
LEMMA RecordLeaves ==
    ASSUME FixShape, FixApart, verifying.on, verifying.todo # <<>>, pending' = pending, F!Leaves
    PROVE  /\ FixShape' /\ FixApart' /\ Head(verifying.todo) \in Rec
           /\ Waits = Waits' \cup {Head(verifying.todo)} /\ NoneOf(Waits', {Head(verifying.todo)})
<1> DEFINE T == verifying.todo
<1>1. verifying' = [on |-> verifying.on, todo |-> Tail(T), still |-> verifying.still, taken |-> verifying.taken]
  BY DEF FixShape, F!Leaves, F!Rest
<1>2. /\ verifying'.on = verifying.on /\ verifying'.todo = Tail(T) /\ verifying'.still = verifying.still
      /\ verifying'.taken = verifying.taken
  BY <1>1
<1>3. /\ Head(T) \in Rec /\ Tail(T) \in Seq(Rec) /\ In(T) = {Head(T)} \cup In(Tail(T))
      /\ Apart(Tail(T)) /\ NoneOf(In(Tail(T)), {Head(T)})
  BY InTail DEF FixShape, FixApart
<1>4. Later' = Later
  BY <1>2 DEF Later
<1>5. FixShape'
  BY <1>1, <1>2, <1>3 DEF FixShape
<1>6. FixApart'
  BY <1>2, <1>3, <1>4 DEF FixApart, NoneOf
<1>7. /\ Waits' = In(Tail(T)) \cup In(verifying.still) \cup In(Later)
      /\ Waits = In(T) \cup In(verifying.still) \cup In(Later)
  BY <1>2, <1>4 DEF Waits
<1>8. NoneOf(In(verifying.still), {Head(T)}) /\ NoneOf(In(Later), {Head(T)})
  BY <1>3 DEF FixApart, NoneOf
<1> QED
  BY <1>3, <1>5, <1>6, <1>7, <1>8 DEF NoneOf

(* Or keeps it, with another HealthySince.                                   *)
LEMMA RecordGoes ==
    ASSUME FixShape, FixApart, verifying.on, verifying.todo # <<>>, pending' = pending,
           NEW r \in Rec, r.of = Head(verifying.todo).of, F!Goes(r)
    PROVE  /\ FixShape' /\ FixApart' /\ Head(verifying.todo) \in Rec
           /\ \E W : /\ Waits = W \cup {Head(verifying.todo)} /\ Waits' = W \cup {r}
                     /\ NoneOf(W, {Head(verifying.todo)})
<1> DEFINE T == verifying.todo
<1>1. verifying' = [on |-> verifying.on, todo |-> Tail(T), still |-> Append(verifying.still, r),
                    taken |-> verifying.taken]
  BY DEF FixShape, F!Goes, F!Rest
<1>2. /\ verifying'.on = verifying.on /\ verifying'.todo = Tail(T)
      /\ verifying'.still = Append(verifying.still, r) /\ verifying'.taken = verifying.taken
  BY <1>1
<1>3. /\ Head(T) \in Rec /\ Tail(T) \in Seq(Rec) /\ In(T) = {Head(T)} \cup In(Tail(T))
      /\ Apart(Tail(T)) /\ NoneOf(In(Tail(T)), {Head(T)})
  BY InTail DEF FixShape, FixApart
<1>4. Later' = Later
  BY <1>2 DEF Later
<1>5. NoneOf(In(verifying.still), {Head(T)}) /\ NoneOf(In(Later), {Head(T)})
  BY <1>3 DEF FixApart, NoneOf
<1>6. /\ Append(verifying.still, r) \in Seq(Rec)
      /\ In(Append(verifying.still, r)) = In(verifying.still) \cup {r}
      /\ Apart(Append(verifying.still, r))
  <2>1. NoneOf(In(verifying.still), {r})
    BY <1>5 DEF NoneOf
  <2> QED
    BY <2>1, InAppend DEF FixShape, FixApart
<1>7. FixShape'
  BY <1>1, <1>2, <1>3, <1>6 DEF FixShape
<1>8. FixApart'
  <2>1. NoneOf(In(Tail(T)), In(verifying.still) \cup {r}) /\ NoneOf(In(Tail(T)), In(Later))
    BY <1>3 DEF FixApart, NoneOf
  <2>2. NoneOf(In(verifying.still) \cup {r}, In(Later))
    BY <1>5 DEF FixApart, NoneOf
  <2> QED
    BY <1>2, <1>3, <1>4, <1>6, <2>1, <2>2 DEF FixApart
<1> DEFINE W == In(Tail(T)) \cup In(verifying.still) \cup In(Later)
<1>9. /\ Waits' = In(Tail(T)) \cup (In(verifying.still) \cup {r}) \cup In(Later)
      /\ Waits = In(T) \cup In(verifying.still) \cup In(Later)
  BY <1>2, <1>4, <1>6 DEF Waits
<1>10. Waits = W \cup {Head(T)} /\ Waits' = W \cup {r} /\ NoneOf(W, {Head(T)})
  BY <1>3, <1>5, <1>9 DEF NoneOf
<1> QED
  BY <1>3, <1>7, <1>8, <1>10

(* A verdict on the action of the record that leaves is its only one.        *)
LEMMA VerdictGiven ==
    ASSUME FixInv, NEW rec \in Rec, NEW v, FixShape', Waits = Waits' \cup {rec}, NoneOf(Waits', {rec}),
           F!Decides(rec.of, v), age' = age
    PROVE  /\ FixVerdicts' /\ verdict[rec.of] = {} /\ verdict'[rec.of] = {<<v, age[rec.of]>>}
           /\ \A a \in Actions : a # rec.of => verdict'[a] = verdict[a]
<1>1. rec.of \in Actions /\ age[rec.of] # -1 /\ verdict[rec.of] = {}
  BY DEF FixInv, FixVerdicts, Rec
<1>2. /\ verdict' = [a \in Actions |-> verdict'[a]] /\ verdict'[rec.of] = {<<v, age[rec.of]>>}
      /\ \A a \in Actions : a # rec.of => verdict'[a] = verdict[a]
  BY <1>1 DEF FixInv, FixVerdicts, F!Decides
<1>3. ASSUME NEW a \in Actions
      PROVE  /\ age'[a] = -1 => verdict'[a] = {}
             /\ verdict'[a] = {} \/ \E w : verdict'[a] = {w}
             /\ (\E r \in Waits' : r.of = a) <=> (age'[a] # -1 /\ verdict'[a] = {})
  <2>1. CASE a = rec.of
    BY <1>1, <1>2, <2>1 DEF NoneOf
  <2>2. CASE a # rec.of
    <3>1. (\E r \in Waits' : r.of = a) <=> (\E r \in Waits : r.of = a)
      BY <2>2
    <3>2. verdict'[a] = verdict[a] /\ age'[a] = age[a]
      BY <1>2, <2>2
    <3>3. /\ age[a] = -1 => verdict[a] = {}
          /\ verdict[a] = {} \/ \E w : verdict[a] = {w}
          /\ (\E r \in Waits : r.of = a) <=> (age[a] # -1 /\ verdict[a] = {})
      BY DEF FixInv, FixVerdicts
    <3> QED
      BY <3>1, <3>2, <3>3
  <2> QED
    BY <2>1, <2>2
<1> QED
  BY <1>1, <1>2, <1>3 DEF FixInv, FixVerdicts

(* A step that keeps who waits keeps the verdicts.                           *)
LEMMA VerdictsStay ==
    ASSUME FixVerdicts, UNCHANGED <<age, verdict>>,
           \A a \in Actions : (\E r \in Waits' : r.of = a) <=> (\E r \in Waits : r.of = a)
    PROVE  FixVerdicts'
BY DEF FixVerdicts

(* An action is recorded: it waits, without a verdict.                       *)
LEMMA FixRecorded ==
    ASSUME FixInv, NEW a \in Actions, F!RecordAction(a)
    PROVE  FixInv'
<1> DEFINE r == [of |-> a, since |-> -1]
<1>1. /\ age[a] = -1 /\ age' = [age EXCEPT ![a] = 0] /\ pending' = Append(pending, r)
      /\ UNCHANGED <<verifying, verdict, bad>>
  BY DEF F!RecordAction, F!Record, F!Never
<1>2. r \in Rec /\ r.of = a /\ r.since = -1
  BY DEF Rec
<1> HIDE DEF r
<1>3. \A q \in Waits : q.of # a
  BY <1>1 DEF FixInv, FixVerdicts
<1>4. /\ Append(pending, r) \in Seq(Rec) /\ In(Append(pending, r)) = In(pending) \cup {r}
      /\ Len(Append(pending, r)) = Len(pending) + 1 /\ Len(pending) \in Nat
      /\ Apart(pending) /\ NoneOf(In(pending), {r}) => Apart(Append(pending, r))
  <2>1. pending \in Seq(Rec)
    BY DEF FixInv, FixShape
  <2>2. Len(Append(pending, r)) = Len(pending) + 1 /\ Len(pending) \in Nat
    BY <2>1, LenProperties
  <2> QED
    BY <1>2, <2>1, <2>2, InAppend
<1>5. FixShape'
  BY <1>1, <1>4 DEF FixInv, FixShape
<1>6. ASSUME verifying.on
      PROVE  FixApart' /\ Waits' = Waits \cup {r}
  <2>1. Later' = Append(Later, r) /\ Later \in Seq(Rec)
    BY <1>1, <1>2, <1>4, LaterAppend DEF FixInv, FixShape, Later
  <2>2. Waits = In(verifying.todo) \cup In(verifying.still) \cup In(Later)
    BY <1>6 DEF Waits
  <2>3. /\ NoneOf(In(Later), {r}) /\ NoneOf(In(verifying.todo), {r}) /\ NoneOf(In(verifying.still), {r})
    BY <1>2, <1>3, <2>2 DEF NoneOf
  <2>4. In(Later') = In(Later) \cup {r} /\ Apart(Later')
    BY <1>2, <1>6, <2>1, <2>3, InAppend DEF FixInv, FixApart
  <2>5. FixApart'
    <3>1. NoneOf(In(verifying.todo), In(Later')) /\ NoneOf(In(verifying.still), In(Later'))
      BY <1>6, <2>3, <2>4 DEF FixInv, FixApart, NoneOf
    <3> QED
      BY <1>1, <1>6, <2>4, <3>1 DEF FixInv, FixApart
  <2>6. Waits' = Waits \cup {r}
    BY <1>1, <1>6, <2>2, <2>4 DEF Waits
  <2> QED
    BY <2>5, <2>6
<1>7. ASSUME ~verifying.on
      PROVE  FixApart' /\ Waits' = Waits \cup {r}
  <2>1. Waits = In(pending)
    BY <1>7 DEF Waits
  <2>2. NoneOf(In(pending), {r})
    BY <1>2, <1>3, <2>1 DEF NoneOf
  <2>3. FixApart'
    BY <1>1, <1>4, <1>7, <2>2 DEF FixInv, FixApart
  <2>4. Waits' = Waits \cup {r}
    BY <1>1, <1>4, <1>7, <2>1 DEF Waits
  <2> QED
    BY <2>3, <2>4
<1>8. FixApart' /\ Waits' = Waits \cup {r}
  BY <1>6, <1>7
<1>9. FixVerdicts'
  <2>1. age' \in [Actions -> Int] /\ age'[a] = 0 /\ \A b \in Actions : b # a => age'[b] = age[b]
    BY <1>1 DEF FixInv, FixVerdicts
  <2>2. ASSUME NEW b \in Actions
        PROVE  /\ age'[b] = -1 => verdict'[b] = {}
               /\ verdict'[b] = {} \/ \E w : verdict'[b] = {w}
               /\ (\E q \in Waits' : q.of = b) <=> (age'[b] # -1 /\ verdict'[b] = {})
    <3>1. CASE b = a
      BY <1>1, <1>2, <1>8, <2>1, <3>1 DEF FixInv, FixVerdicts
    <3>2. CASE b # a
      <4>1. (\E q \in Waits' : q.of = b) <=> (\E q \in Waits : q.of = b)
        BY <1>2, <1>8, <3>2
      <4> QED
        BY <1>1, <2>1, <3>2, <4>1 DEF FixInv, FixVerdicts
    <3> QED
      BY <3>1, <3>2
  <2> QED
    BY <1>1, <2>1, <2>2 DEF FixInv, FixVerdicts
<1>10. FixHealthy'
  <2>1. ASSUME NEW b \in Actions
        PROVE  bad'[b] <= age'[b]
    BY <1>1 DEF FixInv, FixVerdicts, FixHealthy
  <2>2. ASSUME NEW q \in Waits', q.since # -1
        PROVE  bad'[q.of] <= q.since
    BY <1>1, <1>2, <1>8, <2>2 DEF FixInv, FixHealthy
  <2>3. F!FixedStayedHealthy'
    BY <1>1 DEF FixInv, FixHealthy, F!FixedStayedHealthy
  <2> QED
    BY <1>1, <2>1, <2>2, <2>3 DEF FixInv, FixHealthy
<1> QED
  BY <1>5, <1>8, <1>9, <1>10 DEF FixInv

(* The pass begins with a copy of the list.                                  *)
LEMMA FixPassStarts ==
    ASSUME FixInv, F!VerifyFixes
    PROVE  FixInv'
<1>1. /\ ~verifying.on /\ UNCHANGED <<age, pending, verdict, bad>>
      /\ verifying' = [on |-> TRUE, todo |-> pending, still |-> <<>>, taken |-> Len(pending)]
  BY DEF F!VerifyFixes
<1>2. /\ verifying'.on = TRUE /\ verifying'.todo = pending /\ verifying'.still = <<>>
      /\ verifying'.taken = Len(pending) /\ Len(pending) \in Nat
  BY <1>1, LenProperties DEF FixInv, FixShape
<1>3. Later' = <<>>
  <2>1. SubSeq(pending, Len(pending) + 1, Len(pending)) = <<>>
    BY <1>2, SubSeqEmpty
  <2> QED
    BY <1>1, <1>2, <2>1 DEF Later
<1>4. In(<<>>) = {} /\ Apart(<<>>) /\ <<>> \in Seq(Rec)
  BY InEmpty, EmptySeq
<1>5. Waits' = Waits
  BY <1>1, <1>2, <1>3, <1>4 DEF Waits
<1>6. FixShape'
  BY <1>1, <1>2, <1>4 DEF FixInv, FixShape
<1>7. FixApart'
  <2>1. \A Q : NoneOf(Q, {}) /\ NoneOf({}, Q)
    BY DEF NoneOf
  <2> QED
    BY <1>1, <1>2, <1>3, <1>4, <2>1 DEF FixInv, FixApart
<1>8. FixVerdicts'
  BY <1>1, <1>5, VerdictsStay DEF FixInv
<1>9. FixHealthy'
  BY <1>1, <1>5 DEF FixInv, FixHealthy, F!FixedStayedHealthy
<1> QED
  BY <1>6, <1>7, <1>8, <1>9 DEF FixInv

(* At its end the list is what the pass kept and what came since the copy.   *)
LEMMA FixPassEnds ==
    ASSUME FixInv, F!VerifyEnd
    PROVE  FixInv'
<1>1. /\ verifying.on /\ verifying.todo = <<>> /\ pending' = verifying.still \o Later
      /\ verifying' = F!NoPass /\ UNCHANGED <<age, verdict, bad>>
  BY DEF F!VerifyEnd, Later
<1>2. /\ verifying' = [on |-> FALSE, todo |-> <<>>, still |-> <<>>, taken |-> 0]
      /\ verifying'.on = FALSE /\ verifying'.todo = <<>> /\ verifying'.still = <<>> /\ verifying'.taken = 0
  BY <1>1 DEF F!NoPass
<1>3. /\ pending' \in Seq(Rec) /\ In(pending') = In(verifying.still) \cup In(Later) /\ Apart(pending')
  BY <1>1, InConcat, LaterShape DEF FixInv, FixShape, FixApart
<1>4. Waits' = Waits
  BY <1>1, <1>2, <1>3, InEmpty DEF Waits
<1>5. FixShape'
  <2>1. <<>> \in Seq(Rec) /\ Len(pending') \in Nat
    BY <1>3, EmptySeq, LenProperties
  <2> QED
    BY <1>2, <1>3, <2>1 DEF FixShape
<1>6. FixApart'
  BY <1>2, <1>3 DEF FixApart
<1>7. FixVerdicts'
  BY <1>1, <1>4, VerdictsStay DEF FixInv
<1>8. FixHealthy'
  BY <1>1, <1>4 DEF FixInv, FixHealthy, F!FixedStayedHealthy
<1> QED
  BY <1>5, <1>6, <1>7, <1>8 DEF FixInv

(* The next record is given up, too young, unhealthy, healthy for too short  *)
(* a time, or fixed.                                                         *)
LEMMA FixNext ==
    ASSUME TimesAreNumbers, FixInv, F!VerifyNext
    PROVE  FixInv'
<1> DEFINE rec == Head(verifying.todo)
           a == rec.of
<1>1. verifying.on /\ verifying.todo # <<>> /\ UNCHANGED <<age, pending>>
  BY DEF F!VerifyNext
<1>2. rec \in Rec /\ a \in Actions /\ rec.since \in Int /\ rec \in Waits /\ age[a] \in Int /\ bad[a] \in Int
  <2>1. rec \in Rec /\ rec \in In(verifying.todo)
    BY <1>1, InTail DEF FixInv, FixShape
  <2> QED
    BY <1>1, <2>1 DEF Rec, Waits, FixInv, FixVerdicts, FixHealthy
<1> HIDE DEF rec
<1>3. ASSUME F!Leaves, NEW v \in {"fixed", "not-fixed"}, F!Decides(a, v), bad' = bad,
             v = "fixed" => bad[a] = -1 \/ age[a] - bad[a] >= Stable
      PROVE  FixInv'
  <2>1. FixShape' /\ FixApart' /\ Waits = Waits' \cup {rec} /\ NoneOf(Waits', {rec})
    BY <1>1, <1>3, RecordLeaves DEF FixInv, rec
  <2>2. /\ FixVerdicts' /\ verdict'[a] = {<<v, age[a]>>}
        /\ \A b \in Actions : b # a => verdict'[b] = verdict[b]
    BY <1>1, <1>2, <1>3, <2>1, VerdictGiven
  <2>3. F!FixedStayedHealthy'
    <3> SUFFICES ASSUME NEW b \in Actions, NEW w \in verdict'[b], w[1] = "fixed"
                 PROVE  bad[b] = -1 \/ w[2] - bad[b] >= Stable
      BY <1>3 DEF F!FixedStayedHealthy, F!Never
    <3>1. CASE b = a
      <4>1. w = <<v, age[a]>> /\ w[1] = v /\ w[2] = age[a]
        BY <2>2, <3>1
      <4> QED
        BY <1>3, <3>1, <4>1
    <3>2. CASE b # a
      BY <2>2, <3>2 DEF FixInv, FixHealthy, F!FixedStayedHealthy, F!Never
    <3> QED
      BY <3>1, <3>2
  <2>4. FixHealthy'
    BY <1>1, <1>3, <2>1, <2>3 DEF FixInv, FixHealthy
  <2> QED
    BY <2>1, <2>2, <2>4 DEF FixInv
<1>4. ASSUME NEW r \in Rec, r.of = a, F!Goes(r), verdict' = verdict, bad' \in [Actions -> Int],
             \A b \in Actions : b # a => bad'[b] = bad[b], bad'[a] <= age[a],
             r.since # -1 => bad'[a] <= r.since
      PROVE  FixInv'
  <2>1. FixShape' /\ FixApart'
    BY <1>1, <1>4, RecordGoes DEF FixInv, rec
  <2>2. PICK W : Waits = W \cup {rec} /\ Waits' = W \cup {r} /\ NoneOf(W, {rec})
    BY <1>1, <1>4, RecordGoes DEF FixInv, rec
  <2>3. FixVerdicts'
    <3>1. ASSUME NEW b \in Actions
          PROVE  (\E q \in Waits' : q.of = b) <=> (\E q \in Waits : q.of = b)
      BY <1>4, <2>2
    <3> QED
      BY <1>1, <1>4, <3>1, VerdictsStay DEF FixInv
  <2>4. FixHealthy'
    <3>1. ASSUME NEW b \in Actions
          PROVE  bad'[b] <= age'[b]
      BY <1>1, <1>4 DEF FixInv, FixHealthy
    <3>2. ASSUME NEW q \in Waits', q.since # -1
          PROVE  bad'[q.of] <= q.since
      <4>1. CASE q = r
        BY <1>4, <3>2, <4>1
      <4>2. CASE q \in W
        <5>1. q \in Waits /\ q.of # a /\ q \in Rec
          BY <2>2, <4>2, WaitsRecords DEF FixInv, NoneOf
        <5>2. q.of \in Actions
          BY <5>1 DEF Rec
        <5> QED
          BY <1>4, <3>2, <5>1, <5>2 DEF FixInv, FixHealthy
      <4> QED
        BY <2>2, <4>1, <4>2
    <3>3. verdict[a] = {}
      BY <1>2 DEF FixInv, FixVerdicts
    <3>4. F!FixedStayedHealthy'
      <4> SUFFICES ASSUME NEW b \in Actions, NEW w \in verdict[b], w[1] = "fixed"
                   PROVE  bad'[b] = -1 \/ w[2] - bad'[b] >= Stable
        BY <1>4 DEF F!FixedStayedHealthy, F!Never
      <4>1. b # a /\ bad'[b] = bad[b]
        BY <1>4, <3>3
      <4> QED
        BY <4>1 DEF FixInv, FixHealthy, F!FixedStayedHealthy, F!Never
    <3> QED
      BY <1>4, <3>1, <3>2, <3>4 DEF FixHealthy
  <2> QED
    BY <2>1, <2>3, <2>4 DEF FixInv
<1>5. /\ bad \in [Actions -> Int] /\ bad[a] <= age[a] /\ (rec.since # -1 => bad[a] <= rec.since)
  BY <1>2 DEF FixInv, FixHealthy
<1>6. CASE age[a] > GiveUp /\ F!Leaves /\ F!Decides(a, "not-fixed") /\ bad' = bad
  BY <1>3, <1>6
<1>7. CASE F!Goes(rec) /\ verdict' = verdict /\ bad' = bad
  BY <1>2, <1>4, <1>5, <1>7
<1>8. ASSUME NEW healthy \in BOOLEAN,
             bad' = IF healthy THEN bad ELSE [bad EXCEPT ![a] = age[a]],
             IF healthy /\ age[a] - F!Since(rec, healthy) >= Stable
             THEN F!Decides(a, "fixed") /\ F!Leaves
             ELSE F!Goes([rec EXCEPT !.since = F!Since(rec, healthy)]) /\ verdict' = verdict
      PROVE  FixInv'
  <2> DEFINE since == F!Since(rec, healthy)
             r == [rec EXCEPT !.since = since]
  <2>1. since = IF ~healthy THEN -1 ELSE IF rec.since = -1 THEN age[a] ELSE rec.since
    BY DEF F!Since, F!Never
  <2>2. since \in Int
    BY <1>2, <2>1
  <2> HIDE DEF since
  <2>3. r \in Rec /\ r.of = a /\ r.since = since
    BY <1>2, <2>2 DEF Rec
  <2> HIDE DEF r
  <2>4. CASE healthy /\ age[a] - since >= Stable
    <3>1. F!Decides(a, "fixed") /\ F!Leaves /\ bad' = bad
      BY <1>8, <2>4 DEF since
    <3>2. bad[a] <= since
      BY <1>5, <2>1, <2>4
    <3>3. age[a] - bad[a] >= Stable
      BY <1>2, <2>2, <2>4, <3>2 DEF TimesAreNumbers
    <3> QED
      BY <1>3, <3>1, <3>3
  <2>5. CASE healthy /\ ~(age[a] - since >= Stable)
    <3>1. F!Goes(r) /\ verdict' = verdict /\ bad' = bad
      BY <1>8, <2>5 DEF since, r
    <3>2. bad[a] <= since
      BY <1>5, <2>1, <2>5
    <3> QED
      BY <1>4, <1>5, <2>3, <3>1, <3>2
  <2>6. CASE ~healthy
    <3>1. F!Goes(r) /\ verdict' = verdict /\ bad' = [bad EXCEPT ![a] = age[a]]
      BY <1>8, <2>6 DEF since, r
    <3>2. /\ bad' \in [Actions -> Int] /\ bad'[a] = age[a] /\ since = -1
          /\ \A b \in Actions : b # a => bad'[b] = bad[b]
      BY <1>2, <1>5, <2>1, <2>6, <3>1
    <3>3. bad'[a] <= age[a]
      BY <1>2, <3>2
    <3> QED
      BY <1>4, <2>3, <3>1, <3>2, <3>3
  <2> QED
    BY <1>8, <2>4, <2>5, <2>6
<1>9. F!Samples \subseteq BOOLEAN
  BY DEF F!Samples, F!isWorkloadHealthy
<1> QED
  BY <1>6, <1>7, <1>8, <1>9 DEF F!VerifyNext, rec

(* Time passes: an action that was recorded stays recorded.                  *)
LEMMA FixTick ==
    ASSUME TimesAreNumbers, FixInv, F!Tick
    PROVE  FixInv'
<1>1. /\ age' = [a \in Actions |-> IF age[a] \in 0..GiveUp THEN age[a] + 1 ELSE age[a]]
      /\ UNCHANGED <<pending, verifying, verdict, bad>>
  BY DEF F!Tick
<1>2. Waits' = Waits /\ Later' = Later
  BY <1>1 DEF Waits, Later
<1>3. age \in [Actions -> Int]
  BY DEF FixInv, FixVerdicts
<1>4. /\ age' \in [Actions -> Int]
      /\ \A a \in Actions : (age'[a] = -1 <=> age[a] = -1) /\ age'[a] >= age[a]
  BY <1>1, <1>3 DEF TimesAreNumbers
<1>5. FixShape' /\ FixApart'
  BY <1>1, <1>2 DEF FixInv, FixShape, FixApart
<1>6. FixVerdicts'
  BY <1>1, <1>2, <1>4 DEF FixInv, FixVerdicts
<1>7. FixHealthy'
  <2>1. ASSUME NEW a \in Actions
        PROVE  bad'[a] <= age'[a]
    <3>1. bad[a] <= age[a] /\ bad[a] \in Int /\ age[a] \in Int /\ age'[a] \in Int /\ age'[a] >= age[a]
      BY <1>3, <1>4 DEF FixInv, FixHealthy
    <3> QED
      BY <1>1, <3>1
  <2> QED
    BY <1>1, <1>2, <2>1 DEF FixInv, FixHealthy, F!FixedStayedHealthy
<1> QED
  BY <1>5, <1>6, <1>7 DEF FixInv

(* Every step of the tracker keeps FixInv.                                   *)
LEMMA FixStep ==
    ASSUME TimesAreNumbers, FixInv, [F!Next]_(F!vars)
    PROVE  FixInv'
<1>1. CASE UNCHANGED <<age, pending, verifying, verdict, bad>>
  <2>1. Waits' = Waits /\ Later' = Later
    BY <1>1 DEF Waits, Later
  <2>2. FixShape' /\ FixApart'
    BY <1>1, <2>1 DEF FixInv, FixShape, FixApart
  <2>3. FixVerdicts'
    BY <1>1, <2>1, VerdictsStay DEF FixInv
  <2>4. FixHealthy'
    BY <1>1, <2>1 DEF FixInv, FixHealthy, F!FixedStayedHealthy
  <2> QED
    BY <2>2, <2>3, <2>4 DEF FixInv
<1> QED
  BY <1>1, FixRecorded, FixPassStarts, FixNext, FixPassEnds, FixTick DEF F!Next, F!vars, F!LeaseChanges

(* A tracker that starts has recorded nothing.                               *)
LEMMA FixStart ==
    ASSUME F!Init
    PROVE  FixInv
<1>1. /\ age = [a \in Actions |-> -1] /\ bad = [a \in Actions |-> -1] /\ verdict = [a \in Actions |-> {}]
      /\ pending = <<>> /\ verifying = [on |-> FALSE, todo |-> <<>>, still |-> <<>>, taken |-> 0]
  BY DEF F!Init, F!Never, F!NoPass
<1>2. /\ verifying.on = FALSE /\ verifying.todo = <<>> /\ verifying.still = <<>> /\ verifying.taken = 0
      /\ <<>> \in Seq(Rec) /\ Len(<<>>) = 0
  BY <1>1, EmptySeq
<1>3. Waits = {}
  BY <1>1, <1>2, InEmpty DEF Waits
<1>4. FixShape
  BY <1>1, <1>2 DEF FixShape
<1>5. FixApart
  BY <1>1, <1>2, InEmpty DEF FixApart
<1>6. FixVerdicts
  BY <1>1, <1>3 DEF FixVerdicts
<1>7. FixHealthy
  BY <1>1, <1>3 DEF FixHealthy, F!FixedStayedHealthy
<1> QED
  BY <1>4, <1>5, <1>6, <1>7 DEF FixInv

(* The inductive invariant of fix verification holds in every behaviour.     *)
THEOREM FixInvariance == F!Spec => []FixInv
<1>0. TimesAreNumbers
  BY AgentAssumption
<1>1. F!Init => FixInv
  BY <1>0, FixStart
<1>2. FixInv /\ [F!Next]_(F!vars) => FixInv'
  BY <1>0, FixStep
<1> QED
  BY <1>1, <1>2, PTL DEF F!Spec

(* VerifyFixes (fixtracker.go): an action counts as a fix only when the      *)
(* workload was healthy in every sample of the last fixStableFor, for any    *)
(* actions and times.                                                        *)
THEOREM FixesStayedHealthy == F!Spec => []FixedStayedHealthy
<1>1. FixInv => FixedStayedHealthy
  BY DEF FixInv, FixHealthy, FixedStayedHealthy
<1> QED
  BY <1>1, FixInvariance, PTL

(* The size of a set, as FixTracker and the library's theorems have it.      *)
LEMMA SameCardinality ==
    ASSUME NEW Q
    PROVE  F!Cardinality(Q) = Cardinality(Q)
BY DEF F!Cardinality, Cardinality

(* The index of a record in the list of all that wait is the only one of its *)
(* action.                                                                   *)
LEMMA WaitsOnce ==
    ASSUME FixInv, NEW a \in Actions
    PROVE  F!Times(a) = IF \E r \in Waits : r.of = a THEN 1 ELSE 0
<1> DEFINE w == F!Waiting
<1>1. w \in Seq(Rec) /\ In(w) = Waits /\ Apart(w)
  <2>1. CASE verifying.on
    <3> DEFINE T == verifying.todo
               K == verifying.still
    <3>1. T \in Seq(Rec) /\ K \in Seq(Rec) /\ Later \in Seq(Rec)
      BY LaterShape DEF FixInv, FixShape
    <3>2. T \o K \in Seq(Rec) /\ In(T \o K) = In(T) \cup In(K) /\ Apart(T \o K)
      BY <2>1, <3>1, InConcat DEF FixInv, FixApart
    <3>3. NoneOf(In(T) \cup In(K), In(Later))
      BY <2>1 DEF FixInv, FixApart, NoneOf
    <3>4. /\ (T \o K) \o Later \in Seq(Rec) /\ In((T \o K) \o Later) = In(T) \cup In(K) \cup In(Later)
          /\ Apart((T \o K) \o Later)
      BY <2>1, <3>1, <3>2, <3>3, InConcat DEF FixInv, FixApart
    <3>5. w = (T \o K) \o Later
      BY <2>1 DEF F!Waiting, Later
    <3> QED
      BY <2>1, <3>4, <3>5 DEF Waits
  <2>2. CASE ~verifying.on
    BY <2>2 DEF FixInv, FixShape, FixApart, Waits, F!Waiting
  <2> QED
    BY <2>1, <2>2 DEF FixInv, FixShape
<1> DEFINE places == {i \in DOMAIN w : w[i].of = a}
<1>2. DOMAIN w = 1..Len(w)
  BY <1>1, LenProperties
<1>3. F!Times(a) = Cardinality(places)
  BY SameCardinality DEF F!Times
<1> HIDE DEF w
<1>4. CASE \E r \in Waits : r.of = a
  <2>1. PICK i \in 1..Len(w) : w[i].of = a
    BY <1>1, <1>4 DEF In
  <2>2. places = {i}
    BY <1>1, <1>2, <2>1 DEF Apart
  <2> QED
    BY <1>3, <1>4, <2>2, FS_Singleton
<1>5. CASE ~(\E r \in Waits : r.of = a)
  <2>1. places = {}
    BY <1>1, <1>2, <1>5 DEF In
  <2> QED
    BY <1>3, <1>5, <2>1, FS_EmptySet
<1> QED
  BY <1>4, <1>5

(* RecordAction and VerifyFixes (fixtracker.go): every action that was taken *)
(* waits once or has its one verdict, however many actions are recorded      *)
(* while passes run: none is lost and none is judged twice.                  *)
THEOREM ActionsKept == F!Spec => []ActionsConserved
<1>1. FixInv => ActionsConserved
  <2> SUFFICES ASSUME FixInv, NEW a \in Actions
               PROVE  F!Times(a) + Cardinality(verdict[a]) = IF age[a] = -1 THEN 0 ELSE 1
    BY SameCardinality DEF ActionsConserved, F!ActionsConserved, F!Never
  <2>1. F!Times(a) = IF \E r \in Waits : r.of = a THEN 1 ELSE 0
    BY WaitsOnce
  <2>2. /\ age[a] = -1 => verdict[a] = {}
        /\ verdict[a] = {} \/ \E v : verdict[a] = {v}
        /\ (\E r \in Waits : r.of = a) <=> (age[a] # -1 /\ verdict[a] = {})
    BY DEF FixInv, FixVerdicts
  <2>3. CASE verdict[a] = {}
    <3>1. Cardinality(verdict[a]) = 0
      BY <2>3, FS_EmptySet
    <3> QED
      BY <2>1, <2>2, <2>3, <3>1
  <2>4. CASE verdict[a] # {}
    <3>1. PICK v : verdict[a] = {v}
      BY <2>2, <2>4
    <3>2. Cardinality(verdict[a]) = 1
      BY <3>1, FS_Singleton
    <3> QED
      BY <2>1, <2>2, <2>4, <3>2
  <2> QED
    BY <2>3, <2>4
<1> QED
  BY <1>1, FixInvariance, PTL

(* A process that never leads starts no pass and decides nothing.            *)
NeverLeads == leads = FALSE /\ verifying = F!NoPass /\ \A a \in Actions : verdict[a] = {}

(* What a node agent did waits for its verdict, and has none.                *)
Unjudged == \A a \in Actions : age[a] # -1 => F!Times(a) = 1 /\ verdict[a] = {}

(* startWork (run.go) starts the leader loops only with the controller role: *)
(* a node agent, whose handlers record the actions, has no pass of           *)
(* VerifyFixes, and every action it took waits for ever.                     *)
THEOREM NodeAgentsNeverVerify ==
    ASSUME Controls = FALSE
    PROVE  F!Spec => []Unjudged
<1>1. F!Init => NeverLeads
  BY DEF F!Init, NeverLeads
<1>2. NeverLeads /\ [F!Next]_(F!vars) => NeverLeads'
  <2> SUFFICES ASSUME NeverLeads, [F!Next]_(F!vars) PROVE NeverLeads'
    OBVIOUS
  <2>1. ~verifying.on /\ ~leads
    BY DEF NeverLeads, F!NoPass
  <2>2. ~F!VerifyFixes /\ ~F!VerifyNext /\ ~F!VerifyEnd /\ ~F!LeaseChanges
    BY <2>1 DEF F!VerifyFixes, F!VerifyNext, F!VerifyEnd, F!LeaseChanges
  <2>3. UNCHANGED <<leads, verifying, verdict>>
    BY <2>2 DEF F!Next, F!RecordAction, F!Tick, F!vars
  <2> QED
    BY <2>3 DEF NeverLeads
<1>3. FixInv /\ NeverLeads => Unjudged
  <2> SUFFICES ASSUME FixInv, NeverLeads, NEW a \in Actions, age[a] # -1
               PROVE  F!Times(a) = 1 /\ verdict[a] = {}
    BY DEF Unjudged
  <2>1. verdict[a] = {}
    BY DEF NeverLeads
  <2>2. \E r \in Waits : r.of = a
    BY <2>1 DEF FixInv, FixVerdicts
  <2> QED
    BY <2>1, <2>2, WaitsOnce
<1> QED
  BY <1>1, <1>2, <1>3, FixInvariance, PTL DEF F!Spec

=================================================================================
