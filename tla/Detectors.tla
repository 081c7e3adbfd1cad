------------------------------- MODULE Detectors -------------------------------
(***************************************************************************)
(* The checks of Checks in the leader loops (run.go), and what becomes of   *)
(* their findings in report (findings.go).  Init chooses a check, and one   *)
(* deduplication key of its findings to follow: keys do not touch each      *)
(* other.  The object that the check looks at changes as it likes.  Times   *)
(* are what is left of a window, in ticks; a tick holds one pass.           *)
(***************************************************************************)
EXTENDS Checks

CONSTANTS
    Observed,         \* Observed[c]: the sets of findings that the check c can make of an object
    TTL, Hour, Day    \* the dedup windows, in ticks

VARIABLES
    check,     \* the check
    sights,    \* Observed[check]
    key,       \* the reason and the subject that are followed
    obs,       \* what the check would find now
    lead,      \* the process leads
    ran,       \* the check ran in this tick
    own,       \* what is left of the check's own window for the key
    reported,  \* what is left of report's
    told,      \* what the last pass told: posted, and paged when critical
    quiet      \* history: ticks for which the check found it and told nothing

vars == <<check, sights, key, obs, lead, ran, own, reported, told, quiet>>

KeyOf(f) == <<f.reason, f.subject>>

(* Windows last.  A key stands for one finding of an object, and a check     *)
(* gives all its findings with a key the same window.                        *)
ASSUME DetectorsAssumption ==
    /\ {TTL, Hour, Day} \subseteq Nat \ {0}
    /\ \A c \in DOMAIN Observed :
          LET findings == UNION Observed[c]
          IN  /\ \A f \in findings : f.severity \in {"info", "warning", "critical"}
              /\ \A f \in findings : f.window \in {"none", "hour", "day"}
              /\ \A f, g \in findings : KeyOf(f) = KeyOf(g) => f.window = g.window
              /\ \A o \in Observed[c] : \A f, g \in o : KeyOf(f) = KeyOf(g) => f = g

Findable == UNION sights
Followed(o) == {f \in o : KeyOf(f) = key}

Window(f) == [none |-> TTL, hour |-> Hour, day |-> Day][f.window]

(* The severities of what is followed: one that gets worse is news.          *)
Severities == {"info", "warning", "critical"}
MaxQuiet == Day + TTL     \* bound: longer than what is followed may be withheld
Silence == [Severities -> 0..MaxQuiet]
Heard == [s \in Severities |-> 0]

(* Shapes of the windows and of what is followed.                            *)
TypeOK ==
    /\ key \in {KeyOf(f) : f \in Findable} /\ obs \in sights /\ told \subseteq Findable
    /\ lead \in BOOLEAN /\ ran \in BOOLEAN
    /\ own \in 0..Day /\ reported \in 0..TTL
    /\ quiet \in Silence

Init ==
    /\ check \in DOMAIN Observed /\ sights = Observed[check]
    /\ key \in {KeyOf(f) : f \in Findable} /\ obs \in sights
    /\ lead = TRUE /\ ran = FALSE /\ own = 0 /\ reported = 0
    /\ told = {} /\ quiet = Heard

(* CheckFor: TRUE, and the window begins, or FALSE, and it stays as it is.   *)
CheckForSliding(left, window) == [ok |-> left = 0, left |-> window]
CheckFor(left, window) ==
    IF left = 0 THEN [ok |-> TRUE, left |-> window] ELSE [ok |-> FALSE, left |-> left]

(* The check's own window, then report's.                                    *)
Report(f) ==
    LET mine == IF f.window = "none" THEN [ok |-> TRUE, left |-> own] ELSE CheckFor(own, Window(f))
        rest == IF mine.ok THEN CheckFor(reported, TTL) ELSE [ok |-> FALSE, left |-> reported]
    IN  [tells |-> rest.ok, own |-> mine.left, reported |-> rest.left]

Told(s) == [quiet EXCEPT ![s] = 0]

(* The check runs, in its group of the leader's loop.  One object gives at   *)
(* most one finding with this key.                                           *)
Pass ==
    /\ lead /\ ~ran /\ ran' = TRUE
    /\ \/ Followed(obs) = {} /\ told' = {} /\ UNCHANGED <<own, reported, quiet>>
       \/ \E f \in Followed(obs) :
             LET r == Report(f)
             IN  /\ own' = r.own /\ reported' = r.reported
                 /\ told' = IF r.tells THEN {f} ELSE {}
                 /\ quiet' = IF r.tells THEN Told(f.severity) ELSE quiet
    /\ UNCHANGED <<check, sights, key, obs, lead>>

(* A list or a query fails: it is counted, and nothing is found.             *)
PassFails ==
    /\ lead /\ ~ran /\ ran' = TRUE /\ told' = {}
    /\ quiet' = Heard
    /\ UNCHANGED <<check, sights, key, obs, lead, own, reported>>

(* Another pod of the workload, with the same key, is told of.               *)
OtherPodTold ==
    /\ key[2] = "workload" /\ lead
    /\ CheckFor(reported, TTL).ok /\ reported' = TTL
    /\ quiet' = Heard
    /\ UNCHANGED <<check, sights, key, obs, lead, ran, own, told>>

(* The object changes, and with it what the check will find.                 *)
Changes ==
    /\ \E o \in sights :
          /\ obs' = o
          /\ quiet' = [s \in Severities |-> IF \E f \in Followed(o) : f.severity = s THEN quiet[s] ELSE 0]
    /\ UNCHANGED <<check, sights, key, lead, ran, own, reported, told>>

Less(n) == IF n > 0 THEN n - 1 ELSE 0

(* Time passes; expired keys are swept.  Without a pass nothing is expected. *)
Tick ==
    /\ ran \/ ~lead
    /\ ran' = FALSE /\ own' = Less(own) /\ reported' = Less(reported) /\ told' = {}
    /\ quiet' = [s \in Severities |->
                   IF ran /\ (\E f \in Followed(obs) : f.severity = s) /\ quiet[s] < MaxQuiet THEN quiet[s] + 1 ELSE 0]
    /\ UNCHANGED <<check, sights, key, obs, lead>>

(* The lease is lost or won; the windows go on.                              *)
LeaseMoves ==
    /\ lead' = ~lead /\ quiet' = Heard
    /\ UNCHANGED <<check, sights, key, obs, ran, own, reported, told>>

(* A new process remembers nothing.                                          *)
Restart ==
    /\ own' = 0 /\ reported' = 0 /\ told' = {} /\ lead' = FALSE /\ ran' = FALSE /\ quiet' = Heard
    /\ UNCHANGED <<check, sights, key, obs>>

Next == Pass \/ PassFails \/ OtherPodTold \/ Changes \/ Tick \/ LeaseMoves \/ Restart

Spec == Init /\ [][Next]_vars

-----------------------------------------------------------------------------
(* Properties. *)

(* How long what is followed may be withheld: for report's window, or for    *)
(* the check's own one and, as that begins also when report withholds the    *)
(* finding, for almost one of report's before it.                            *)
Withheld(f) == IF f.window = "none" THEN TTL ELSE Window(f) + TTL - 1

(* A problem that the check finds at every pass is told, at its severity and *)
(* so paged when it is critical, within its windows, whatever was told of it *)
(* before, of another pod of the workload, and for a lesser severity.        *)
NeverSilent ==
    \A f \in Followed(obs) : quiet[f.severity] <= Withheld(f)
=================================================================================
