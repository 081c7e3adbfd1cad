-------------------------------- MODULE Reloader --------------------------------
(***************************************************************************)
(* Config reload (internal/kube/reload.go): when a ConfigMap or Secret     *)
(* changes, the leading controller restarts the workloads that use it, one *)
(* at a time, by writing the version into a pod template annotation.       *)
(* Every controller watches the objects and debounces their changes; a     *)
(* change that is due becomes a wave on the leader and is dropped by the   *)
(* others.                                                                 *)
(*                                                                         *)
(* An object's data is one value, and its hash is that value: Values       *)
(* stand for what a workload's used keys may hold.  A controller that lost *)
(* the lease leads again only after a restart (see Leadership).            *)
(***************************************************************************)
EXTENDS Naturals, Sequences, SequencesExt

CONSTANTS
    Controllers,
    Objects,        \* ConfigMaps and Secrets in watched namespaces
    Values,         \* what an object may hold
    Workloads,
    Order,          \* the workloads in the order of their names
    KindOf,         \* KindOf[wl]: Deployment, StatefulSet or CronJob
    Reloads,        \* Reloads[wl]: the objects for which shouldReload holds
    MaxEdits,       \* bound: changes of the objects
    MaxEvents,      \* bound: changes, and handovers and failed lists, which count twice
    MaxHandovers,   \* bound: losses of the lease
    MaxStalls,      \* bound: rollouts that do not become healthy
    MaxListErrors   \* bound: ticks in which listing a kind of workload fails

NoOne      == "no one"
NoVersion  == "no version"
NoWorkload == "no workload"

(* A DaemonSet is verified like a StatefulSet, an Argo Rollout by its own    *)
(* verdict, with the same answers.                                           *)
Kinds == {"Deployment", "StatefulSet", "CronJob"}

ASSUME ReloaderAssumption ==
    /\ NoOne \notin Controllers
    /\ NoVersion \notin Values
    /\ NoWorkload \notin Workloads
    /\ Order \in Seq(Workloads)
    /\ Workloads \subseteq ToSet(Order)
    /\ KindOf \in [Workloads -> Kinds]
    /\ Reloads \in [Workloads -> SUBSET Objects]
    /\ MaxEdits \in Nat /\ MaxEvents \in Nat /\ MaxHandovers \in Nat
    /\ MaxStalls \in Nat /\ MaxListErrors \in Nat

VARIABLES
    value,      \* value[o]: the data in the API server
    leader,     \* the controller that leads, or NoOne
    ousted,     \* controllers that lost the lease
    seen,       \* seen[c][o]: the informer's copy
    pending,    \* pending[c][o]: the change in its debounce window, if any
    waves,      \* waves[c]: Reloader.waves
    blocked,    \* blocked[c]: <<workload, version>> that stalled once
    turn,       \* turn[c]: the waves that the tick in progress still advances
    tmpl,       \* tmpl[wl][o]: the reload annotation of the pod template
    prev,       \* prev[wl]: the annotations of its previous revision
    rollout,    \* rollout[wl]: where its last restart is
    last,       \* last[c]: the last outcome that c recorded
    served,     \* history: served[o], the data of o that a leader last took up, and
                \* whether its wave has every workload that uses o
    stalled,    \* history: <<workload, version>> that did not become healthy
    edits, handovers, stalls, listErrors

kube     == <<tmpl, prev, rollout>>
counters == <<edits, handovers, stalls, listErrors>>
WithinBound(n) == edits + 2 * (handovers + listErrors) + n <= MaxEvents
vars     == <<value, leader, ousted, seen, pending, waves, blocked, turn, kube,
              last, served, stalled, counters>>

(* A wave: one change and the workloads it reloads.                          *)
Wave == [obj : Objects, data : Values, todo : Seq(Workloads),
         current : Workloads \cup {NoWorkload}, done : BOOLEAN]

Change == [data : Values, due : BOOLEAN]

Results == {"none", "up to date", "blocked", "withheld", "failed", "restarted",
            "healthy", "skipped"}

(* The shape of every variable. *)
TypeOK ==
    /\ value \in [Objects -> Values]
    /\ leader \in Controllers \cup {NoOne}
    /\ ousted \subseteq Controllers
    /\ seen \in [Controllers -> [Objects -> Values]]
    /\ \A c \in Controllers, o \in Objects :
          pending[c][o] = {} \/ \E p \in Change : pending[c][o] = {p}
    /\ waves \in [Controllers -> Seq(Wave)]
    /\ blocked \in [Controllers -> SUBSET (Workloads \X Values)]
    /\ turn \in [Controllers -> Seq(Nat)]
    /\ tmpl \in [Workloads -> [Objects -> Values \cup {NoVersion}]]
    /\ prev \in [Workloads -> [Objects -> Values \cup {NoVersion}]]
    /\ rollout \in [Workloads -> {"healthy", "rolling", "stuck"}]
    /\ last \in [Controllers -> [wl : Workloads \cup {NoWorkload}, obj : Objects,
                                 data : Values, result : Results]]
    /\ served \in [Objects -> [data : Values, complete : BOOLEAN]]
    /\ stalled \subseteq Workloads \X Values

Init ==
    /\ \E v \in Values :
          /\ value = [o \in Objects |-> v]
          /\ seen = [c \in Controllers |-> value]
          /\ served = [o \in Objects |-> [data |-> v, complete |-> TRUE]]
          /\ \E o \in Objects :
                last = [c \in Controllers |->
                          [wl |-> NoWorkload, obj |-> o, data |-> v, result |-> "none"]]
    /\ leader \in Controllers
    /\ ousted = {}
    /\ pending = [c \in Controllers |-> [o \in Objects |-> {}]]
    /\ waves = [c \in Controllers |-> <<>>]
    /\ blocked = [c \in Controllers |-> {}]
    /\ turn = [c \in Controllers |-> <<>>]
    /\ tmpl = [wl \in Workloads |-> [o \in Objects |-> NoVersion]]
    /\ prev = tmpl
    /\ rollout = [wl \in Workloads |-> "healthy"]
    /\ stalled = {}
    /\ edits = 0 /\ handovers = 0 /\ stalls = 0 /\ listErrors = 0

--------------------------------------------------------------------------------
(* Changes and their debounce. *)

(* Somebody changes an object. *)
Edit(o) ==
    /\ edits < MaxEdits /\ WithinBound(1)
    /\ \E v \in Values \ {value[o]} : value' = [value EXCEPT ![o] = v]
    /\ edits' = edits + 1
    /\ UNCHANGED <<leader, ousted, seen, pending, waves, blocked, turn, kube, last,
                   served, stalled, handovers, stalls, listErrors>>

KeepFirst(c, o) ==
    IF pending[c][o] = {} THEN {[data |-> value[o], due |-> FALSE]} ELSE pending[c][o]

(* Another change while one is waiting replaces its data and starts the     *)
(* window again.                                                            *)
Queued(c, o) == {[data |-> value[o], due |-> FALSE]}

(* The informer sees the change: queueChange. *)
QueueChange(c, o) ==
    /\ seen[c][o] # value[o]
    /\ seen' = [seen EXCEPT ![c][o] = value[o]]
    /\ pending' = [pending EXCEPT ![c][o] = Queued(c, o)]
    /\ UNCHANGED <<value, leader, ousted, waves, blocked, turn, kube, last, served,
                   stalled, counters>>

(* The debounce window ends. *)
Debounced(c, o) ==
    /\ \E p \in pending[c][o] :
          /\ ~p.due
          /\ pending' = [pending EXCEPT ![c][o] = {[p EXCEPT !.due = TRUE]}]
    /\ UNCHANGED <<value, leader, ousted, seen, waves, blocked, turn, kube, last,
                   served, stalled, counters>>

--------------------------------------------------------------------------------
(* reloadTick *)

Due(c) == {o \in Objects : \E p \in pending[c][o] : p.due}

DataOf(c, o) == (CHOOSE p \in pending[c][o] : TRUE).data

(* affectedWorkloads: sorted by name; a kind that cannot be listed is left   *)
(* out (reloadWorkloads).                                                    *)
Affected(o, unlisted) ==
    SelectSeq(Order, LAMBDA wl : o \in Reloads[wl] /\ KindOf[wl] \notin unlisted)

(* startWave *)
NewWave(c, o, unlisted) ==
    [obj |-> o, data |-> DataOf(c, o), todo |-> Affected(o, unlisted),
     current |-> NoWorkload, done |-> FALSE]

(* The waves of the due changes ds; none for one that no workload uses. *)
StartWaves(c, ds, unlisted) ==
    SelectSeq([i \in 1..Len(ds) |-> NewWave(c, ds[i], unlisted)],
              LAMBDA w : w.todo # <<>>)

(* Every workload that uses the object is in its wave. *)
AllListed(o, unlisted) ==
    \A wl \in Workloads : o \in Reloads[wl] => KindOf[wl] \notin unlisted

Indices(ws) == [i \in 1..Len(ws) |-> i]

(* The kinds whose List fails in this tick. *)
ListErrors(unlisted) ==
    IF unlisted = {} THEN UNCHANGED listErrors
    ELSE listErrors < MaxListErrors /\ WithinBound(2) /\ listErrors' = listErrors + 1

(* A tick begins: due changes are taken, by every controller; the leader    *)
(* starts their waves, and will advance each wave once.                     *)
Tick(c) ==
    /\ turn[c] = <<>> /\ Due(c) # {}
    /\ pending' = [pending EXCEPT ![c] =
                      [o \in Objects |-> IF o \in Due(c) THEN {} ELSE @[o]]]
    /\ \/ /\ leader = c
          /\ \E ds \in SetToSeqs(Due(c)), unlisted \in SUBSET Kinds :
                LET ws == waves[c] \o StartWaves(c, ds, unlisted)
                IN  /\ ListErrors(unlisted)
                    /\ waves' = [waves EXCEPT ![c] = ws]
                    /\ turn' = [turn EXCEPT ![c] = Indices(ws)]
                    /\ served' = [o \in Objects |->
                          IF o \in Due(c)
                          THEN [data |-> DataOf(c, o), complete |-> AllListed(o, unlisted)]
                          ELSE served[o]]
       \/ leader # c /\ UNCHANGED <<waves, turn, served, listErrors>>
    /\ UNCHANGED <<value, leader, ousted, seen, blocked, kube, last, stalled, edits,
                   handovers, stalls>>

(* A tick with nothing due. *)
QuietTick(c) ==
    /\ turn[c] = <<>> /\ Due(c) = {}
    /\ leader = c /\ waves[c] # <<>>
    /\ turn' = [turn EXCEPT ![c] = Indices(waves[c])]
    /\ UNCHANGED <<value, leader, ousted, seen, pending, waves, blocked, kube, last,
                   served, stalled, counters>>

--------------------------------------------------------------------------------
(* advanceWave, for the wave whose turn it is. *)

InTurn(c) == turn[c] # <<>>

Turn(c) == waves[c][Head(turn[c])]

(* The wave becomes w; with over, the tick goes on to the next wave, and    *)
(* after the last one the waves that are done are removed.                  *)
Advance(c, w, over) ==
    LET ws   == [waves[c] EXCEPT ![Head(turn[c])] = w]
        ends == over /\ Len(turn[c]) = 1
    IN  /\ waves' = [waves EXCEPT ![c] = IF ends THEN SelectSeq(ws, LAMBDA x : ~x.done)
                                        ELSE ws]
        /\ turn' = IF over THEN [turn EXCEPT ![c] = Tail(@)] ELSE turn

Record(c, wl, result) ==
    last' = [last EXCEPT ![c] = [wl |-> wl, obj |-> Turn(c).obj, data |-> Turn(c).data,
                                 result |-> result]]

Unmoved == UNCHANGED <<value, leader, ousted, seen, pending, served, counters>>

(* verifyReload says that it is not done yet: it is rolling out, or could    *)
(* not be read.                                                              *)
StillRolling(c) ==
    /\ InTurn(c) /\ Turn(c).current # NoWorkload
    /\ Advance(c, Turn(c), TRUE)
    /\ UNCHANGED <<blocked, kube, last, stalled>> /\ Unmoved

VerifiedHealthy(c) ==
    /\ InTurn(c) /\ Turn(c).current # NoWorkload
    /\ rollout[Turn(c).current] = "healthy"
    /\ Advance(c, [Turn(c) EXCEPT !.current = NoWorkload], FALSE)
    /\ Record(c, Turn(c).current, "healthy")
    /\ UNCHANGED <<blocked, kube, stalled>> /\ Unmoved

BlockNothing(c, wl, v) == blocked[c]

Block(c, wl, v) == blocked[c] \cup {<<wl, v>>}

LeftInFlight(w) == [w EXCEPT !.todo = <<>>]

(* The wave is over, the rest of it skipped. *)
Stopped(w) == [w EXCEPT !.todo = <<>>, !.current = NoWorkload, !.done = TRUE]

FailWave(c) ==
    LET w == Turn(c)
    IN  /\ blocked' = [blocked EXCEPT ![c] = Block(c, w.current, w.data)]
        /\ stalled' = stalled \cup {<<w.current, w.data>>}
        /\ Advance(c, Stopped(w), TRUE)
        /\ IF w.todo = <<>> THEN Record(c, w.current, "failed")
           ELSE Record(c, Last(w.todo), "skipped")
        /\ UNCHANGED kube /\ Unmoved

(* A Deployment passed its progress deadline, or anything else is not        *)
(* healthy after reloadVerifyTimeout, which may end at any time.  For a       *)
(* Deployment that can be read the timeout is not asked: one that is paused,  *)
(* and so neither stuck nor healthy, stays in its wave.                       *)
VerifiedFailed(c) ==
    /\ InTurn(c) /\ Turn(c).current # NoWorkload
    /\ LET wl == Turn(c).current
       IN  \/ rollout[wl] = "stuck"
           \/ rollout[wl] = "rolling" /\ KindOf[wl] # "Deployment"
    /\ FailWave(c)

(* It still could not be read after reloadVerifyTimeout, healthy or not. *)
NeverRead(c) ==
    /\ InTurn(c) /\ Turn(c).current # NoWorkload
    /\ FailWave(c)

IsBlocked(c, wl) == <<wl, Turn(c).data>> \in blocked[c]

UpToDate(c, wl) == tmpl[wl][Turn(c).obj] = Turn(c).data

(* restartForReload of the next workload, when nothing is to be applied: the *)
(* template cannot be read, or the version is blocked, or already there.     *)
NotRestarted(c) ==
    /\ InTurn(c) /\ Turn(c).current = NoWorkload /\ Turn(c).todo # <<>>
    /\ LET wl == Head(Turn(c).todo)
       IN  /\ \/ Record(c, wl, "failed")
              \/ IsBlocked(c, wl) /\ Record(c, wl, "blocked")
              \/ ~IsBlocked(c, wl) /\ UpToDate(c, wl) /\ Record(c, wl, "up to date")
           /\ Advance(c, [Turn(c) EXCEPT !.todo = Tail(@)], FALSE)
    /\ UNCHANGED <<blocked, kube, stalled>> /\ Unmoved

MayRestart(c, wl) == ~IsBlocked(c, wl) /\ ~UpToDate(c, wl)

(* The gate holds the restart back, or the patch fails. *)
NotApplied(c) ==
    /\ InTurn(c) /\ Turn(c).current = NoWorkload /\ Turn(c).todo # <<>>
    /\ LET wl == Head(Turn(c).todo)
       IN  /\ MayRestart(c, wl)
           /\ Record(c, wl, "withheld") \/ Record(c, wl, "failed")
           /\ Advance(c, [Turn(c) EXCEPT !.todo = Tail(@)], FALSE)
    /\ UNCHANGED <<blocked, kube, stalled>> /\ Unmoved

(* The patch is applied.  The wave waits for it, unless it is a CronJob,     *)
(* whose next run uses the new template.                                     *)
Restarted(c) ==
    /\ InTurn(c) /\ Turn(c).current = NoWorkload /\ Turn(c).todo # <<>>
    /\ LET w  == Turn(c)
           wl == Head(w.todo)
           waits == KindOf[wl] # "CronJob"
       IN  /\ MayRestart(c, wl)
           /\ tmpl' = [tmpl EXCEPT ![wl][w.obj] = w.data]
           /\ prev' = [prev EXCEPT ![wl] = tmpl[wl]]
           /\ rollout' = [rollout EXCEPT ![wl] = IF waits THEN "rolling" ELSE "healthy"]
           /\ Record(c, wl, "restarted")
           /\ Advance(c, [w EXCEPT !.todo = Tail(@),
                                   !.current = IF waits THEN wl ELSE NoWorkload], waits)
    /\ UNCHANGED <<blocked, stalled>> /\ Unmoved

FinishWave(c) ==
    /\ InTurn(c) /\ Turn(c).current = NoWorkload /\ Turn(c).todo = <<>>
    /\ Advance(c, [Turn(c) EXCEPT !.done = TRUE], TRUE)
    /\ UNCHANGED <<blocked, kube, last, stalled>> /\ Unmoved

--------------------------------------------------------------------------------
(* The workloads and the leader. *)

(* The pods of the new template start. *)
RolloutHealthy(wl) ==
    /\ rollout[wl] = "rolling"
    /\ rollout' = [rollout EXCEPT ![wl] = "healthy"]
    /\ UNCHANGED <<value, leader, ousted, seen, pending, waves, blocked, turn, tmpl,
                   prev, last, served, stalled, counters>>

RolloutStuck(wl) ==
    /\ rollout[wl] = "rolling" /\ stalls < MaxStalls
    /\ rollout' = [rollout EXCEPT ![wl] = "stuck"]
    /\ stalls' = stalls + 1
    /\ UNCHANGED <<value, leader, ousted, seen, pending, waves, blocked, turn, tmpl,
                   prev, last, served, stalled, edits, handovers, listErrors>>

(* CheckStuckRollouts rolls a stuck Deployment back. *)
RolledBack(wl) ==
    /\ rollout[wl] = "stuck" /\ KindOf[wl] = "Deployment"
    /\ tmpl' = [tmpl EXCEPT ![wl] = prev[wl]]
    /\ prev' = [prev EXCEPT ![wl] = tmpl[wl]]
    /\ rollout' = [rollout EXCEPT ![wl] = "rolling"]
    /\ UNCHANGED <<value, leader, ousted, seen, pending, waves, blocked, turn,
                   last, served, stalled, counters>>

(* The leader loses the lease; a standby acquires it. *)
LoseLease ==
    /\ leader # NoOne /\ handovers < MaxHandovers /\ WithinBound(2)
    /\ leader' = NoOne
    /\ ousted' = ousted \cup {leader}
    /\ handovers' = handovers + 1
    /\ UNCHANGED <<value, seen, pending, waves, blocked, turn, kube, last, served,
                   stalled, edits, stalls, listErrors>>

AcquireLease(c) ==
    /\ leader = NoOne /\ c \notin ousted
    /\ leader' = c
    /\ UNCHANGED <<value, ousted, seen, pending, waves, blocked, turn, kube, last,
                   served, stalled, counters>>

--------------------------------------------------------------------------------
AdvanceWave(c) ==
    \/ StillRolling(c) \/ VerifiedHealthy(c) \/ VerifiedFailed(c) \/ NeverRead(c)
    \/ NotRestarted(c) \/ NotApplied(c) \/ Restarted(c) \/ FinishWave(c)

ReloadTick(c) == Tick(c) \/ QuietTick(c) \/ AdvanceWave(c)

Next ==
    \/ \E o \in Objects : Edit(o)
    \/ \E c \in Controllers :
          \/ \E o \in Objects : QueueChange(c, o) \/ Debounced(c, o)
          \/ ReloadTick(c) \/ AcquireLease(c)
    \/ \E wl \in Workloads : RolloutHealthy(wl) \/ RolloutStuck(wl) \/ RolledBack(wl)
    \/ LoseLease

Spec == Init /\ [][Next]_vars

(* Informers deliver, debounce windows end, the ticker fires every second,  *)
(* a standby acquires the lease, and a verification that is repeated every   *)
(* second does not for ever fail to read a workload whose rollout has ended  *)
(* or is past reloadVerifyTimeout.  Nothing is assumed of the rollouts.      *)
Fairness ==
    \A c \in Controllers :
        /\ \A o \in Objects : WF_vars(QueueChange(c, o)) /\ WF_vars(Debounced(c, o))
        /\ WF_vars(ReloadTick(c)) /\ WF_vars(AcquireLease(c))
        /\ SF_vars(VerifiedHealthy(c) \/ VerifiedFailed(c))

FairSpec == Spec /\ Fairness

--------------------------------------------------------------------------------
(* Properties. *)

(* While one controller leads, a version that stalled for a workload once is *)
(* not applied to it again: what stalled is in the leader's memory.          *)
NeverReapplied ==
    [][handovers = 0 => \A c \in Controllers, wl \in Workloads, v \in Values :
          <<wl, v>> \in stalled /\ last'[c] # last[c] =>
              ~(last'[c].wl = wl /\ last'[c].data = v /\ last'[c].result = "restarted")]_vars

Waiting(o) == \E c \in Controllers : seen[c][o] # value[o] \/ pending[c][o] # {}

(* A change is never lost: once no controller has it waiting any more, the   *)
(* data the object holds was taken up for every workload that uses it.       *)
NothingLost ==
    \A o \in Objects :
        Waiting(o) \/ served[o] = [data |-> value[o], complete |-> TRUE]

(* While one controller leads, no change is lost unseen: the data an object  *)
(* holds waits at the leader, or was taken up by it, for every workload that *)
(* uses it unless a list failed, which countAPIError has counted.            *)
NothingLostByLeader ==
    handovers = 0 => \A o \in Objects :
        \/ seen[leader][o] # value[o]
        \/ pending[leader][o] # {}
        \/ served[o].data = value[o] /\ (served[o].complete \/ listErrors > 0)

Deployments == {wl \in Workloads : KindOf[wl] = "Deployment"}

(* Again and again the leader has no wave under way: whatever other kinds of *)
(* workload do, and however verifications and lists fail, no wave keeps the  *)
(* leader busy for ever, unless a Deployment's rollout for ever neither       *)
(* becomes healthy nor passes its deadline, as a paused one.                 *)
WavesEnd ==
    \/ []<>(leader = NoOne \/ waves[leader] = <<>>)
    \/ \E wl \in Deployments : <>[](rollout[wl] = "rolling")
================================================================================
