----------------------------- MODULE ReloaderProofs -----------------------------
(***************************************************************************)
(* What is proved of the config reload (see Reloader), for any controllers, *)
(* objects, workloads and bounds: while one controller leads, it loses no   *)
(* change and applies no version again that stalled.                        *)
(*                                                                          *)
(* The argument.  The leader's informer copy of an object is what its       *)
(* waiting change holds, or, when none waits, what it last took up; what it *)
(* took up in part met a failed list.  Only the leader has waves to advance, *)
(* so that whatever stalled did so for it and is in its memory.             *)
(***************************************************************************)
EXTENDS Reloader, TLAPS

(* The parts of the state that the arguments need are functions.             *)
Shape ==
    /\ value \in [Objects -> Values]
    /\ seen \in [Controllers -> [Objects -> Values]]
    /\ pending \in [Controllers -> [Objects -> SUBSET Change]]
    /\ turn = [c \in Controllers |-> turn[c]]
    /\ blocked = [c \in Controllers |-> blocked[c]]
    /\ last = [c \in Controllers |-> last[c]]
    /\ handovers \in Nat

(* Until the lease is lost once, there is a leader. *)
OneLeader == handovers = 0 => leader \in Controllers

(* What the leader knows of an object is waiting or taken up. *)
Accounted ==
    handovers = 0 => \A o \in Objects :
        /\ \A p \in pending[leader][o] : p.data = seen[leader][o]
        /\ pending[leader][o] = {} => served[o].data = seen[leader][o]

(* What was taken up without some workload had a list that failed, and was    *)
(* counted.                                                                   *)
Counted == /\ listErrors \in Nat
           /\ \A o \in Objects : served[o].complete \/ listErrors > 0

(* Only the leader advances waves, and it remembers what stalled. *)
Remembered ==
    handovers = 0 => /\ \A c \in Controllers : c # leader => turn[c] = <<>>
                     /\ stalled \subseteq blocked[leader]

IndInv == Shape /\ OneLeader /\ Accounted /\ Counted /\ Remembered

--------------------------------------------------------------------------------
(* An advance leaves the turns of the other controllers alone, and an        *)
(* outcome is recorded for the controller that has it.                       *)
Moves(c) ==
    /\ turn' = turn \/ turn' = [turn EXCEPT ![c] = Tail(@)]
    /\ last' = last \/ \E r : last' = [last EXCEPT ![c] = r]

(* While there was no handover, the controller whose turn it is leads.       *)
LEMMA LeaderAdvances ==
    ASSUME IndInv, handovers = 0, NEW c \in Controllers, InTurn(c)
    PROVE  c = leader
BY DEF IndInv, Remembered, InTurn

(* What every step of advanceWave does, but for a failed verification: the   *)
(* waves move, the outcome may be recorded.                                  *)
LEMMA AdvanceKeeps ==
    ASSUME IndInv, NEW c \in Controllers, InTurn(c),
           Moves(c),
           blocked' = [d \in Controllers |-> blocked'[d]],
           handovers = 0 => stalled' \subseteq blocked'[c],
           Unmoved
    PROVE  IndInv'
<1>1. /\ turn' = [d \in Controllers |-> turn'[d]]
      /\ \A d \in Controllers : d # c => turn'[d] = turn[d]
  BY DEF IndInv, Shape, Moves
<1>2. last' = [d \in Controllers |-> last'[d]]
  BY DEF IndInv, Shape, Moves
<1>3. Shape'
  BY <1>1, <1>2 DEF IndInv, Shape, Unmoved, counters
<1>4. OneLeader' /\ Accounted' /\ Counted'
  BY DEF IndInv, OneLeader, Accounted, Counted, Unmoved, counters
<1>5. Remembered'
  BY <1>1, LeaderAdvances DEF IndInv, Remembered, Unmoved, counters
<1> QED
  BY <1>3, <1>4, <1>5 DEF IndInv

(* A wave fails: what stalled is blocked in the same step.                   *)
LEMMA FailKeeps ==
    ASSUME IndInv, NEW c \in Controllers, InTurn(c), FailWave(c)
    PROVE  IndInv'
<1>1. PICK w : w = Turn(c)
  OBVIOUS
<1>2. /\ blocked' = [blocked EXCEPT ![c] = Block(c, w.current, w.data)]
      /\ stalled' = stalled \cup {<<w.current, w.data>>}
      /\ Moves(c) /\ Unmoved
  BY <1>1 DEF FailWave, Advance, Record, Moves
<1>3. blocked = [d \in Controllers |-> blocked[d]]
  BY DEF IndInv, Shape
<1>4. blocked' = [d \in Controllers |-> blocked'[d]]
      /\ blocked'[c] = blocked[c] \cup {<<w.current, w.data>>}
  BY <1>2, <1>3 DEF Block
<1>5. handovers = 0 => stalled' \subseteq blocked'[c]
  BY <1>2, <1>4, LeaderAdvances DEF IndInv, Remembered
<1> QED
  BY <1>2, <1>4, <1>5, AdvanceKeeps

(* advanceWave.                                                              *)
LEMMA AdvanceWaveStep ==
    ASSUME IndInv, NEW c \in Controllers, AdvanceWave(c)
    PROVE  IndInv'
<1>1. InTurn(c)
  BY DEF AdvanceWave, StillRolling, VerifiedHealthy, VerifiedFailed, NeverRead,
         NotRestarted, NotApplied, Restarted, FinishWave
<1>2. ASSUME UNCHANGED <<blocked, stalled>>, Unmoved, Moves(c)
      PROVE  IndInv'
  <2>1. blocked' = [d \in Controllers |-> blocked'[d]]
    BY <1>2 DEF IndInv, Shape
  <2>2. handovers = 0 => stalled' \subseteq blocked'[c]
    BY <1>1, <1>2, LeaderAdvances DEF IndInv, Remembered
  <2> QED
    BY <1>1, <1>2, <2>1, <2>2, AdvanceKeeps
<1>3. CASE StillRolling(c) \/ FinishWave(c)
  BY <1>2, <1>3 DEF StillRolling, FinishWave, Advance, Record, Moves
<1>4. CASE VerifiedHealthy(c)
  BY <1>2, <1>4 DEF VerifiedHealthy, Advance, Record, Moves
<1>5. CASE VerifiedFailed(c) \/ NeverRead(c)
  BY <1>1, <1>5, FailKeeps DEF VerifiedFailed, NeverRead
<1>6. CASE NotRestarted(c)
  BY <1>2, <1>6 DEF NotRestarted, Advance, Record, Moves
<1>7. CASE NotApplied(c)
  BY <1>2, <1>7 DEF NotApplied, Advance, Record, Moves
<1>8. CASE Restarted(c)
  BY <1>2, <1>8 DEF Restarted, Advance, Record, Moves
<1> QED
  BY <1>3, <1>4, <1>5, <1>6, <1>7, <1>8 DEF AdvanceWave

(* A tick takes the due changes: the leader takes up what they hold.         *)
LEMMA TickStep ==
    ASSUME IndInv, NEW c \in Controllers, Tick(c)
    PROVE  IndInv'
<1>1. pending \in [Controllers -> [Objects -> SUBSET Change]]
      /\ turn = [d \in Controllers |-> turn[d]]
  BY DEF IndInv, Shape
<1>2. ASSUME NEW d \in Controllers, NEW o \in Objects
      PROVE  pending'[d][o] = IF d = c /\ o \in Due(c) THEN {} ELSE pending[d][o]
  BY <1>1 DEF Tick
<1>3. pending' \in [Controllers -> [Objects -> SUBSET Change]]
  BY <1>1 DEF Tick
<1>4. turn' = [d \in Controllers |-> turn'[d]]
      /\ \A d \in Controllers : turn'[d] = turn[d] \/ (d = c /\ c = leader)
  BY <1>1 DEF Tick
<1>5. Shape' /\ OneLeader'
  BY <1>3, <1>4 DEF IndInv, Shape, OneLeader, Tick
<1>6. Remembered'
  BY <1>4 DEF IndInv, Remembered, Tick
<1>7. Accounted'
  <2>1. SUFFICES ASSUME handovers = 0, NEW o \in Objects
                 PROVE  /\ \A p \in pending'[leader][o] : p.data = seen[leader][o]
                        /\ pending'[leader][o] = {} => served'[o].data = seen[leader][o]
    BY DEF Accounted, Tick
  <2>2. leader \in Controllers
    BY <2>1 DEF IndInv, OneLeader
  <2>3. /\ \A p \in pending[leader][o] : p.data = seen[leader][o]
        /\ pending[leader][o] = {} => served[o].data = seen[leader][o]
    BY <2>1 DEF IndInv, Accounted
  <2>4. CASE c # leader
    BY <1>2, <2>2, <2>3, <2>4 DEF Tick
  <2>5. CASE c = leader
    <3>1. served'[o].data = IF o \in Due(c) THEN DataOf(c, o) ELSE served[o].data
      BY <2>5 DEF Tick
    <3>2. CASE o \in Due(c)
      <4>1. pending[c][o] # {}
        BY <3>2 DEF Due
      <4>2. DataOf(c, o) = seen[leader][o]
        BY <2>3, <2>5, <4>1 DEF DataOf
      <4> QED
        BY <1>2, <2>5, <3>1, <3>2, <4>2
    <3>3. CASE o \notin Due(c)
      BY <1>2, <2>3, <2>5, <3>1, <3>3
    <3> QED
      BY <3>2, <3>3
  <2> QED
    BY <2>4, <2>5
<1>8. Counted'
  <2>1. CASE c # leader
    BY <2>1 DEF Tick, IndInv, Counted
  <2>2. CASE c = leader
    <3>1. PICK unlisted \in SUBSET Kinds :
             /\ ListErrors(unlisted)
             /\ served' = [o \in Objects |->
                    IF o \in Due(c)
                    THEN [data |-> DataOf(c, o), complete |-> AllListed(o, unlisted)]
                    ELSE served[o]]
      BY <2>2 DEF Tick
    <3>2. CASE unlisted = {}
      <4>1. \A o \in Objects : AllListed(o, unlisted)
        BY <3>2 DEF AllListed
      <4>2. listErrors' = listErrors
        BY <3>1, <3>2 DEF ListErrors
      <4>3. \A o \in Objects : served'[o].complete \/ served'[o] = served[o]
        BY <3>1, <4>1
      <4> QED
        BY <4>2, <4>3 DEF IndInv, Counted
    <3>3. CASE unlisted # {}
      BY <3>1, <3>3 DEF ListErrors, IndInv, Counted
    <3> QED
      BY <3>2, <3>3
  <2> QED
    BY <2>1, <2>2
<1> QED
  BY <1>5, <1>6, <1>7, <1>8 DEF IndInv

(* The informer sees a change: it waits with the data that was seen.         *)
LEMMA QueueChangeStep ==
    ASSUME IndInv, NEW c \in Controllers, NEW o \in Objects, QueueChange(c, o)
    PROVE  IndInv'
<1>1. /\ pending \in [Controllers -> [Objects -> SUBSET Change]]
      /\ seen \in [Controllers -> [Objects -> Values]] /\ value \in [Objects -> Values]
  BY DEF IndInv, Shape
<1>2. /\ Queued(c, o) \in SUBSET Change /\ Queued(c, o) # {}
      /\ \A p \in Queued(c, o) : p.data = value[o]
  BY <1>1 DEF Queued, Change
<1>3. PICK q : q = Queued(c, o)
  OBVIOUS
<1>4. ASSUME NEW d \in Controllers, NEW x \in Objects
      PROVE  /\ pending'[d][x] = IF d = c /\ x = o THEN q ELSE pending[d][x]
             /\ seen'[d][x] = IF d = c /\ x = o THEN value[o] ELSE seen[d][x]
  BY <1>1, <1>3 DEF QueueChange
<1>5. /\ pending' \in [Controllers -> [Objects -> SUBSET Change]]
      /\ seen' \in [Controllers -> [Objects -> Values]]
  BY <1>1, <1>2, <1>3 DEF QueueChange
<1>6. Shape' /\ OneLeader' /\ Remembered' /\ Counted'
  BY <1>5 DEF IndInv, Shape, OneLeader, Remembered, Counted, QueueChange, counters
<1>7. Accounted'
  <2>1. SUFFICES ASSUME handovers = 0, NEW x \in Objects
                 PROVE  /\ \A p \in pending'[leader][x] : p.data = seen'[leader][x]
                        /\ pending'[leader][x] = {} => served[x].data = seen'[leader][x]
    BY DEF Accounted, QueueChange, counters
  <2>2. leader \in Controllers
    BY <2>1 DEF IndInv, OneLeader
  <2>3. /\ \A p \in pending[leader][x] : p.data = seen[leader][x]
        /\ pending[leader][x] = {} => served[x].data = seen[leader][x]
    BY <2>1 DEF IndInv, Accounted
  <2>4. CASE c = leader /\ x = o
    <3>1. pending'[leader][x] = q /\ seen'[leader][x] = value[o]
      BY <1>4, <2>2, <2>4
    <3>2. q # {} /\ \A p \in q : p.data = value[o]
      BY <1>2, <1>3
    <3> QED
      BY <3>1, <3>2
  <2>5. CASE ~(c = leader /\ x = o)
    <3>1. pending'[leader][x] = pending[leader][x] /\ seen'[leader][x] = seen[leader][x]
      BY <1>4, <2>2, <2>5
    <3> QED
      BY <2>3, <3>1
  <2> QED
    BY <2>4, <2>5
<1> QED
  BY <1>6, <1>7 DEF IndInv

(* A debounce window ends: the change waits with the same data.              *)
LEMMA DebouncedStep ==
    ASSUME IndInv, NEW c \in Controllers, NEW o \in Objects, Debounced(c, o)
    PROVE  IndInv'
<1>1. pending \in [Controllers -> [Objects -> SUBSET Change]]
  BY DEF IndInv, Shape
<1>2. PICK p \in pending[c][o] :
         pending' = [pending EXCEPT ![c][o] = {[p EXCEPT !.due = TRUE]}]
  BY DEF Debounced
<1>3. p \in Change
  BY <1>1
<1>4. [p EXCEPT !.due = TRUE] \in Change /\ [p EXCEPT !.due = TRUE].data = p.data
  BY <1>3 DEF Change
<1>5. ASSUME NEW d \in Controllers, NEW x \in Objects
      PROVE  pending'[d][x] = IF d = c /\ x = o THEN {[p EXCEPT !.due = TRUE]}
                              ELSE pending[d][x]
  BY <1>1, <1>2
<1>6. pending' \in [Controllers -> [Objects -> SUBSET Change]]
  BY <1>1, <1>2, <1>4
<1>7. Shape' /\ OneLeader' /\ Remembered' /\ Counted'
  BY <1>6 DEF IndInv, Shape, OneLeader, Remembered, Counted, Debounced, counters
<1>8. Accounted'
  <2>1. SUFFICES ASSUME handovers = 0, NEW x \in Objects
                 PROVE  /\ \A q \in pending'[leader][x] : q.data = seen[leader][x]
                        /\ pending'[leader][x] = {} => served[x].data = seen[leader][x]
    BY DEF Accounted, Debounced, counters
  <2>2. leader \in Controllers
    BY <2>1 DEF IndInv, OneLeader
  <2>3. /\ \A q \in pending[leader][x] : q.data = seen[leader][x]
        /\ pending[leader][x] = {} => served[x].data = seen[leader][x]
    BY <2>1 DEF IndInv, Accounted
  <2>4. CASE c = leader /\ x = o
    <3>1. pending'[leader][x] = {[p EXCEPT !.due = TRUE]}
      BY <1>5, <2>2, <2>4
    <3>2. p.data = seen[leader][x]
      BY <1>2, <2>3, <2>4
    <3> QED
      BY <1>4, <3>1, <3>2
  <2>5. CASE ~(c = leader /\ x = o)
    <3>1. pending'[leader][x] = pending[leader][x]
      BY <1>5, <2>2, <2>5
    <3> QED
      BY <2>3, <3>1
  <2> QED
    BY <2>4, <2>5
<1> QED
  BY <1>7, <1>8 DEF IndInv

--------------------------------------------------------------------------------
(* The invariant holds at the start: everybody knows every object.           *)
LEMMA IndInit == Init => IndInv
<1> SUFFICES ASSUME Init PROVE IndInv
  OBVIOUS
<1>1. PICK v \in Values :
         /\ value = [o \in Objects |-> v]
         /\ seen = [c \in Controllers |-> value]
         /\ served = [o \in Objects |-> [data |-> v, complete |-> TRUE]]
         /\ \E o \in Objects :
               last = [c \in Controllers |->
                         [wl |-> NoWorkload, obj |-> o, data |-> v, result |-> "none"]]
  BY DEF Init
<1>2. Shape
  BY <1>1 DEF Init, Shape
<1>3. OneLeader /\ Remembered
  BY DEF Init, OneLeader, Remembered
<1>4. Accounted /\ Counted
  BY <1>1 DEF Init, Accounted, Counted
<1> QED
  BY <1>2, <1>3, <1>4 DEF IndInv

(* Every step keeps it.                                                      *)
LEMMA IndNext == IndInv /\ [Next]_vars => IndInv'
<1> SUFFICES ASSUME IndInv, [Next]_vars PROVE IndInv'
  OBVIOUS
<1>1. ASSUME NEW o \in Objects, Edit(o) PROVE IndInv'
  BY <1>1 DEF Edit, IndInv, Shape, OneLeader, Accounted, Counted, Remembered
<1>2. ASSUME NEW c \in Controllers, QuietTick(c) PROVE IndInv'
  BY <1>2 DEF QuietTick, IndInv, Shape, OneLeader, Accounted, Counted, Remembered, counters
<1>3. ASSUME NEW c \in Controllers, AcquireLease(c) PROVE IndInv'
  <2>1. handovers # 0
    BY <1>3, ReloaderAssumption DEF AcquireLease, IndInv, OneLeader
  <2> QED
    BY <1>3, <2>1 DEF AcquireLease, IndInv, Shape, OneLeader, Accounted, Counted, Remembered, counters
<1>4. CASE LoseLease
  BY <1>4 DEF LoseLease, IndInv, Shape, OneLeader, Accounted, Counted, Remembered
<1>5. ASSUME NEW wl \in Workloads, RolloutHealthy(wl) \/ RolloutStuck(wl) \/ RolledBack(wl)
      PROVE  IndInv'
  BY <1>5 DEF RolloutHealthy, RolloutStuck, RolledBack, IndInv, Shape, OneLeader, Accounted,
              Counted, Remembered, counters
<1>6. CASE UNCHANGED vars
  BY <1>6 DEF vars, counters, IndInv, Shape, OneLeader, Accounted, Counted, Remembered
<1> QED
  BY <1>1, <1>2, <1>3, <1>4, <1>5, <1>6, QueueChangeStep, DebouncedStep, TickStep,
     AdvanceWaveStep DEF Next, ReloadTick

(* The inductive invariant, in every run of the controllers.                 *)
THEOREM Invariance == Spec => []IndInv
<1> QED
  BY IndInit, IndNext, PTL DEF Spec

(* While one controller leads, a change that no longer waits at the leader    *)
(* was taken up with the data the object holds, for every workload that uses  *)
(* it unless a list failed and was counted.                                   *)
THEOREM LeaderLosesNothing == Spec => []NothingLostByLeader
<1>1. IndInv => NothingLostByLeader
  BY DEF IndInv, OneLeader, Accounted, Counted, NothingLostByLeader
<1> QED
  BY <1>1, Invariance, PTL

(* And a version that stalled for a workload is not applied to it again.     *)
THEOREM StalledStaysOut == Spec => NeverReapplied
<1>1. ASSUME IndInv, Next, handovers = 0,
             NEW c \in Controllers, NEW wl \in Workloads, NEW v \in Values,
             <<wl, v>> \in stalled, last'[c] # last[c],
             last'[c].wl = wl, last'[c].data = v, last'[c].result = "restarted"
      PROVE  FALSE
  <2>1. PICK d \in Controllers : AdvanceWave(d)
    BY <1>1 DEF Next, Edit, QueueChange, Debounced, ReloadTick, Tick, QuietTick,
                AcquireLease, RolloutHealthy, RolloutStuck, RolledBack, LoseLease
  <2>2. ASSUME NEW x, NEW result, Record(d, x, result)
        PROVE  d = c /\ last'[c].wl = x /\ last'[c].data = Turn(c).data
               /\ last'[c].result = result
    <3>1. last = [e \in Controllers |-> last[e]]
      BY <1>1 DEF IndInv, Shape
    <3>2. last' = [last EXCEPT ![d] = [wl |-> x, obj |-> Turn(d).obj, data |-> Turn(d).data,
                                       result |-> result]]
      BY <2>2 DEF Record
    <3>3. d = c
      BY <1>1, <3>1, <3>2
    <3> QED
      BY <3>1, <3>2, <3>3
  <2>3. Restarted(d)
    <3>1. CASE StillRolling(d) \/ FinishWave(d)
      BY <1>1, <3>1 DEF StillRolling, FinishWave
    <3>2. CASE VerifiedHealthy(d)
      BY <1>1, <2>2, <3>2 DEF VerifiedHealthy
    <3>3. CASE VerifiedFailed(d) \/ NeverRead(d)
      <4>1. FailWave(d)
        BY <3>3 DEF VerifiedFailed, NeverRead
      <4>2. \E x : Record(d, x, "failed") \/ Record(d, x, "skipped")
        BY <4>1 DEF FailWave
      <4> QED
        BY <1>1, <2>2, <4>2
    <3>4. CASE NotRestarted(d)
      <4>1. \/ Record(d, Head(Turn(d).todo), "failed")
            \/ Record(d, Head(Turn(d).todo), "blocked")
            \/ Record(d, Head(Turn(d).todo), "up to date")
        BY <3>4 DEF NotRestarted
      <4>2. last'[c].result \in {"failed", "blocked", "up to date"}
        BY <2>2, <4>1
      <4> QED
        BY <1>1, <4>2
    <3>5. CASE NotApplied(d)
      BY <1>1, <2>2, <3>5 DEF NotApplied
    <3> QED
      BY <2>1, <3>1, <3>2, <3>3, <3>4, <3>5 DEF AdvanceWave
  <2>4. InTurn(d) /\ Record(d, Head(Turn(d).todo), "restarted")
        /\ MayRestart(d, Head(Turn(d).todo))
    BY <2>3 DEF Restarted
  <2>5. d = c /\ wl = Head(Turn(c).todo) /\ v = Turn(c).data
    BY <1>1, <2>2, <2>4
  <2>6. <<wl, v>> \notin blocked[c] /\ c = leader
    BY <1>1, <2>4, <2>5, LeaderAdvances DEF MayRestart, IsBlocked
  <2> QED
    BY <1>1, <2>6 DEF IndInv, Remembered
<1>2. IndInv /\ [Next]_vars =>
        [handovers = 0 => \A c \in Controllers, wl \in Workloads, v \in Values :
            <<wl, v>> \in stalled /\ last'[c] # last[c] =>
                ~(last'[c].wl = wl /\ last'[c].data = v /\ last'[c].result = "restarted")]_vars
  BY <1>1
<1> QED
  BY <1>2, Invariance, PTL DEF Spec, NeverReapplied
================================================================================
