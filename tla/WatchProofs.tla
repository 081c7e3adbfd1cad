------------------------------ MODULE WatchProofs ------------------------------
(***************************************************************************)
(* What is proved of the watcher (see Watch), for any pods, any number of   *)
(* slots and escalations, and any periods: DEDUP_TTL_SECONDS may be shorter *)
(* than the timeout of a handler or than a chain of escalations.            *)
(*                                                                          *)
(* The argument.  If the TTL is longer than the timeout of a handler, then  *)
(* the key that a handler consumed is not free again as long as it may act: *)
(* the two run down together, the key from TTL and the handler from         *)
(* HandlerTimeout.  So no two handlers that may act have the same key, and  *)
(* a deletion leaves its key taken for TTL - HandlerTimeout at least.  An   *)
(* escalation is as old as its key's window has run down, or older.         *)
(***************************************************************************)
EXTENDS Watch, TLAPS

(* A handler that its timeout has not ended. *)
Live(i) == pool[i].left > 0

(* The steps before a change is sent. *)
Before == {"gather", "gate", "open_pr"}

(* A handler and its key run down together, and have each other alone. *)
KeyInv ==
    HandlerTimeout < TTL =>
        /\ \A i \in 1..Slots : Live(i) => seen[pool[i].key] + HandlerTimeout = pool[i].left + TTL
        /\ \A i, j \in 1..Slots : Live(i) /\ Live(j) /\ pool[i].key = pool[j].key => i = j

(* A deletion is not much younger than the consumption of its key, and a     *)
(* handler that may still delete finds the last one at least TTL -           *)
(* HandlerTimeout old.                                                       *)
GapInv ==
    /\ \A k \in Keys : gap[k] <= seen[k] + HandlerTimeout
    /\ \A i \in 1..Slots :
          Live(i) /\ ~pool[i].reached => gap[pool[i].key] <= HandlerTimeout

(* A change is sent in the step after these. *)
StepInv == \A i \in 1..Slots : pool[i].step \in Before => ~pool[i].reached

(* A key is free again when its escalation is a TTL old. *)
SendInv ==
    /\ \A j \in 1..MaxInFlight : sends[j] # NoSend => seen[sends[j].key] + sends[j].age >= TTL
    /\ OnePagePerFix

IndInv == TypeOK /\ KeyInv /\ GapInv /\ StepInv /\ SendInv /\ ShutdownKeepsRecords

-----------------------------------------------------------------------------
(* Lemmas on the shapes. *)

(* The periods are numbers, of any order.                                    *)
LEMMA Periods ==
    /\ Slots \in Nat /\ MaxInFlight \in Nat
    /\ Channels \in Nat \ {0} /\ TTL \in Nat \ {0} /\ HandlerTimeout \in Nat \ {0}
BY WatchAssumption

(* No handler is Free: Free is at no step.                                   *)
LEMMA FreeIsNone == Free \notin Handler /\ Free.left = 0 /\ Free.reached = FALSE /\ Free.step = "none"
BY DEF Free, Handler, Steps

(* No escalation that is under way is NoSend: NoSend has nothing left.       *)
LEMMA NoSendIsNone == NoSend \notin Sending /\ NoSend.left = 0
BY Periods DEF NoSend, Sending

(* The key of an update is a key of the deduplicator (dedupKey).             *)
LEMMA KeyInKeys ==
    ASSUME TypeOK, NEW p \in Pods, Reported(p)
    PROVE  Key(p) \in Keys
<1>1. status[p] \in Kinds
  BY DEF TypeOK
<1>2. FindingOf[status[p]] \in {FindingOf[n] : n \in Kinds} \ {NoFinding}
  BY <1>1 DEF Reported
<1>3. OwnerOf[p] \in Workloads
  BY WatchAssumption
<1> QED
  BY <1>2, <1>3 DEF Key, Keys

(* So is the key under which a failed fix is escalated.                      *)
LEMMA FailedKeyInKeys ==
    ASSUME TypeOK, NEW i \in 1..Slots, pool[i] \in Handler
    PROVE  FailedKey(i) \in Keys
<1>1. pool[i].key \in Keys
  BY DEF Handler
<1>2. pool[i].key[1] \in Workloads
  BY <1>1 DEF Keys
<1>3. pool[i].fix \in Fixes
  BY DEF Handler
<1> QED
  BY <1>2, <1>3 DEF FailedKey, Keys

(* Every finding has one of the changes that a handler knows.                *)
LEMMA FixType ==
    ASSUME NEW r, NEW st
    PROVE  FixFor(r, st) \in Fixes
<1>1. [none |-> "none", pr |-> "open_pr", live |-> "gitops_commit"][GitOps]
        \in {"none", "open_pr", "gitops_commit"}
  BY WatchAssumption
<1> QED
  BY <1>1 DEF FixFor, Fixes

(* A handler at a step is a handler: Free is at none.                        *)
LEMMA AtStep ==
    ASSUME TypeOK, NEW i \in 1..Slots, pool[i].step \in Steps
    PROVE  pool[i] \in Handler
BY FreeIsNone DEF TypeOK, Steps

-----------------------------------------------------------------------------
(* What most steps do to the pool and to the deduplicator.                   *)

(* A handler goes on with its key and its time, or ends.                     *)
GoesOn(h, g) ==
    \/ g = Free
    \/ /\ g \in Handler /\ g.key = h.key /\ g.left = h.left
       /\ h.reached => g.reached
       /\ g.reached => g.step \notin Before

PoolGoesOn ==
    /\ DOMAIN pool' = 1..Slots /\ pool' = [i \in 1..Slots |-> pool'[i]]
    /\ \A i \in 1..Slots : GoesOn(pool[i], pool'[i])

(* Keys are taken only when they are free.                                   *)
KeysTaken ==
    /\ seen' \in [Keys -> 0..TTL]
    /\ \A k \in Keys : seen'[k] = seen[k] \/ (seen[k] = 0 /\ seen'[k] = TTL)

(* One handler that goes on leaves the others as they are.                   *)
LEMMA OneGoesOn ==
    ASSUME IndInv, NEW i \in 1..Slots, NEW h, pool' = [pool EXCEPT ![i] = h],
           GoesOn(pool[i], h)
    PROVE  PoolGoesOn /\ pool' \in [1..Slots -> Handler \cup {Free}]
<1>1. pool \in [1..Slots -> Handler \cup {Free}]
  BY DEF IndInv, TypeOK
<1>2. h \in Handler \cup {Free}
  BY DEF GoesOn
<1>3. pool' \in [1..Slots -> Handler \cup {Free}]
  BY <1>1, <1>2
<1>4. ASSUME NEW j \in 1..Slots, j # i
      PROVE  GoesOn(pool[j], pool'[j])
  <2>1. pool'[j] = pool[j]
    BY <1>1, <1>4
  <2>2. pool[j] \in Handler \cup {Free}
    BY <1>1
  <2>3. pool[j].step \in Before => ~pool[j].reached
    BY DEF IndInv, StepInv
  <2> QED
    BY <2>1, <2>2, <2>3 DEF GoesOn
<1>5. pool'[i] = h
  BY <1>1
<1> QED
  BY <1>3, <1>4, <1>5 DEF PoolGoesOn

(* Such steps keep handlers and keys in step, *)
LEMMA KeysKept ==
    ASSUME IndInv, PoolGoesOn, KeysTaken
    PROVE  KeyInv' /\ StepInv'
<1> USE Periods
<1>1. ASSUME HandlerTimeout < TTL, NEW i \in 1..Slots, Live(i)'
      PROVE  /\ Live(i) /\ pool'[i].key = pool[i].key /\ pool'[i].left = pool[i].left
             /\ seen'[pool[i].key] = seen[pool[i].key] /\ pool[i].key \in Keys
             /\ seen[pool[i].key] + HandlerTimeout = pool[i].left + TTL
  <2>1. pool'[i] # Free
    BY <1>1, FreeIsNone DEF Live
  <2>2. pool'[i].key = pool[i].key /\ pool'[i].left = pool[i].left
    BY <2>1 DEF PoolGoesOn, GoesOn
  <2>3. Live(i)
    BY <1>1, <2>2 DEF Live
  <2>4. pool[i] \in Handler
    BY <2>3, FreeIsNone DEF Live, IndInv, TypeOK
  <2>5. pool[i].key \in Keys /\ pool[i].left \in 0..HandlerTimeout
    BY <2>4 DEF Handler
  <2>6. seen[pool[i].key] + HandlerTimeout = pool[i].left + TTL
    BY <1>1, <2>3 DEF IndInv, KeyInv
  <2>7. seen[pool[i].key] # 0
    BY <1>1, <2>5, <2>6
  <2>8. seen'[pool[i].key] = seen[pool[i].key]
    BY <2>5, <2>7 DEF KeysTaken
  <2> QED
    BY <2>2, <2>3, <2>5, <2>6, <2>8
<1>2. KeyInv'
  <2> SUFFICES ASSUME HandlerTimeout < TTL
               PROVE  KeyInv'
    BY DEF KeyInv
  <2>1. ASSUME NEW i \in 1..Slots, Live(i)'
        PROVE  seen'[pool'[i].key] + HandlerTimeout = pool'[i].left + TTL
    BY <1>1, <2>1
  <2>2. ASSUME NEW i \in 1..Slots, NEW j \in 1..Slots, Live(i)', Live(j)',
               pool'[i].key = pool'[j].key
        PROVE  i = j
    BY <1>1, <2>2 DEF IndInv, KeyInv
  <2> QED
    BY <2>1, <2>2 DEF KeyInv
<1>3. StepInv'
  BY FreeIsNone DEF PoolGoesOn, GoesOn, StepInv
<1> QED
  BY <1>2, <1>3

(* and, when nothing is deleted, the deletions apart.                        *)
LEMMA GapsKept ==
    ASSUME IndInv, PoolGoesOn, KeysTaken, gap' = gap
    PROVE  GapInv'
<1> USE Periods
<1>1. ASSUME NEW k \in Keys
      PROVE  gap'[k] <= seen'[k] + HandlerTimeout
  <2>1. gap[k] \in 0..TTL /\ seen[k] \in 0..TTL /\ seen'[k] \in 0..TTL
    BY DEF IndInv, TypeOK, KeysTaken
  <2>2. gap[k] <= seen[k] + HandlerTimeout
    BY DEF IndInv, GapInv
  <2>3. seen'[k] = seen[k] \/ (seen[k] = 0 /\ seen'[k] = TTL)
    BY DEF KeysTaken
  <2> QED
    BY <2>1, <2>2, <2>3
<1>2. ASSUME NEW i \in 1..Slots, Live(i)', ~pool'[i].reached
      PROVE  gap'[pool'[i].key] <= HandlerTimeout
  <2>1. pool'[i] # Free
    BY <1>2, FreeIsNone DEF Live
  <2>2. pool'[i].key = pool[i].key /\ pool'[i].left = pool[i].left /\ ~pool[i].reached
    BY <1>2, <2>1 DEF PoolGoesOn, GoesOn
  <2> QED
    BY <1>2, <2>2 DEF IndInv, GapInv, Live
<1> QED
  BY <1>1, <1>2 DEF GapInv

(* Nor does an escalation lose its key when others are taken.                *)
LEMMA SendsKept ==
    ASSUME IndInv, KeysTaken, sends' = sends
    PROVE  SendInv'
<1> USE Periods
<1>1. ASSUME NEW j \in 1..MaxInFlight, sends'[j] # NoSend
      PROVE  seen'[sends'[j].key] + sends'[j].age >= TTL
  <2>1. sends[j].key \in Keys /\ sends[j].age \in 0..Channels
    BY <1>1 DEF IndInv, TypeOK, Sending
  <2>2. seen[sends[j].key] + sends[j].age >= TTL /\ seen[sends[j].key] \in 0..TTL
    BY <1>1, <2>1 DEF IndInv, SendInv, TypeOK
  <2> QED
    BY <2>1, <2>2 DEF KeysTaken
<1>2. OnePagePerFix'
  BY DEF IndInv, SendInv, OnePagePerFix
<1> QED
  BY <1>1, <1>2 DEF SendInv

(* A process that starts, or is about to, has nothing to keep apart.         *)
LEMMA KeysFree ==
    ASSUME IndInv, seen' = Quiet, gap' = Quiet,
           pool' = Idle, sends' = [j \in 1..MaxInFlight |-> NoSend]
    PROVE  KeyInv' /\ StepInv' /\ GapInv' /\ SendInv'
<1> USE Periods
<1>1. \A i \in 1..Slots : pool'[i] = Free
  BY DEF Idle
<1>2. KeyInv' /\ StepInv'
  BY <1>1, FreeIsNone DEF KeyInv, StepInv, Live, Before
<1>3. ASSUME NEW k \in Keys
      PROVE  gap'[k] <= seen'[k] + HandlerTimeout
  BY <1>3 DEF Quiet
<1>4. GapInv'
  BY <1>1, <1>3, FreeIsNone DEF GapInv, Live
<1>5. SendInv'
  BY DEF SendInv, OnePagePerFix
<1> QED
  BY <1>2, <1>4, <1>5
-----------------------------------------------------------------------------
(* One lemma for each group of steps. *)

(* An informer delivers an update: its key was free, so that no handler that *)
(* may act and no escalation has it.                                         *)
LEMMA PodUpdateStep ==
    ASSUME IndInv, NEW p \in Pods, PodUpdate(p)
    PROVE  IndInv'
<1> USE Periods
<1> DEFINE k == Key(p)
<1>1. k \in Keys /\ Reported(p)
  BY KeyInKeys DEF PodUpdate, IndInv
<1>2. seen \in [Keys -> 0..TTL] /\ pool \in [1..Slots -> Handler \cup {Free}]
  BY DEF IndInv, TypeOK
<1>3. seen[k] = 0 /\ seen' = [seen EXCEPT ![k] = TTL]
  BY DEF PodUpdate, Checked
<1>4. KeysTaken
  BY <1>1, <1>2, <1>3 DEF KeysTaken
<1>5. SendInv'
  BY <1>4, SendsKept DEF PodUpdate
<1>6. CASE UNCHANGED pool
  <2>1. PoolGoesOn
    <3>1. ASSUME NEW i \in 1..Slots
          PROVE  GoesOn(pool[i], pool'[i])
      BY <1>2, <1>6 DEF GoesOn, IndInv, StepInv
    <3> QED
      BY <1>2, <1>6, <3>1 DEF PoolGoesOn
  <2>2. KeyInv' /\ StepInv' /\ GapInv'
    BY <1>4, <2>1, KeysKept, GapsKept DEF PodUpdate
  <2>3. TypeOK'
    BY <1>4, <1>6 DEF IndInv, TypeOK, PodUpdate, KeysTaken
  <2> QED
    BY <1>5, <1>6, <2>2, <2>3 DEF IndInv, PodUpdate, ShutdownKeepsRecords
<1>7. ASSUME NEW i \in FreeSlots, NEW h,
             h = [pod |-> p, key |-> k, fix |-> FixFor(k[2][1], StatusOf[status[p]]),
                  step |-> "gather", left |-> HandlerTimeout, reached |-> FALSE],
             pool' = [pool EXCEPT ![i] = h]
      PROVE  IndInv'
  <2>1. i \in 1..Slots
    BY DEF FreeSlots
  <2>2. h \in Handler
    BY <1>1, <1>7, FixType DEF Handler, Steps
  <2>3. pool' \in [1..Slots -> Handler \cup {Free}]
    BY <1>2, <1>7, <2>2
  <2>4. TypeOK'
    BY <1>4, <2>3 DEF IndInv, TypeOK, PodUpdate, KeysTaken
  <2>5. pool'[i] = h /\ \A j \in 1..Slots : j # i => pool'[j] = pool[j]
    BY <1>2, <1>7, <2>1
  <2>6. h.key = k /\ h.left = HandlerTimeout /\ h.reached = FALSE /\ h.step = "gather"
    BY <1>7
  <2>7. ASSUME HandlerTimeout < TTL, NEW j \in 1..Slots, Live(j)
        PROVE  /\ pool[j].key # k /\ pool[j].key \in Keys
               /\ seen'[pool[j].key] = seen[pool[j].key]
    <3>1. pool[j] \in Handler
      BY <1>2, <2>7, FreeIsNone DEF Live
    <3>2. pool[j].key \in Keys /\ pool[j].left \in 0..HandlerTimeout
      BY <3>1 DEF Handler
    <3>3. seen[pool[j].key] + HandlerTimeout = pool[j].left + TTL
      BY <2>7 DEF IndInv, KeyInv
    <3>4. pool[j].key # k
      BY <1>3, <2>7, <3>2, <3>3
    <3> QED
      BY <1>1, <1>2, <1>3, <3>2, <3>4
  <2>8. KeyInv'
    <3> SUFFICES ASSUME HandlerTimeout < TTL
                 PROVE  KeyInv'
      BY DEF KeyInv
    <3>1. ASSUME NEW j \in 1..Slots, Live(j)'
          PROVE  seen'[pool'[j].key] + HandlerTimeout = pool'[j].left + TTL
      <4>1. CASE j = i
        BY <1>1, <1>2, <1>3, <2>5, <2>6, <4>1
      <4>2. CASE j # i
        BY <2>5, <2>7, <3>1, <4>2 DEF Live, IndInv, KeyInv
      <4> QED
        BY <4>1, <4>2
    <3>2. ASSUME NEW j \in 1..Slots, NEW l \in 1..Slots, Live(j)', Live(l)',
                 pool'[j].key = pool'[l].key
          PROVE  j = l
      BY <2>5, <2>6, <2>7, <3>2 DEF Live, IndInv, KeyInv
    <3> QED
      BY <3>1, <3>2 DEF KeyInv
  <2>9. GapInv'
    <3>1. ASSUME NEW x \in Keys
          PROVE  gap'[x] <= seen'[x] + HandlerTimeout
      <4>1. gap'[x] = gap[x] /\ gap[x] \in 0..TTL /\ gap[x] <= seen[x] + HandlerTimeout
        BY DEF IndInv, TypeOK, GapInv, PodUpdate
      <4> QED
        BY <1>2, <1>4, <4>1 DEF KeysTaken
    <3>2. ASSUME NEW j \in 1..Slots, Live(j)', ~pool'[j].reached
          PROVE  gap'[pool'[j].key] <= HandlerTimeout
      <4>1. CASE j = i
        <5>1. gap[k] \in 0..TTL /\ gap[k] <= seen[k] + HandlerTimeout
          BY <1>1 DEF IndInv, TypeOK, GapInv
        <5>2. gap' = gap
          BY DEF PodUpdate
        <5> QED
          BY <1>3, <2>5, <2>6, <4>1, <5>1, <5>2
      <4>2. CASE j # i
        BY <2>5, <3>2, <4>2 DEF Live, IndInv, GapInv, PodUpdate
      <4> QED
        BY <4>1, <4>2
    <3> QED
      BY <3>1, <3>2 DEF GapInv
  <2>10. StepInv'
    BY <2>5, <2>6 DEF IndInv, StepInv
  <2>11. ShutdownKeepsRecords'
    BY <2>5, <2>6 DEF IndInv, ShutdownKeepsRecords, PodUpdate
  <2> QED
    BY <1>5, <2>4, <2>8, <2>9, <2>10, <2>11 DEF IndInv
<1> QED
  BY <1>6, <1>7 DEF PodUpdate

(* The steps of a handler that change nothing outside of the pool.           *)
LEMMA HandlerOnly ==
    ASSUME IndInv, NEW i \in 1..Slots, NEW h, pool' = [pool EXCEPT ![i] = h],
           GoesOn(pool[i], h), ~h.reached \/ pool[i].reached \/ phase = "up",
           UNCHANGED <<status, seen, sends, phase, expired, gap>>
    PROVE  IndInv'
<1>1. PoolGoesOn /\ pool' \in [1..Slots -> Handler \cup {Free}]
  BY OneGoesOn
<1>2. KeysTaken
  BY DEF KeysTaken, IndInv, TypeOK
<1>3. KeyInv' /\ StepInv' /\ GapInv' /\ SendInv'
  BY <1>1, <1>2, KeysKept, GapsKept, SendsKept
<1>4. TypeOK'
  BY <1>1 DEF IndInv, TypeOK
<1>5. \A j \in 1..Slots : pool'[j] = pool[j] \/ (j = i /\ pool'[j] = h)
  BY DEF IndInv, TypeOK
<1>6. ShutdownKeepsRecords'
  BY <1>5 DEF IndInv, ShutdownKeepsRecords
<1> QED
  BY <1>3, <1>4, <1>6 DEF IndInv

(* A handler that goes on to a step of its own goes on with its key.         *)
LEMMA StepGoesOn ==
    ASSUME IndInv, NEW i \in 1..Slots, pool[i] \in Handler, NEW to \in Steps,
           pool[i].reached => to \notin Before
    PROVE  /\ GoesOn(pool[i], [pool[i] EXCEPT !.step = to])
           /\ [pool[i] EXCEPT !.step = to].reached = pool[i].reached
BY DEF GoesOn, Handler

(* A handler whose change reaches the API server goes on with its key.       *)
LEMMA ReachGoesOn ==
    ASSUME IndInv, NEW i \in 1..Slots, pool[i] \in Handler, NEW to \in Steps \ Before
    PROVE  GoesOn(pool[i], [pool[i] EXCEPT !.step = to, !.reached = TRUE])
BY DEF GoesOn, Handler, Steps

(* All steps of a handler but the deletion and the escalation.               *)
LEMMA InPoolSteps ==
    ASSUME IndInv, NEW i \in 1..Slots,
           Gather(i) \/ Withheld(i) \/ ApplyFails(i) \/ OpenPR(i) \/ Audit(i) \/ Tell(i)
    PROVE  IndInv'
<1>1. TypeOK /\ pool \in [1..Slots -> Handler \cup {Free}]
  BY DEF IndInv, TypeOK
<1>2. ASSUME NEW from \in Steps, NEW to \in Steps, from \in Before \/ to \notin Before,
             Step(i, from, to), UNCHANGED <<status, seen, sends, phase, expired, gap>>
      PROVE  IndInv'
  <2>1. pool[i] \in Handler /\ pool[i].step = from
    BY <1>1, <1>2, AtStep DEF Step
  <2>2. pool[i].reached => to \notin Before
    BY <1>2, <2>1 DEF IndInv, StepInv
  <2>3. pool' = [pool EXCEPT ![i] = [pool[i] EXCEPT !.step = to]]
    BY <1>2 DEF Step
  <2> QED
    BY <1>2, <2>1, <2>2, <2>3, StepGoesOn, HandlerOnly
<1>3. CASE Gather(i)
  <2>1. pool[i] \in Handler /\ pool[i].step = "gather"
    BY <1>1, <1>3, AtStep DEF Gather, Steps
  <2>2. ~pool[i].reached
    BY <2>1 DEF IndInv, StepInv, Before
  <2>3. AfterGather[pool[i].fix] \in Steps
    BY <2>1 DEF AfterGather, Steps, Handler, Fixes
  <2>4. \E h : /\ pool' = [pool EXCEPT ![i] = h]
               /\ h = Free \/ h = [pool[i] EXCEPT !.step = AfterGather[pool[i].fix]]
    BY <1>3 DEF Gather
  <2>5. GoesOn(pool[i], Free) /\ ~Free.reached
    BY FreeIsNone DEF GoesOn
  <2> QED
    BY <1>3, <2>1, <2>2, <2>3, <2>4, <2>5, StepGoesOn, HandlerOnly DEF Gather
<1>4. CASE Withheld(i)
  BY <1>2, <1>4 DEF Withheld, Steps, Before
<1>5. CASE ApplyFails(i)
  BY <1>2, <1>5 DEF ApplyFails, Steps, Before
<1>6. CASE OpenPR(i)
  <2>1. CASE Step(i, "open_pr", "tell")
    BY <1>2, <1>6, <2>1 DEF OpenPR, Steps, Before
  <2>2. CASE /\ Alive(i) /\ pool[i].step = "open_pr"
             /\ pool' = [pool EXCEPT ![i].step = "audit", ![i].reached = TRUE]
    <3>1. pool[i] \in Handler
      BY <1>1, <2>2, AtStep DEF Steps
    <3>2. pool' = [pool EXCEPT ![i] = [pool[i] EXCEPT !.step = "audit", !.reached = TRUE]]
      BY <1>1, <2>2
    <3>3. GoesOn(pool[i], [pool[i] EXCEPT !.step = "audit", !.reached = TRUE])
      BY <3>1, ReachGoesOn DEF Steps, Before
    <3> QED
      BY <1>6, <2>2, <3>2, <3>3, HandlerOnly DEF OpenPR, Alive
  <2> QED
    BY <1>6, <2>1, <2>2 DEF OpenPR
<1>7. CASE Audit(i)
  BY <1>2, <1>7 DEF Audit, Steps, Before
<1>8. CASE Tell(i)
  BY <1>8, FreeIsNone, HandlerOnly DEF Tell, GoesOn
<1> QED
  BY <1>3, <1>4, <1>5, <1>6, <1>7, <1>8

(* The change reaches the API server.  No other handler that may act has     *)
(* the key of this one, and the key is taken for TTL - HandlerTimeout yet.   *)
LEMMA ApplyStep ==
    ASSUME IndInv, NEW i \in 1..Slots, Apply(i)
    PROVE  IndInv'
<1> USE Periods
<1>1. TypeOK /\ pool \in [1..Slots -> Handler \cup {Free}] /\ seen \in [Keys -> 0..TTL]
        /\ gap \in [Keys -> 0..TTL]
  BY DEF IndInv, TypeOK
<1>2. pool[i] \in Handler
  BY <1>1, AtStep DEF Apply, Steps
<1>3. PICK h : /\ pool' = [pool EXCEPT ![i] = h] /\ GoesOn(pool[i], h) /\ h.reached
               /\ h.key = pool[i].key
  <2>1. PICK to \in {"audit", "audit_failed"} :
           pool' = [pool EXCEPT ![i].step = to, ![i].reached = TRUE]
    BY DEF Apply
  <2>2. pool' = [pool EXCEPT ![i] = [pool[i] EXCEPT !.step = to, !.reached = TRUE]]
    BY <1>1, <2>1
  <2>3. GoesOn(pool[i], [pool[i] EXCEPT !.step = to, !.reached = TRUE])
    BY <1>2, ReachGoesOn DEF Steps, Before
  <2>4. /\ [pool[i] EXCEPT !.step = to, !.reached = TRUE].reached
        /\ [pool[i] EXCEPT !.step = to, !.reached = TRUE].key = pool[i].key
    BY <1>2 DEF Handler
  <2> QED
    BY <2>2, <2>3, <2>4
<1>4. PoolGoesOn /\ pool' \in [1..Slots -> Handler \cup {Free}]
  BY <1>3, OneGoesOn
<1>5. KeysTaken
  BY <1>1 DEF KeysTaken, Apply
<1>6. KeyInv' /\ StepInv' /\ SendInv'
  BY <1>4, <1>5, KeysKept, SendsKept DEF Apply
<1>7. pool[i].key \in Keys /\ pool[i].pod \in Pods
  BY <1>2 DEF Handler
<1>8. TypeOK'
  <2>1. gap' \in [Keys -> 0..TTL] /\ status' \in [Pods -> Kinds]
    <3>1. status \in [Pods -> Kinds] /\ Fresh \in Kinds
      BY <1>1, WatchAssumption DEF TypeOK
    <3>2. gap' = gap \/ gap' = [gap EXCEPT ![pool[i].key] = TTL]
      BY DEF Apply
    <3>3. status' = status \/ status' = [status EXCEPT ![pool[i].pod] = Fresh]
      BY DEF Apply
    <3>4. TTL \in 0..TTL
      OBVIOUS
    <3>5. gap' \in [Keys -> 0..TTL]
      BY <1>1, <1>7, <3>2, <3>4
    <3>6. status' \in [Pods -> Kinds]
      BY <1>7, <3>1, <3>3
    <3> QED
      BY <3>5, <3>6
  <2> QED
    BY <1>1, <1>4, <2>1 DEF TypeOK, Apply
<1>9. ShutdownKeepsRecords'
  BY DEF ShutdownKeepsRecords, Apply, Alive
<1>10. CASE gap' = gap
  BY <1>4, <1>5, <1>6, <1>8, <1>9, <1>10, GapsKept DEF IndInv
<1>11. CASE gap' = [gap EXCEPT ![pool[i].key] = TTL]
  <2>1. Live(i)
    BY DEF Apply, Alive, Live
  <2>2. pool[i].left \in 0..HandlerTimeout
    BY <1>2 DEF Handler
  <2>3. HandlerTimeout < TTL => seen[pool[i].key] + HandlerTimeout = pool[i].left + TTL
    BY <2>1 DEF IndInv, KeyInv
  <2>4. ASSUME NEW k \in Keys
        PROVE  gap'[k] <= seen'[k] + HandlerTimeout
    <3>1. seen' = seen /\ seen[k] \in 0..TTL
      BY <1>1 DEF Apply
    <3>2. CASE k = pool[i].key
      BY <1>1, <1>11, <2>2, <2>3, <3>1, <3>2
    <3>3. CASE k # pool[i].key
      BY <1>1, <1>11, <3>1, <3>3 DEF IndInv, GapInv
    <3> QED
      BY <3>2, <3>3
  <2>5. ASSUME NEW j \in 1..Slots, Live(j)', ~pool'[j].reached
        PROVE  gap'[pool'[j].key] <= HandlerTimeout
    <3>1. j # i
      BY <1>1, <1>3, <2>5
    <3>2. pool'[j] = pool[j]
      BY <1>1, <1>3, <3>1
    <3>3. HandlerTimeout < TTL => pool[j].key # pool[i].key
      BY <2>1, <2>5, <3>1, <3>2 DEF Live, IndInv, KeyInv
    <3>4. gap[pool[j].key] <= HandlerTimeout
      BY <2>5, <3>2 DEF Live, IndInv, GapInv
    <3>5. pool[j].key \in Keys
      BY <1>1, <2>5, <3>2, FreeIsNone DEF Live, Handler
    <3> QED
      BY <1>1, <1>11, <3>2, <3>3, <3>4, <3>5
  <2>6. GapInv'
    BY <2>4, <2>5 DEF GapInv
  <2> QED
    BY <1>6, <1>8, <1>9, <2>6 DEF IndInv
<1> QED
  BY <1>10, <1>11 DEF Apply

(* A failed fix is escalated once: its key was free, so that no escalation   *)
(* that is under way has it.                                                 *)
LEMMA AuditFailedStep ==
    ASSUME IndInv, NEW i \in 1..Slots, AuditFailed(i)
    PROVE  IndInv'
<1> USE Periods
<1> DEFINE k == FailedKey(i)
<1>1. TypeOK /\ pool \in [1..Slots -> Handler \cup {Free}] /\ seen \in [Keys -> 0..TTL]
  BY DEF IndInv, TypeOK
<1>2. pool[i] \in Handler /\ pool[i].step = "audit_failed"
  BY <1>1, AtStep DEF AuditFailed, Step, Steps
<1>3. k \in Keys
  BY <1>1, <1>2, FailedKeyInKeys
<1>4. PICK h : /\ pool' = [pool EXCEPT ![i] = h] /\ GoesOn(pool[i], h)
               /\ h.reached = pool[i].reached
  <2>1. pool' = [pool EXCEPT ![i] = [pool[i] EXCEPT !.step = "tell"]]
    BY DEF AuditFailed, Step
  <2> QED
    BY <1>2, <2>1, StepGoesOn DEF Steps, Before
<1>5. PoolGoesOn /\ pool' \in [1..Slots -> Handler \cup {Free}]
  BY <1>4, OneGoesOn
<1>6. KeysTaken
  BY <1>1, <1>3 DEF AuditFailed, Checked, KeysTaken
<1>7. KeyInv' /\ StepInv' /\ GapInv'
  BY <1>5, <1>6, KeysKept, GapsKept DEF AuditFailed
<1>8. ShutdownKeepsRecords'
  <2>1. \A j \in 1..Slots : pool'[j] = pool[j] \/ (j = i /\ pool'[j] = h)
    BY <1>1, <1>4
  <2> QED
    BY <1>4, <2>1 DEF IndInv, ShutdownKeepsRecords, AuditFailed
<1>9. CASE sends' = sends
  <2>1. TypeOK'
    BY <1>1, <1>5, <1>6, <1>9 DEF AuditFailed, KeysTaken, TypeOK
  <2> QED
    BY <1>6, <1>7, <1>8, <1>9, <2>1, SendsKept DEF IndInv
<1>10. ASSUME NEW j \in FreePlaces, seen[k] = 0, seen' = [seen EXCEPT ![k] = TTL],
              sends' = [sends EXCEPT ![j] = [key |-> k, left |-> Channels, age |-> 0]]
       PROVE  IndInv'
  <2>1. j \in 1..MaxInFlight
        /\ sends \in [1..MaxInFlight -> Sending \cup {NoSend}]
    BY <1>1 DEF FreePlaces, TypeOK
  <2>2. sends' \in [1..MaxInFlight -> Sending \cup {NoSend}]
    BY <1>3, <1>10, <2>1 DEF Sending
  <2>3. TypeOK'
    BY <1>1, <1>5, <1>6, <2>2 DEF AuditFailed, KeysTaken, TypeOK
  <2>4. sends'[j] = [key |-> k, left |-> Channels, age |-> 0]
        /\ \A l \in 1..MaxInFlight : l # j => sends'[l] = sends[l]
    BY <1>10, <2>1
  <2>5. ASSUME NEW l \in 1..MaxInFlight, sends[l] # NoSend
        PROVE  /\ sends[l].age \in 0..Channels /\ seen'[sends[l].key] + sends[l].age >= TTL
               /\ sends[l].key = k => sends[l].age >= TTL
    <3>1. sends[l].key \in Keys /\ sends[l].age \in 0..Channels
      BY <2>1, <2>5 DEF Sending
    <3>2. seen[sends[l].key] + sends[l].age >= TTL
      BY <2>5 DEF IndInv, SendInv
    <3> QED
      BY <1>1, <1>3, <1>10, <3>1, <3>2
  <2>6. ASSUME NEW l \in 1..MaxInFlight, sends'[l] # NoSend
        PROVE  seen'[sends'[l].key] + sends'[l].age >= TTL
    <3>1. CASE l = j
      BY <1>1, <1>3, <1>10, <2>4, <3>1
    <3>2. CASE l # j
      BY <2>4, <2>5, <2>6, <3>2
    <3> QED
      BY <3>1, <3>2
  <2>7. ASSUME NEW l \in 1..MaxInFlight, NEW m \in 1..MaxInFlight, l # m, sends'[l] # NoSend,
               sends'[l].key = sends'[m].key
        PROVE  sends'[l].age >= sends'[m].age + TTL \/ sends'[m].age >= sends'[l].age + TTL
    <3>1. k # <<>> /\ NoSend.key = <<>>
      BY DEF FailedKey, NoSend
    <3>2. CASE l = j
      <4>1. sends[m] # NoSend /\ sends[m].key = k /\ sends'[m] = sends[m]
        BY <2>4, <2>7, <3>1, <3>2
      <4> QED
        BY <2>4, <2>5, <3>2, <4>1
    <3>3. CASE m = j
      <4>1. sends[l] # NoSend /\ sends[l].key = k /\ sends'[l] = sends[l]
        BY <2>4, <2>7, <3>3
      <4> QED
        BY <2>4, <2>5, <3>3, <4>1
    <3>4. CASE l # j /\ m # j
      BY <2>4, <2>7, <3>4 DEF IndInv, SendInv, OnePagePerFix
    <3> QED
      BY <3>2, <3>3, <3>4
  <2>8. SendInv'
    BY <2>6, <2>7 DEF SendInv, OnePagePerFix
  <2> QED
    BY <1>7, <1>8, <2>3, <2>8 DEF IndInv
<1> QED
  BY <1>9, <1>10 DEF AuditFailed, Checked, Send

(* What Escalated leaves of an escalation, when a tick or none has passed.    *)
LEMMA EscalatedShape ==
    ASSUME NEW s \in Sending, NEW d \in {0, 1}, NEW t, t = Escalated([s EXCEPT !.age = @ + d])
    PROVE  t = NoSend \/ (t \in Sending /\ t.key = s.key /\ t.age = s.age + d)
<1> USE Periods
<1>1. /\ s \in [key : Keys, left : 1..Channels, age : 0..Channels] /\ s.age + s.left <= Channels
      /\ s.key \in Keys /\ s.left \in 1..Channels /\ s.age \in 0..Channels
  BY DEF Sending
<1>2. CASE s.left > 1
  <2>1. t = [s EXCEPT !.age = s.age + d, !.left = s.left - 1]
    BY <1>1, <1>2 DEF Escalated
  <2>2. s.age + d \in 0..Channels /\ s.left - 1 \in 1..Channels
        /\ (s.age + d) + (s.left - 1) <= Channels
    BY <1>1, <1>2
  <2>3. t \in [key : Keys, left : 1..Channels, age : 0..Channels]
        /\ t.key = s.key /\ t.age = s.age + d /\ t.left = s.left - 1
    BY <1>1, <2>1, <2>2
  <2> QED
    BY <2>2, <2>3 DEF Sending
<1>3. CASE ~(s.left > 1)
  BY <1>1, <1>3 DEF Escalated
<1> QED
  BY <1>2, <1>3

(* Escalations that go on, all by the same time, keep their distance.        *)
LEMMA AgesKept ==
    ASSUME IndInv, NEW d \in Nat,
           \A l \in 1..MaxInFlight :
               sends'[l] # NoSend => /\ sends[l] # NoSend /\ sends'[l].key = sends[l].key
                                     /\ sends'[l].age = sends[l].age + d
    PROVE  OnePagePerFix'
<1> USE Periods
<1> SUFFICES ASSUME NEW l \in 1..MaxInFlight, NEW m \in 1..MaxInFlight, l # m,
                    sends'[l] # NoSend, sends'[l].key = sends'[m].key
             PROVE  sends'[l].age >= sends'[m].age + TTL \/ sends'[m].age >= sends'[l].age + TTL
  BY DEF OnePagePerFix
<1>1. sends \in [1..MaxInFlight -> Sending \cup {NoSend}]
  BY DEF IndInv, TypeOK
<1>2. \A n \in 1..MaxInFlight :
         sends[n] # NoSend => sends[n].key \in Keys /\ sends[n].age \in 0..Channels
  BY <1>1 DEF Sending
<1>3. NoSend.key \notin Keys
  BY DEF NoSend, Keys
<1>4. sends'[m] # NoSend
  BY <1>2, <1>3
<1>5. sends[l].age >= sends[m].age + TTL \/ sends[m].age >= sends[l].age + TTL
  BY <1>4 DEF IndInv, SendInv, OnePagePerFix
<1> QED
  BY <1>2, <1>4, <1>5

(* A channel is done with, for one escalation.                               *)
LEMMA EscalateStep ==
    ASSUME IndInv, NEW j \in 1..MaxInFlight, Escalate(j)
    PROVE  IndInv'
<1> USE Periods
<1>1. sends \in [1..MaxInFlight -> Sending \cup {NoSend}] /\ seen \in [Keys -> 0..TTL]
  BY DEF IndInv, TypeOK
<1>2. sends[j] \in Sending /\ sends[j] # NoSend
  BY <1>1 DEF Escalate
<1>3. PICK s : s = Escalated(sends[j])
  OBVIOUS
<1>4. s = NoSend \/ (s \in Sending /\ s.key = sends[j].key /\ s.age = sends[j].age + 0)
  <2>1. sends[j] = [sends[j] EXCEPT !.age = @ + 0]
    BY <1>2 DEF Sending
  <2> QED
    BY <1>2, <1>3, <2>1, EscalatedShape
<1>5. sends' = [sends EXCEPT ![j] = s]
  BY <1>3 DEF Escalate
<1>6. sends' \in [1..MaxInFlight -> Sending \cup {NoSend}]
  BY <1>1, <1>4, <1>5
<1>7. TypeOK'
  BY <1>6 DEF IndInv, TypeOK, Escalate
<1>8. sends'[j] = s /\ \A l \in 1..MaxInFlight : l # j => sends'[l] = sends[l]
  BY <1>1, <1>5
<1>9. ASSUME NEW l \in 1..MaxInFlight, sends'[l] # NoSend
      PROVE  /\ sends[l] # NoSend /\ sends'[l].key = sends[l].key
             /\ sends'[l].age = sends[l].age + 0
  <2>1. sends[l] # NoSend => sends[l].age \in 0..Channels
    BY <1>1 DEF Sending
  <2> QED
    BY <1>2, <1>4, <1>8, <1>9, <2>1
<1>10. ASSUME NEW l \in 1..MaxInFlight, sends'[l] # NoSend
       PROVE  seen'[sends'[l].key] + sends'[l].age >= TTL
  <2>1. sends[l].age \in 0..Channels
    BY <1>1, <1>9, <1>10 DEF Sending
  <2> QED
    BY <1>9, <1>10, <2>1 DEF IndInv, SendInv, Escalate
<1>11. SendInv'
  BY <1>9, <1>10, AgesKept DEF SendInv
<1>12. KeyInv' /\ GapInv' /\ StepInv' /\ ShutdownKeepsRecords'
  BY DEF IndInv, KeyInv, GapInv, StepInv, ShutdownKeepsRecords, Escalate, Live
<1> QED
  BY <1>7, <1>11, <1>12 DEF IndInv

(* A tick takes as much from a key as from its handler and its escalation.   *)
LEMMA TickStep ==
    ASSUME IndInv, Tick
    PROVE  IndInv'
<1> USE Periods
<1>1. /\ TypeOK /\ pool \in [1..Slots -> Handler \cup {Free}] /\ seen \in [Keys -> 0..TTL]
      /\ gap \in [Keys -> 0..TTL]
      /\ sends \in [1..MaxInFlight -> Sending \cup {NoSend}]
  BY DEF IndInv, TypeOK
<1>2. ASSUME NEW k \in Keys
      PROVE  /\ seen[k] \in 0..TTL /\ seen'[k] = Less(seen[k])
             /\ gap[k] \in 0..TTL /\ gap'[k] = Less(gap[k])
  BY <1>1 DEF Tick
<1>3. ASSUME NEW n \in Nat
      PROVE  Less(n) \in Nat /\ Less(n) <= n /\ (n > 0 => Less(n) = n - 1)
             /\ (n = 0 => Less(n) = 0)
  BY DEF Less
<1>4. ASSUME NEW i \in 1..Slots, pool'[i] # Free
      PROVE  /\ pool[i] \in Handler /\ pool'[i] \in Handler
             /\ pool[i].left \in 0..HandlerTimeout /\ pool'[i].left = Less(pool[i].left)
             /\ pool'[i].key = pool[i].key /\ pool[i].key \in Keys
             /\ pool'[i].step = pool[i].step /\ pool'[i].reached = pool[i].reached
  <2>1. pool[i] \in Handler
    BY <1>1, <1>4 DEF Tick
  <2>2. pool'[i] = [pool[i] EXCEPT !.left = Less(@)]
    BY <1>4 DEF Tick
  <2>3. pool[i].left \in 0..HandlerTimeout /\ pool[i].key \in Keys
    BY <2>1 DEF Handler
  <2>4. Less(pool[i].left) \in 0..HandlerTimeout
    BY <1>3, <2>3
  <2> QED
    BY <2>1, <2>2, <2>3, <2>4 DEF Handler
<1>5. ASSUME NEW i \in 1..Slots, Live(i)'
      PROVE  /\ Live(i) /\ pool'[i] # Free
             /\ pool'[i].left = pool[i].left - 1
             /\ HandlerTimeout < TTL =>
                   /\ seen[pool[i].key] + HandlerTimeout = pool[i].left + TTL
                   /\ seen'[pool[i].key] = seen[pool[i].key] - 1
  <2>1. pool'[i] # Free
    BY <1>5, FreeIsNone DEF Live
  <2>2. pool[i].left > 0 /\ pool'[i].left = pool[i].left - 1
    BY <1>3, <1>4, <1>5, <2>1 DEF Live
  <2>3. HandlerTimeout < TTL => seen[pool[i].key] + HandlerTimeout = pool[i].left + TTL
    BY <2>2 DEF Live, IndInv, KeyInv
  <2>4. HandlerTimeout < TTL => seen[pool[i].key] > 0
    BY <1>2, <1>4, <2>1, <2>2, <2>3
  <2>5. HandlerTimeout < TTL => seen'[pool[i].key] = seen[pool[i].key] - 1
    BY <1>2, <1>3, <1>4, <2>1, <2>4
  <2> QED
    BY <2>1, <2>2, <2>3, <2>5 DEF Live
<1>6. KeyInv'
  <2> SUFFICES ASSUME HandlerTimeout < TTL
               PROVE  KeyInv'
    BY DEF KeyInv
  <2>1. ASSUME NEW i \in 1..Slots, Live(i)'
        PROVE  seen'[pool'[i].key] + HandlerTimeout = pool'[i].left + TTL
    <3>1. pool[i].key \in Keys /\ pool'[i].key = pool[i].key
          /\ pool[i].left \in 0..HandlerTimeout
      BY <1>4, <1>5, <2>1
    <3> QED
      BY <1>2, <1>5, <2>1, <3>1
  <2>2. ASSUME NEW i \in 1..Slots, NEW j \in 1..Slots, Live(i)', Live(j)',
               pool'[i].key = pool'[j].key
        PROVE  i = j
    BY <1>4, <1>5, <2>2 DEF IndInv, KeyInv
  <2> QED
    BY <2>1, <2>2 DEF KeyInv
<1>7. GapInv'
  <2>1. ASSUME NEW k \in Keys
        PROVE  gap'[k] <= seen'[k] + HandlerTimeout
    <3>1. gap[k] <= seen[k] + HandlerTimeout
      BY DEF IndInv, GapInv
    <3> QED
      BY <1>2, <3>1 DEF Less
  <2>2. ASSUME NEW i \in 1..Slots, Live(i)', ~pool'[i].reached
        PROVE  gap'[pool'[i].key] <= HandlerTimeout
    <3>1. Live(i) /\ ~pool[i].reached /\ pool'[i].key = pool[i].key /\ pool[i].key \in Keys
      BY <1>4, <1>5, <2>2
    <3>2. gap[pool[i].key] <= HandlerTimeout
      BY <3>1 DEF IndInv, GapInv
    <3> QED
      BY <1>2, <1>3, <3>1, <3>2
  <2> QED
    BY <2>1, <2>2 DEF GapInv
<1>8. StepInv'
  <2>1. ASSUME NEW i \in 1..Slots, pool'[i].step \in Before
        PROVE  ~pool'[i].reached
    BY <1>4, <2>1, FreeIsNone DEF IndInv, StepInv
  <2> QED
    BY <2>1 DEF StepInv
<1>9. ShutdownKeepsRecords'
  <2>1. ASSUME NEW i \in 1..Slots
        PROVE  pool'[i].reached => pool[i].reached
    BY <1>4, FreeIsNone
  <2> QED
    BY <2>1 DEF IndInv, ShutdownKeepsRecords, Tick
<1>10. ASSUME NEW j \in 1..MaxInFlight, sends'[j] # NoSend
       PROVE  /\ sends[j] # NoSend /\ sends'[j] \in Sending
              /\ sends'[j].key = sends[j].key /\ sends'[j].age = sends[j].age + 1
              /\ sends[j].key \in Keys /\ sends[j].age \in 0..Channels
              /\ seen[sends[j].key] + sends[j].age >= TTL
  <2>1. sends[j] # NoSend /\ sends'[j] = Escalated([sends[j] EXCEPT !.age = @ + 1])
    BY <1>10 DEF Tick
  <2>2. sends[j] \in Sending
    BY <1>1, <2>1
  <2>3. seen[sends[j].key] + sends[j].age >= TTL
    BY <2>1 DEF IndInv, SendInv
  <2>4. sends[j].key \in Keys /\ sends[j].age \in 0..Channels
    BY <2>2 DEF Sending
  <2>5. sends'[j] \in Sending /\ sends'[j].key = sends[j].key /\ sends'[j].age = sends[j].age + 1
    BY <1>10, <2>1, <2>2, EscalatedShape
  <2> QED
    BY <2>1, <2>3, <2>4, <2>5
<1>11. SendInv'
  <2>1. ASSUME NEW j \in 1..MaxInFlight, sends'[j] # NoSend
        PROVE  seen'[sends'[j].key] + sends'[j].age >= TTL
    BY <1>2, <1>3, <1>10, <2>1
  <2> QED
    BY <1>10, <2>1, AgesKept DEF SendInv
<1>12. TypeOK'
  <2>1. pool' \in [1..Slots -> Handler \cup {Free}]
    <3>1. pool' = [i \in 1..Slots |-> pool'[i]]
      BY DEF Tick
    <3>2. \A i \in 1..Slots : pool'[i] \in Handler \cup {Free}
      BY <1>4
    <3> QED
      BY <3>1, <3>2
  <2>2. sends' \in [1..MaxInFlight -> Sending \cup {NoSend}]
    <3>1. sends' = [j \in 1..MaxInFlight |-> sends'[j]]
      BY DEF Tick
    <3>2. \A j \in 1..MaxInFlight :
             sends'[j] \in Sending \cup {NoSend}
      BY <1>10
    <3> QED
      BY <3>1, <3>2
  <2>3. seen' \in [Keys -> 0..TTL] /\ gap' \in [Keys -> 0..TTL]
    <3>1. \A k \in Keys : Less(seen[k]) \in 0..TTL /\ Less(gap[k]) \in 0..TTL
      BY <1>2, <1>3
    <3> QED
      BY <3>1 DEF Tick
  <2> QED
    BY <1>1, <2>1, <2>2, <2>3 DEF TypeOK, Tick
<1> QED
  BY <1>6, <1>7, <1>8, <1>9, <1>11, <1>12 DEF IndInv

(* The steps of the cluster and of the process.                              *)
LEMMA ProcessSteps ==
    ASSUME IndInv, \/ \E p \in Pods : StatusChange(p)
                   \/ Sigterm \/ WaitIdle \/ Exit \/ Crash \/ Start
    PROVE  IndInv'
<1>1. CASE \E p \in Pods : StatusChange(p)
  <2>1. TypeOK'
    BY <1>1 DEF IndInv, TypeOK, StatusChange
  <2> QED
    BY <1>1, <2>1 DEF IndInv, KeyInv, GapInv, StepInv, SendInv, OnePagePerFix,
                      ShutdownKeepsRecords, Live, StatusChange
<1>2. CASE Sigterm
  <2>1. TypeOK'
    BY <1>2 DEF IndInv, TypeOK, Sigterm
  <2> QED
    BY <1>2, <2>1 DEF IndInv, KeyInv, GapInv, StepInv, SendInv, OnePagePerFix,
                      ShutdownKeepsRecords, Live, Sigterm
<1>3. CASE WaitIdle
  <2>1. TypeOK'
    BY <1>3 DEF IndInv, TypeOK, WaitIdle
  <2>2. ShutdownKeepsRecords'
    BY <1>3, FreeIsNone DEF ShutdownKeepsRecords, WaitIdle, Idle
  <2> QED
    BY <1>3, <2>1, <2>2 DEF IndInv, KeyInv, GapInv, StepInv, SendInv, OnePagePerFix,
                            Live, WaitIdle
<1>4. ASSUME pool' = Idle, sends' = [j \in 1..MaxInFlight |-> NoSend],
             seen' = Quiet, gap' = Quiet,
             phase' \in {"up", "down"}, expired' \in BOOLEAN, status' = status
      PROVE  IndInv'
  <2>1. KeyInv' /\ StepInv' /\ GapInv' /\ SendInv'
    BY <1>4, KeysFree
  <2>2. ShutdownKeepsRecords'
    BY <1>4 DEF ShutdownKeepsRecords
  <2>3. pool' \in [1..Slots -> Handler \cup {Free}]
    BY <1>4 DEF Idle
  <2>4. Quiet \in [Keys -> 0..TTL]
    BY Periods DEF Quiet
  <2>5. seen' \in [Keys -> 0..TTL] /\ gap' \in [Keys -> 0..TTL]
    BY <1>4, <2>4 DEF IndInv, TypeOK
  <2>6. TypeOK'
    BY <1>4, <2>3, <2>5 DEF IndInv, TypeOK
  <2> QED
    BY <2>1, <2>2, <2>6 DEF IndInv
<1>5. CASE Exit
  BY <1>4, <1>5 DEF Exit, EmptyMemory
<1>6. CASE Crash
  BY <1>4, <1>6 DEF Crash, EmptyMemory
<1>7. CASE Start
  BY <1>4, <1>7 DEF Start, EmptyMemory
<1> QED
  BY <1>1, <1>2, <1>3, <1>5, <1>6, <1>7

-----------------------------------------------------------------------------
(* Theorems. *)

(* The invariant holds at the start, when every memory is empty.             *)
LEMMA IndInit == Init => IndInv
<1> SUFFICES ASSUME Init PROVE IndInv
  OBVIOUS
<1> USE Periods
<1>1. Quiet \in [Keys -> 0..TTL] /\ \A k \in Keys : Quiet[k] = 0
  BY DEF Quiet
<1>2. pool = [i \in 1..Slots |-> Free] /\ \A i \in 1..Slots : pool[i] = Free
  BY DEF Init, Idle
<1>3. TypeOK
  BY <1>1, <1>2, WatchAssumption DEF Init, TypeOK
<1>4. KeyInv /\ GapInv /\ StepInv
  BY <1>1, <1>2, FreeIsNone DEF Init, KeyInv, GapInv, StepInv, Live, Before
<1>5. SendInv /\ ShutdownKeepsRecords
  BY DEF Init, SendInv, OnePagePerFix, ShutdownKeepsRecords
<1> QED
  BY <1>3, <1>4, <1>5 DEF IndInv

(* Every step keeps it.                                                      *)
LEMMA IndNext == IndInv /\ [Next]_vars => IndInv'
<1> SUFFICES ASSUME IndInv, [Next]_vars PROVE IndInv'
  OBVIOUS
<1>1. ASSUME NEW p \in Pods, PodUpdate(p) PROVE IndInv'
  BY <1>1, PodUpdateStep
<1>2. ASSUME NEW i \in 1..Slots, HandlerStep(i) PROVE IndInv'
  BY <1>2, InPoolSteps, ApplyStep, AuditFailedStep DEF HandlerStep
<1>3. ASSUME NEW j \in 1..MaxInFlight, Escalate(j) PROVE IndInv'
  BY <1>3, EscalateStep
<1>4. CASE UNCHANGED vars
  BY <1>4 DEF vars, IndInv, TypeOK, KeyInv, GapInv, StepInv, SendInv, OnePagePerFix,
              ShutdownKeepsRecords, Live
<1> QED
  BY <1>1, <1>2, <1>3, <1>4, TickStep, ProcessSteps DEF Next

(* The inductive invariant, in every run of a node agent's watcher.          *)
THEOREM Invariance == Spec => []IndInv
<1>1. Init => IndInv
  BY IndInit
<1>2. IndInv /\ [Next]_vars => IndInv'
  BY IndNext
<1> QED
  BY <1>1, <1>2, PTL DEF Spec

(* Handlers, escalations and windows keep their shapes.                      *)
THEOREM TypeCorrect == Spec => []TypeOK
<1>1. IndInv => TypeOK
  BY DEF IndInv
<1> QED
  BY <1>1, Invariance, PTL

(* Once WaitIdle has seen no handler, no handler that reached the API server *)
(* is without its records when the logs are closed, whatever the informers   *)
(* deliver until then.                                                       *)
THEOREM RecordsKept == Spec => []ShutdownKeepsRecords
<1>1. IndInv => ShutdownKeepsRecords
  BY DEF IndInv
<1> QED
  BY <1>1, Invariance, PTL

(* However many handlers fail, and however slow the channels are: of the     *)
(* escalations under way for one workload and action, each began a TTL after *)
(* the one before it.                                                        *)
THEOREM OnePage == Spec => []OnePagePerFix
<1>1. IndInv => OnePagePerFix
  BY DEF IndInv, SendInv
<1> QED
  BY <1>1, Invariance, PTL

(* Between two deletions by one process under the same key lie TTL -         *)
(* HandlerTimeout ticks at least, for any number of slots and pods.  It says *)
(* nothing of a TTL that is not longer than the timeout of a handler.        *)
THEOREM NoStorm == Spec => NoDeleteStorm
<1>1. ASSUME IndInv, [Next]_vars, NEW i \in 1..Slots, pool[i].step = "gate",
             pool[i].fix = "delete_pod", pool'[i].reached
      PROVE  gap[pool[i].key] <= HandlerTimeout
  <2>1. pool \in [1..Slots -> Handler \cup {Free}] /\ ~pool[i].reached
    BY <1>1 DEF IndInv, TypeOK, StepInv, Before
  <2>2. CASE Apply(i)
    BY <1>1, <2>1, <2>2 DEF Apply, Alive, Live, IndInv, GapInv
  <2>3. CASE ~Apply(i)
    <3>1. CASE UNCHANGED vars
      BY <1>1, <2>1, <3>1 DEF vars
    <3>2. ASSUME NEW p \in Pods, PodUpdate(p) PROVE FALSE
      BY <1>1, <2>1, <3>2, FreeIsNone DEF PodUpdate, FreeSlots
    <3>3. ASSUME NEW j \in 1..Slots, HandlerStep(j) PROVE FALSE
      <4>1. CASE j = i
        <5>1. pool[i] \in Handler
          BY <1>1, <2>1, FreeIsNone
        <5>2. CASE Gather(i) \/ OpenPR(i) \/ Audit(i) \/ AuditFailed(i) \/ Tell(i)
          BY <1>1, <5>2 DEF Gather, OpenPR, Audit, AuditFailed, Tell, Step
        <5>3. CASE Withheld(i) \/ ApplyFails(i)
          <6>1. PICK to \in {"tell", "audit_failed"} :
                   pool' = [pool EXCEPT ![i] = [pool[i] EXCEPT !.step = to]]
            BY <5>3 DEF Withheld, ApplyFails, Step
          <6>2. pool'[i].reached = pool[i].reached
            BY <2>1, <5>1, <6>1 DEF Handler
          <6> QED
            BY <1>1, <2>1, <6>2
        <5> QED
          BY <2>3, <3>3, <4>1, <5>2, <5>3 DEF HandlerStep
      <4>2. CASE j # i
        <5>1. pool'[i] = pool[i]
          BY <2>1, <3>3, <4>2 DEF HandlerStep, Gather, Withheld, Apply,
             ApplyFails, OpenPR, Audit, AuditFailed, Tell, Step
        <5> QED
          BY <1>1, <2>1, <5>1
      <4> QED
        BY <4>1, <4>2
    <3>4. CASE Tick
      BY <1>1, <2>1, <3>4, FreeIsNone DEF Tick, Handler
    <3>5. CASE \/ \E j \in 1..MaxInFlight : Escalate(j)
               \/ \E p \in Pods : StatusChange(p)
               \/ Sigterm \/ WaitIdle
      BY <1>1, <2>1, <3>5 DEF Escalate, StatusChange, Sigterm, WaitIdle
    <3>6. CASE Exit \/ Crash \/ Start
      BY <1>1, <3>6, FreeIsNone DEF Exit, Crash, Start, EmptyMemory, Idle
    <3> QED
      BY <1>1, <3>1, <3>2, <3>3, <3>4, <3>5, <3>6 DEF Next
  <2> QED
    BY <2>2, <2>3
<1>2. IndInv /\ [Next]_vars =>
        [\A i \in 1..Slots :
            pool[i].step = "gate" /\ pool[i].fix = "delete_pod" /\ pool'[i].reached =>
                gap[pool[i].key] <= HandlerTimeout]_vars
  BY <1>1
<1> QED
  BY <1>2, Invariance, PTL DEF Spec, NoDeleteStorm
================================================================================
