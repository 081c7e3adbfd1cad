---------------------------- MODULE ApprovalsProofs ----------------------------
(***************************************************************************)
(* Proofs about Approvals, for any number of controllers, workers, ids and *)
(* changes and for any bounds.                                             *)
(***************************************************************************)
EXTENDS Approvals, TLAPS

--------------------------------------------------------------------------------
(* The operators on queues. *)

(* expireLocked keeps the shape of a queue and only turns pending items into *)
(* expired ones.                                                             *)
LEMMA ExpiredQueue ==
    ASSUME NEW q \in Queues, NEW now \in Nat
    PROVE  /\ Expired(q, now) \in Queues
           /\ \A id \in Ids :
                 /\ Expired(q, now)[id].change = q[id].change
                 /\ \/ Expired(q, now)[id] = q[id]
                    \/ q[id].state = "pending" /\ Expired(q, now)[id].state = "expired"
<1>1. ASSUME NEW id \in Ids
      PROVE  /\ Expired(q, now)[id] \in Item
             /\ Expired(q, now)[id].change = q[id].change
             /\ \/ Expired(q, now)[id] = q[id]
                \/ q[id].state = "pending" /\ Expired(q, now)[id].state = "expired"
  <2>1. q[id] \in Item
    BY DEF Queues
  <2>2. CASE id \in Overdue(q, now)
    BY <2>1, <2>2 DEF Expired, Overdue, Item, States, Decided
  <2>3. CASE id \notin Overdue(q, now)
    BY <2>1, <2>3 DEF Expired
  <2> QED BY <2>2, <2>3
<1> QED BY <1>1 DEF Expired, Queues

(* An identifier that is not queued has an item record too. *)
LEMMA NoItemType == NoItem \in Item
BY DEF NoItem, Item, States, Decided, NoChange, NoUser, NoResult

(* pruneLocked keeps the shape of a queue and drops decided items only. *)
LEMMA PrunedQueue ==
    ASSUME NEW q \in Queues, NEW p \in Pruned(q)
    PROVE  /\ p \in Queues
           /\ \A id \in Ids :
                 p[id] = q[id] \/ (q[id].state \in Decided /\ p[id] = NoItem)
<1>1. PICK D \in SUBSET DecidedIn(q) : p = Without(q, D)
  BY DEF Pruned, Droppable
<1> QED BY <1>1, NoItemType DEF Without, DecidedIn, Queues

(* The item that propose queues is an item. *)
LEMMA NewItemType ==
    ASSUME NEW r \in Request
    PROVE  /\ NewItem(r) \in Item
           /\ NewItem(r).state = "pending"
           /\ NewItem(r).change = r.change
<1>1. TTL \in Nat
  BY ApprovalsAssumption
<1> QED BY <1>1 DEF NewItem, Item, Request, States

(* The requests of propose, ApproveFix, RejectFix and recordResult are      *)
(* requests.                                                                 *)
LEMMA RequestType ==
    /\ NoRequest \in Request
    /\ \A ch \in Changes, now \in Nat : ProposeRequest(ch, now) \in Request
    /\ \A op \in {"approve", "reject"}, id \in Ids, u \in Users :
          DecideRequest(op, id, u) \in Request
    /\ \A id \in Ids, out \in Outcomes : RecordRequest(id, out) \in Request
BY DEF Request, NoRequest, ProposeRequest, DecideRequest, RecordRequest

(* A decision touches the state and the name of one item. *)
LEMMA DecideQueue ==
    ASSUME NEW q \in Queues, NEW id \in Ids, NEW s \in States, NEW u \in Users \cup {NoUser}
    PROVE  /\ Decide(q, id, s, u) \in Queues
           /\ Decide(q, id, s, u)[id].state = s
           /\ \A i \in Ids : Decide(q, id, s, u)[i].change = q[i].change
           /\ \A i \in Ids \ {id} : Decide(q, id, s, u)[i] = q[i]
BY DEF Decide, Queues, Item

(* A result touches the result of one item. *)
LEMMA WithResultQueue ==
    ASSUME NEW q \in Queues, NEW id \in Ids, NEW out \in Outcomes \cup {NoResult}
    PROVE  /\ WithResult(q, id, out) \in Queues
           /\ \A i \in Ids : /\ WithResult(q, id, out)[i].state = q[i].state
                            /\ WithResult(q, id, out)[i].change = q[i].change
BY DEF WithResult, Queues, Item

(* A controller starts with a queue: the empty one. *)
LEMMA EmptyQueueType == EmptyQueue \in Queues
BY NoItemType DEF EmptyQueue, Queues

--------------------------------------------------------------------------------
(* Type correctness. *)

ControlOK ==
    /\ mem \in [Controllers -> Queues]
    /\ mu \in [Controllers -> Workers \cup {NoWorker}]
    /\ pc \in [Workers -> {"idle", "lock", "load", "save", "apply"}]
    /\ req \in [Workers -> Request]
    /\ tries \in [Workers -> 0..MaxTries]
    /\ ver \in [Workers -> Nat]

(* Unlocking the mutex, with q in memory, keeps the types of memory, mutex   *)
(* and control.                                                              *)
LEMMA ReleaseType ==
    ASSUME TypeOK, NEW w \in Workers, NEW q \in Queues, NEW p \in {"idle", "apply"},
           Release(w, p, q)
    PROVE  /\ mem' \in [Controllers -> Queues]
           /\ mu' \in [Controllers -> Workers \cup {NoWorker}]
           /\ pc' \in [Workers -> {"idle", "lock", "load", "save", "apply"}]
           /\ tries' \in [Workers -> 0..MaxTries]
           /\ ver' \in [Workers -> Nat]
<1>1. Host[w] \in Controllers /\ 0 \in 0..MaxTries
  BY ApprovalsAssumption
<1>2. mem' \in [Controllers -> Queues]
  BY <1>1, EmptyQueueType DEF TypeOK, Release, Kept
<1>3. tries' \in [Workers -> 0..MaxTries]
  BY <1>1 DEF TypeOK, Release
<1> QED BY <1>1, <1>2, <1>3 DEF TypeOK, Release

(* So does returning to the caller. *)
LEMMA ReturnType ==
    ASSUME TypeOK, NEW w \in Workers, NEW q \in Queues, Return(w, q)
    PROVE  ControlOK'
<1>1. Release(w, "idle", q) /\ req' = [req EXCEPT ![w] = NoRequest]
  BY DEF Return
<1>2. req' \in [Workers -> Request]
  BY <1>1, RequestType DEF TypeOK
<1> QED BY <1>1, <1>2, ReleaseType DEF ControlOK

(* So does handing q to writeApprovals. *)
LEMMA WriteType ==
    ASSUME TypeOK, NEW w \in Workers, NEW q \in Queues, Write(w, q)
    PROVE  ControlOK'
BY ApprovalsAssumption DEF TypeOK, ControlOK, Write

(* A write whose answer was lost remains a write of a queue. *)
LEMMA AbandonType ==
    ASSUME TypeOK, NEW ws \in SUBSET Workers, Abandon(ws)
    PROVE  late' \subseteq [ver : Nat, items : Queues]
BY ApprovalsAssumption DEF TypeOK, Abandon

(* What a write commits to the ConfigMap is a queue. *)
LEMMA StoreType ==
    ASSUME TypeOK, NEW q \in Queues, Store(q)
    PROVE  store' \in Queues /\ version' \in Nat /\ stored' \in [Ids -> SUBSET States]
<1>1. \A id \in Ids : q[id].state \in States
  BY DEF Queues, Item
<1> QED BY <1>1 DEF TypeOK, Store

(* The controllers start well typed. *)
LEMMA TypeInit == Init => TypeOK
BY ApprovalsAssumption, EmptyQueueType, RequestType DEF Init, TypeOK

(* Every step of a request, of the store and of a crash keeps the types. *)
LEMMA TypeStep == TypeOK /\ RequestInv /\ [Next]_vars => TypeOK'
<1> SUFFICES ASSUME TypeOK, RequestInv, [Next]_vars PROVE TypeOK'
  OBVIOUS
<1>q. /\ store \in Queues
      /\ \A c \in Controllers : mem[c] \in Queues
      /\ clock \in Nat
      /\ Expired(store, clock) \in Queues
      /\ \A w \in Workers : Host[w] \in Controllers /\ Expired(store, req[w].now) \in Queues
  <2>1. \A w \in Workers : req[w].now \in Nat
    BY DEF TypeOK, Request
  <2>2. clock \in Nat
    BY ApprovalsAssumption DEF TypeOK
  <2> QED BY <2>1, <2>2, ExpiredQueue, ApprovalsAssumption DEF TypeOK
<1>1. ASSUME NEW w \in Workers, NEW r \in Request, Begin(w, r) PROVE TypeOK'
  BY <1>1 DEF TypeOK, Begin
<1>2. ASSUME NEW w \in Workers,
             BeginPropose(w) \/ BeginApprove(w) \/ BeginReject(w) PROVE TypeOK'
  <2>1. Rebuilds[Host[w]] \subseteq Changes /\ used \subseteq Ids
    BY ApprovalsAssumption DEF TypeOK
  <2> QED BY <1>1, <1>2, <1>q, <2>1, RequestType DEF BeginPropose, BeginApprove, BeginReject
<1>3. ASSUME NEW w \in Workers, Acquire(w) PROVE TypeOK'
  <2>1. Host[w] \in Controllers /\ 1 \in 0..MaxTries
    BY ApprovalsAssumption
  <2> QED BY <1>3, <2>1 DEF TypeOK, Acquire
<1>4. ASSUME NEW w \in Workers, ProposeStep(w) PROVE TypeOK'
  <2>1. ControlOK' /\ used' \subseteq Ids
    <3> DEFINE q == Expired(store, req[w].now)
    <3>1. q \in Queues /\ req[w] \in Request /\ used \subseteq Ids
      BY <1>q DEF TypeOK
    <3>2. CASE NoWrite(w, q)
      BY <3>1, <3>2, ReturnType DEF NoWrite
    <3>3. ASSUME NEW p \in Pruned(q), NoWrite(w, p) PROVE ControlOK' /\ used' \subseteq Ids
      BY <3>1, <3>3, PrunedQueue, ReturnType DEF NoWrite
    <3>4. ASSUME NEW p \in Pruned(q), NEW id \in Ids \ used,
                 Write(w, [p EXCEPT ![id] = NewItem(req[w])]),
                 used' = used \cup {id}
          PROVE  ControlOK' /\ used' \subseteq Ids
      <4>1. [p EXCEPT ![id] = NewItem(req[w])] \in Queues
        BY <3>1, PrunedQueue, NewItemType DEF Queues
      <4> QED BY <3>1, <3>4, <4>1, WriteType
    <3> QED BY <1>4, <3>2, <3>3, <3>4 DEF ProposeStep, Queued
  <2> QED BY <1>4, <2>1 DEF TypeOK, ControlOK, ProposeStep, Queued, Loading
<1>5. ASSUME NEW w \in Workers, ApproveStep(w) PROVE TypeOK'
  <2>1. ControlOK' /\ used' \subseteq Ids
    <3> DEFINE q == Expired(store, clock)
    <3>1. req[w].id \in Ids
      BY <1>5 DEF ApproveStep, Loading, RequestInv
    <3>2. used \subseteq Ids /\ req[w].user \in Users \cup {NoUser} /\ "approved" \in States
      BY DEF TypeOK, Request, States, Decided
    <3>3. CASE NoWrite(w, store) \/ NoWrite(w, q)
      BY <1>q, <3>2, <3>3, ReturnType DEF NoWrite
    <3>4. CASE /\ req[w].user \in Approvers
               /\ Write(w, Decide(q, req[w].id, "approved", req[w].user))
               /\ used' = used
      <4>1. req[w].user \in Users
        BY <3>4, ApprovalsAssumption
      <4>2. Decide(q, req[w].id, "approved", req[w].user) \in Queues
        BY <1>q, <3>1, <3>2, <4>1, DecideQueue
      <4> QED BY <3>2, <3>4, <4>2, WriteType
    <3> QED BY <1>5, <3>3, <3>4 DEF ApproveStep
  <2> QED BY <1>5, <2>1 DEF TypeOK, ControlOK, ApproveStep, Loading
<1>6. ASSUME NEW w \in Workers, RejectStep(w) PROVE TypeOK'
  <2>1. ControlOK' /\ used' \subseteq Ids
    <3> DEFINE q == Expired(store, clock)
    <3>1. req[w].id \in Ids
      BY <1>6 DEF RejectStep, Loading, RequestInv
    <3>2. used \subseteq Ids /\ req[w].user \in Users \cup {NoUser} /\ "rejected" \in States
      BY DEF TypeOK, Request, States, Decided
    <3>3. CASE NoWrite(w, store) \/ NoWrite(w, q)
      BY <1>q, <3>2, <3>3, ReturnType DEF NoWrite
    <3>4. CASE /\ Write(w, Decide(q, req[w].id, "rejected", req[w].user))
               /\ used' = used
      <4>2. Decide(q, req[w].id, "rejected", req[w].user) \in Queues
        BY <1>q, <3>1, <3>2, DecideQueue
      <4> QED BY <3>2, <3>4, <4>2, WriteType
    <3> QED BY <1>6, <3>3, <3>4 DEF RejectStep
  <2> QED BY <1>6, <2>1 DEF TypeOK, ControlOK, RejectStep, Loading
<1>7. ASSUME NEW w \in Workers, RecordStep(w) PROVE TypeOK'
  <2>1. ControlOK' /\ used' \subseteq Ids
    <3>1. req[w].id \in Ids
      BY <1>7 DEF RecordStep, Loading, RequestInv
    <3>2. used \subseteq Ids /\ req[w].result \in Outcomes \cup {NoResult}
      BY DEF TypeOK, Request
    <3>3. CASE NoWrite(w, store)
      BY <1>q, <3>2, <3>3, ReturnType DEF NoWrite
    <3>4. CASE /\ Write(w, WithResult(store, req[w].id, req[w].result))
               /\ used' = used
      <4>2. WithResult(store, req[w].id, req[w].result) \in Queues
        BY <1>q, <3>1, <3>2, WithResultQueue
      <4> QED BY <3>2, <3>4, <4>2, WriteType
    <3> QED BY <1>7, <3>3, <3>4 DEF RecordStep
  <2> QED BY <1>7, <2>1 DEF TypeOK, ControlOK, RecordStep, Loading
<1>8. ASSUME NEW w \in Workers, LoadFails(w) PROVE TypeOK'
  <2>1. ControlOK'
    BY <1>8, <1>q, ReturnType DEF LoadFails
  <2> QED BY <1>8, <2>1 DEF TypeOK, ControlOK, LoadFails
<1>9. ASSUME NEW w \in Workers, SaveOk(w) PROVE TypeOK'
  <2>1. store' \in Queues /\ version' \in Nat /\ stored' \in [Ids -> SUBSET States]
    BY <1>9, <1>q, StoreType DEF SaveOk, Current
  <2>2. ControlOK'
    <3>1. CASE Return(w, mem[Host[w]])
      BY <1>q, <3>1, ReturnType
    <3>2. CASE Release(w, "apply", mem[Host[w]]) /\ req' = req
      BY <1>q, <3>2, ReleaseType DEF TypeOK, ControlOK
    <3> QED BY <1>9, <3>1, <3>2 DEF SaveOk, Current
  <2> QED BY <1>9, <2>1, <2>2 DEF TypeOK, ControlOK, SaveOk, Current
<1>10. ASSUME NEW w \in Workers, SaveConflict(w) PROVE TypeOK'
  <2>1. ControlOK'
    <3>1. CASE Return(w, mem[Host[w]])
      BY <1>q, <3>1, ReturnType
    <3>2. CASE /\ tries[w] < MaxTries
               /\ pc' = [pc EXCEPT ![w] = "load"]
               /\ tries' = [tries EXCEPT ![w] = @ + 1]
               /\ ver' = [ver EXCEPT ![w] = 0]
               /\ UNCHANGED <<mem, mu, req>>
      <4>1. tries[w] + 1 \in 0..MaxTries
        BY <3>2, ApprovalsAssumption DEF TypeOK
      <4> QED BY <3>2, <4>1 DEF TypeOK, ControlOK
    <3> QED BY <1>10, <3>1, <3>2 DEF SaveConflict, Current, MayRetry
  <2> QED BY <1>10, <2>1 DEF TypeOK, ControlOK, SaveConflict, Current, MayRetry
<1>11. ASSUME NEW w \in Workers, SaveFails(w) PROVE TypeOK'
  <2>1. ControlOK'
    BY <1>11, <1>q, ReturnType DEF SaveFails
  <2>2. late' \subseteq [ver : Nat, items : Queues]
    BY <1>11, AbandonType DEF SaveFails
  <2> QED BY <1>11, <2>1, <2>2 DEF TypeOK, ControlOK, SaveFails
<1>12. ASSUME LateWrite PROVE TypeOK'
  <2>1. PICK l \in late :
           /\ late' = late \ {l}
           /\ IF l.ver = version THEN Store(l.items) ELSE UNCHANGED <<store, version, stored>>
           /\ UNCHANGED <<clock, mem, mu, pc, req, tries, ver, used, applied>>
    BY <1>12 DEF LateWrite, Current
  <2>2. l.items \in Queues
    BY DEF TypeOK
  <2>3. store' \in Queues /\ version' \in Nat /\ stored' \in [Ids -> SUBSET States]
    BY <2>1, <2>2, StoreType DEF TypeOK
  <2> QED BY <2>1, <2>3 DEF TypeOK
<1>13. ASSUME NEW w \in Workers, Apply(w) PROVE TypeOK'
  <2>1. PICK out \in Outcomes :
           /\ applied' = IF out \in ApplyCalled
                         THEN [applied EXCEPT ![req[w].id] = @ + 1] ELSE applied
           /\ req' = [req EXCEPT ![w] = RecordRequest(req[w].id, out)]
    BY <1>13 DEF Apply
  <2>2. req[w].id \in Ids \cup {NoId}
    BY DEF TypeOK, Request
  <2>3. RecordRequest(req[w].id, out) \in Request
    BY <2>2 DEF RecordRequest, Request
  <2>4. applied' \in [Ids -> Nat]
    <3>1. CASE req[w].id \in Ids
      BY <2>1, <3>1 DEF TypeOK
    <3>2. CASE req[w].id \notin Ids
      BY <2>1, <3>2 DEF TypeOK
    <3> QED BY <3>1, <3>2
  <2> QED BY <1>13, <2>1, <2>3, <2>4 DEF TypeOK, Apply
<1>14. ASSUME NEW c \in Controllers, List(c) PROVE TypeOK'
  <2>1. PICK q \in {store, mem[c]} : mem' = [mem EXCEPT ![c] = Expired(q, clock)]
    BY <1>14 DEF List
  <2>2. Expired(q, clock) \in Queues
    BY <1>q, ExpiredQueue
  <2> QED BY <1>14, <2>1, <2>2 DEF TypeOK, List
<1>15. ASSUME NEW c \in Controllers, Crash(c) PROVE TypeOK'
  <2>1. late' \subseteq [ver : Nat, items : Queues]
    BY <1>15, AbandonType DEF Crash
  <2>2. ControlOK'
    BY <1>15, EmptyQueueType, RequestType, ApprovalsAssumption DEF TypeOK, ControlOK, Crash
  <2> QED BY <1>15, <2>1, <2>2 DEF TypeOK, ControlOK, Crash
<1>16. ASSUME Tick PROVE TypeOK'
  BY <1>16, ApprovalsAssumption DEF TypeOK, Tick
<1>17. CASE UNCHANGED vars
  BY <1>17 DEF TypeOK, vars
<1> QED
  BY <1>2, <1>3, <1>4, <1>5, <1>6, <1>7, <1>8, <1>9, <1>10, <1>11, <1>12, <1>13,
     <1>14, <1>15, <1>16, <1>17 DEF Next, Load, Save

--------------------------------------------------------------------------------
(* What a step may write. *)

(* The stored queue itself, with what expired, may always be written back. *)
LEMMA ExpiredFollows ==
    ASSUME TypeOK, StoredInv, NEW now \in Nat
    PROVE  Follows(Expired(store, now)) /\ Follows(store)
<1>1. store \in Queues
  BY DEF TypeOK
<1>2. \A id \in Ids : store[id].state \in States
  BY <1>1 DEF Queues, Item
<1>3. \A id \in Ids : store[id].state # "absent" => id \in used
  BY <1>1 DEF StoredInv
<1> QED BY <1>1, <1>2, <1>3, ExpiredQueue DEF Follows, States, Decided

(* So may it be after a decision about an item that is pending in it. *)
LEMMA DecideFollows ==
    ASSUME TypeOK, StoredInv, NEW now \in Nat, NEW id \in Ids,
           NEW s \in {"approved", "rejected"}, NEW u \in Users \cup {NoUser},
           Expired(store, now)[id].state = "pending"
    PROVE  /\ Follows(Decide(Expired(store, now), id, s, u))
           /\ store[id].state = "pending"
           /\ Decide(Expired(store, now), id, s, u)[id].state = s
<1> DEFINE q == Expired(store, now)
           d == Decide(q, id, s, u)
<1>1. store \in Queues /\ q \in Queues /\ s \in States
  BY ExpiredQueue DEF TypeOK, States, Decided
<1>2. store[id].state = "pending"
  BY <1>1, ExpiredQueue
<1>3. d[id].state = s /\ \A i \in Ids \ {id} : d[i] = q[i]
  BY <1>1, DecideQueue
<1>4. Follows(q)
  BY ExpiredFollows
<1>5. id \in used
  BY <1>2 DEF StoredInv
<1>6. ASSUME NEW i \in Ids
      PROVE  /\ d[i].state = "pending" => store[i].state = "pending" \/ stored[i] = {}
             /\ d[i].state \in Decided => store[i].state \in {"pending", d[i].state}
             /\ d[i].state # "absent" => i \in used
  <2>1. CASE i = id
    BY <1>2, <1>3, <1>5, <2>1
  <2>2. CASE i # id
    BY <1>3, <1>4, <2>2 DEF Follows
  <2> QED BY <2>1, <2>2
<1> QED BY <1>2, <1>3, <1>6 DEF Follows

(* A committed write keeps every decision that was stored before. *)
LEMMA StoreKeeps ==
    ASSUME TypeOK, StoredInv, OneDecision, NEW q \in Queues, Follows(q),
           Store(q), used' = used
    PROVE  /\ StoredInv'
           /\ OneDecision'
           /\ version' = version + 1
           /\ \A id \in Ids : stored[id] \subseteq stored'[id]
           /\ \A id \in Ids : q[id].state # "absent" => q[id].state \in stored'[id]
<1>1. ASSUME NEW id \in Ids
      PROVE  /\ stored'[id] = stored[id] \cup ({q[id].state} \ {"absent"})
             /\ store'[id] = q[id]
             /\ q[id].state \in States
             /\ stored[id] \subseteq States
  BY DEF Store, TypeOK, Queues, Item
<1>2. ASSUME NEW id \in Ids
      PROVE  /\ store'[id].state # "absent" => store'[id].state \in stored'[id]
             /\ store'[id].state = "pending" => stored'[id] \cap Decided = {}
             /\ stored'[id] # {} => id \in used'
  <2>1. store'[id].state = "pending" => stored'[id] \cap Decided = {}
    <3> HAVE store'[id].state = "pending"
    <3>1. stored[id] \cap Decided = {}
      BY <1>1 DEF Follows, StoredInv
    <3> QED BY <1>1, <3>1 DEF Decided
  <2>2. stored'[id] # {} => id \in used'
    BY <1>1 DEF Follows, StoredInv
  <2> QED BY <1>1, <2>1, <2>2
<1>3. ASSUME NEW id \in Ids, NEW s \in stored'[id] \cap Decided, NEW t \in stored'[id] \cap Decided
      PROVE  s = t
  <2>1. CASE q[id].state \notin Decided
    BY <1>1, <2>1 DEF OneDecision, Decided
  <2>2. CASE q[id].state \in Decided
    <3>1. stored[id] \cap Decided \subseteq {q[id].state}
      <4>1. CASE store[id].state = "pending"
        BY <4>1 DEF StoredInv
      <4>2. CASE store[id].state = q[id].state
        <5>1. q[id].state \in stored[id]
          BY <2>2, <4>2 DEF StoredInv, Decided
        <5> QED BY <2>2, <5>1 DEF OneDecision
      <4> QED BY <2>2, <4>1, <4>2 DEF Follows
    <3> QED BY <1>1, <3>1
  <2> QED BY <2>1, <2>2
<1> QED BY <1>1, <1>2, <1>3 DEF StoredInv, OneDecision, Store

--------------------------------------------------------------------------------
(* Steps that leave the store and the history alone. *)

WriteOK(w) ==
    /\ ver[w] <= version
    /\ ver[w] = version =>
          /\ Follows(mem[Host[w]])
          /\ req[w].op = "approve" => /\ store[req[w].id].state = "pending"
                                     /\ mem[Host[w]][req[w].id].state = "approved"

(* No worker gains the right to apply, every write in progress is an old or  *)
(* a legal new one, and late writes come from writes in progress.            *)
Quiet ==
    /\ UNCHANGED <<store, version, stored, applied>>
    /\ used \subseteq used'
    /\ RequestInv' /\ MutexInv'
    /\ \A w \in Workers : pc'[w] = "apply" => pc[w] = "apply" /\ req'[w] = req[w]
    /\ \A w \in Workers : pc'[w] = "save" =>
          \/ /\ pc[w] = "save" /\ ver'[w] = ver[w] /\ req'[w] = req[w]
             /\ mem'[Host[w]] = mem[Host[w]]
          \/ pc[w] = "load" /\ WriteOK(w)'
    /\ \A l \in late' :
          \/ l \in late
          \/ \E w \in Workers : pc[w] = "save" /\ l = [ver |-> ver[w], items |-> mem[Host[w]]]

(* A step that commits and applies nothing keeps the invariant, if what it   *)
(* is about to write follows from what is stored.                            *)
LEMMA QuietStep == IndInv /\ TypeOK' /\ Quiet => IndInv'
<1> SUFFICES ASSUME IndInv, TypeOK', Quiet PROVE IndInv'
  OBVIOUS
<1>1. \A q : Follows(q) => Follows(q)'
  BY DEF Follows, Quiet
<1>2. StoredInv' /\ AtMostOnce' /\ OneDecision'
  BY DEF IndInv, Quiet, StoredInv, AtMostOnce, OneDecision
<1>3. TokenInv'
  BY DEF IndInv, Quiet, TokenInv
<1>4. \A w \in Workers : pc[w] = "save" => WriteOK(w)
  BY DEF IndInv, WriteInv, WriteOK
<1>5. WriteInv'
  <2> SUFFICES ASSUME NEW w \in Workers, pc'[w] = "save" PROVE WriteOK(w)'
    BY DEF WriteInv, WriteOK
  <2>1. CASE /\ pc[w] = "save" /\ ver'[w] = ver[w] /\ req'[w] = req[w]
             /\ mem'[Host[w]] = mem[Host[w]]
    BY <1>1, <1>4, <2>1 DEF WriteOK, Quiet
  <2> QED BY <2>1 DEF Quiet
<1>6. LateInv'
  <2> SUFFICES ASSUME NEW l \in late'
               PROVE  l.ver <= version' /\ (l.ver = version' => Follows(l.items)')
    BY DEF LateInv
  <2>1. CASE l \in late
    BY <1>1, <2>1 DEF IndInv, LateInv, Quiet
  <2>2. ASSUME NEW w \in Workers, pc[w] = "save", l = [ver |-> ver[w], items |-> mem[Host[w]]]
        PROVE  l.ver <= version' /\ (l.ver = version' => Follows(l.items)')
    BY <1>1, <1>4, <2>2 DEF WriteOK, Quiet
  <2> QED BY <2>1, <2>2 DEF Quiet
<1> QED BY <1>2, <1>3, <1>5, <1>6 DEF IndInv, Quiet

(* The mutex: no two workers of a controller work on its memory. *)
LEMMA OneHolder ==
    ASSUME MutexInv, NEW v \in Workers, NEW w \in Workers, v # w,
           pc[v] \in {"load", "save"}, mu[Host[w]] = w
    PROVE  Host[v] # Host[w]
BY DEF MutexInv

(* Releasing the mutex disturbs no other worker. *)
LEMMA ReleaseControl ==
    ASSUME IndInv, NEW w \in Workers, NEW p \in {"idle", "apply"}, NEW q,
           pc[w] \in {"load", "save"}, Release(w, p, q)
    PROVE  /\ MutexInv'
           /\ pc'[w] = p
           /\ \A v \in Workers \ {w} :
                /\ pc'[v] = pc[v] /\ ver'[v] = ver[v]
                /\ pc[v] = "save" => mem'[Host[v]] = mem[Host[v]]
<1>1. TypeOK /\ MutexInv /\ mu[Host[w]] = w
  BY DEF IndInv, MutexInv
<1>2. \A v \in Workers : Host[v] \in Controllers
  BY ApprovalsAssumption
<1>3. \A v \in Workers \ {w} : pc[v] \in {"load", "save"} => Host[v] # Host[w]
  BY <1>1, OneHolder
<1>4. /\ pc' = [pc EXCEPT ![w] = p]
      /\ mu' = [mu EXCEPT ![Host[w]] = NoWorker]
      /\ ver' = [ver EXCEPT ![w] = 0]
      /\ \E x : mem' = [mem EXCEPT ![Host[w]] = x]
  BY DEF Release, Kept
<1>5. pc'[w] = p /\ \A v \in Workers \ {w} : pc'[v] = pc[v] /\ ver'[v] = ver[v]
  BY <1>1, <1>4 DEF TypeOK
<1>6. ASSUME NEW v \in Workers, pc'[v] \in {"load", "save"} PROVE mu'[Host[v]] = v
  <2>1. v # w
    BY <1>5, <1>6
  <2>2. pc[v] \in {"load", "save"} /\ Host[v] # Host[w]
    BY <1>3, <1>5, <1>6, <2>1
  <2> QED BY <1>1, <1>2, <1>4, <2>2 DEF TypeOK, MutexInv
<1>7. \A v \in Workers \ {w} : pc[v] = "save" => mem'[Host[v]] = mem[Host[v]]
  BY <1>1, <1>2, <1>3, <1>4 DEF TypeOK
<1> QED BY <1>5, <1>6, <1>7 DEF MutexInv

(* Returning to the caller is such a step. *)
LEMMA ReturnQuiet ==
    ASSUME IndInv, NEW w \in Workers, NEW q,
           pc[w] \in {"load", "save"}, Return(w, q),
           UNCHANGED <<store, version, stored, applied>>, used \subseteq used',
           late' = late \/ Abandon({w})
    PROVE  Quiet
<1>1. Release(w, "idle", q) /\ req' = [req EXCEPT ![w] = NoRequest]
  BY DEF Return
<1>2. /\ MutexInv'
      /\ pc'[w] = "idle"
      /\ \A v \in Workers \ {w} :
           /\ pc'[v] = pc[v] /\ ver'[v] = ver[v]
           /\ pc[v] = "save" => mem'[Host[v]] = mem[Host[v]]
  BY <1>1, ReleaseControl
<1>3. req'[w] = NoRequest /\ \A v \in Workers \ {w} : req'[v] = req[v]
  BY <1>1 DEF IndInv, TypeOK
<1>4. RequestInv'
  BY <1>3 DEF IndInv, RequestInv, NoRequest
<1>5. \A l \in late' :
          \/ l \in late
          \/ \E v \in Workers : pc[v] = "save" /\ l = [ver |-> ver[v], items |-> mem[Host[v]]]
  BY DEF Abandon
<1> QED BY <1>2, <1>3, <1>4, <1>5 DEF Quiet

(* Follows after a step that leaves the store alone and may draw an id. *)
FollowsNext(q) ==
    \A id \in Ids :
        /\ q[id].state = "pending" => store[id].state = "pending" \/ stored[id] = {}
        /\ q[id].state \in Decided => store[id].state \in {"pending", q[id].state}
        /\ q[id].state # "absent" => id \in used'

(* So is handing a queue to writeApprovals that follows from the one read. *)
LEMMA WriteQuiet ==
    ASSUME IndInv, NEW w \in Workers, NEW q \in Queues,
           pc[w] = "load", Write(w, q),
           UNCHANGED <<store, version, stored, applied, late>>, used \subseteq used',
           FollowsNext(q),
           req[w].op = "approve" =>
              store[req[w].id].state = "pending" /\ q[req[w].id].state = "approved"
    PROVE  Quiet
<1>1. TypeOK /\ MutexInv /\ mu[Host[w]] = w
  BY DEF IndInv, MutexInv
<1>2. \A v \in Workers : Host[v] \in Controllers
  BY ApprovalsAssumption
<1>3. /\ pc'[w] = "save" /\ ver'[w] = version /\ mem'[Host[w]] = q
      /\ \A v \in Workers \ {w} : pc'[v] = pc[v] /\ ver'[v] = ver[v]
  BY <1>1, <1>2 DEF Write, TypeOK
<1>4. \A v \in Workers \ {w} : pc[v] = "save" => mem'[Host[v]] = mem[Host[v]]
  BY <1>1, <1>2, OneHolder DEF Write, TypeOK
<1>5. MutexInv'
  BY <1>1, <1>3 DEF MutexInv, Write
<1>6. RequestInv'
  BY DEF IndInv, RequestInv, Write
<1>7. req' = req /\ version' = version /\ version \in Nat
  BY <1>1 DEF Write, TypeOK
<1>8. WriteOK(w)'
  <2>1. Follows(q)'
    BY DEF Follows, FollowsNext
  <2> QED BY <1>3, <1>7, <2>1 DEF WriteOK
<1> QED BY <1>3, <1>4, <1>5, <1>6, <1>7, <1>8 DEF Quiet

--------------------------------------------------------------------------------
(* The inductive step. *)

(* A committed write: every other write in progress is now out of date. *)
LEMMA CommitStep ==
    ASSUME IndInv, NEW q \in Queues, Follows(q), Store(q), used' = used,
           late' \subseteq late,
           \A w \in Workers : pc'[w] = "save" => pc[w] = "save" /\ ver'[w] = ver[w]
    PROVE  /\ StoredInv' /\ OneDecision' /\ WriteInv' /\ LateInv'
           /\ \A id \in Ids : stored[id] \subseteq stored'[id]
           /\ \A id \in Ids : q[id].state # "absent" => q[id].state \in stored'[id]
<1>1. /\ StoredInv' /\ OneDecision' /\ version' = version + 1
      /\ \A id \in Ids : stored[id] \subseteq stored'[id]
      /\ \A id \in Ids : q[id].state # "absent" => q[id].state \in stored'[id]
  BY StoreKeeps DEF IndInv
<1>2. version \in Nat /\ ver \in [Workers -> Nat] /\ \A l \in late : l.ver \in Nat
  BY DEF IndInv, TypeOK
<1>3. \A w \in Workers : pc'[w] = "save" => ver'[w] <= version
  BY DEF IndInv, WriteInv
<1>4. WriteInv'
  BY <1>1, <1>2, <1>3 DEF WriteInv
<1>5. LateInv'
  BY <1>1, <1>2 DEF IndInv, LateInv
<1> QED BY <1>1, <1>4, <1>5

(* A write that commits, by ApproveFix or any other request, keeps the       *)
(* invariant: a stored approval gives its worker, and no other, the right    *)
(* to apply.                                                                 *)
LEMMA SaveOkStep ==
    ASSUME IndInv, TypeOK', NEW w \in Workers, SaveOk(w)
    PROVE  IndInv'
<1> DEFINE q == mem[Host[w]]
           id == req[w].id
<1>1. /\ pc[w] = "save" /\ ver[w] = version /\ Store(q)
      /\ UNCHANGED <<clock, late, used, applied>>
  BY DEF SaveOk, Current
<1>2. q \in Queues
  BY ApprovalsAssumption DEF IndInv, TypeOK
<1>3. /\ Follows(q)
      /\ req[w].op = "approve" => store[id].state = "pending" /\ q[id].state = "approved"
  BY <1>1 DEF IndInv, WriteInv
<1>4. PICK p \in {"idle", "apply"} :
        /\ Release(w, p, q)
        /\ p = "apply" => req[w].op = "approve" /\ req' = req
        /\ p = "idle" => req' = [req EXCEPT ![w] = NoRequest]
  BY DEF SaveOk, Current, Return
<1>5. /\ MutexInv'
      /\ pc'[w] = p
      /\ \A v \in Workers \ {w} : pc'[v] = pc[v] /\ ver'[v] = ver[v]
  BY <1>1, <1>4, ReleaseControl
<1>6. /\ StoredInv' /\ OneDecision' /\ WriteInv' /\ LateInv'
      /\ \A i \in Ids : stored[i] \subseteq stored'[i]
      /\ \A i \in Ids : q[i].state # "absent" => q[i].state \in stored'[i]
  BY <1>1, <1>2, <1>3, <1>5, CommitStep
<1>7. \A v \in Workers \ {w} : req'[v] = req[v]
  BY <1>4 DEF IndInv, TypeOK
<1>8. RequestInv'
  BY <1>4, <1>7 DEF IndInv, TypeOK, RequestInv, NoRequest
<1>9. TokenInv'
  <2>1. \A v \in Workers : req[v].op = "approve" => req[v].id \in Ids
    BY DEF IndInv, RequestInv
  <2>2. \A v \in Workers \ {w} : pc'[v] = "apply" =>
           /\ req'[v].op = "approve" /\ req'[v] = req[v] /\ pc[v] = "apply"
           /\ "approved" \in stored[req[v].id] /\ "approved" \in stored'[req[v].id]
           /\ applied'[req[v].id] = 0
    BY <1>1, <1>5, <1>6, <1>7, <2>1 DEF IndInv, TokenInv
  <2>3. pc'[w] = "apply" =>
           /\ req'[w] = req[w] /\ req[w].op = "approve" /\ id \in Ids
           /\ "approved" \notin stored[id] /\ "approved" \in stored'[id]
    <3> HAVE pc'[w] = "apply"
    <3>1. req'[w] = req[w] /\ req[w].op = "approve" /\ id \in Ids
      BY <1>4, <1>5, <2>1
    <3>2. store[id].state = "pending" /\ q[id].state = "approved"
      BY <1>3, <3>1
    <3>3. "approved" \notin stored[id]
      BY <3>1, <3>2 DEF IndInv, StoredInv, Decided
    <3> QED BY <1>6, <3>1, <3>2, <3>3
  <2>4. pc'[w] = "apply" => applied'[id] = 0
    BY <1>1, <2>3 DEF IndInv, TokenInv, TypeOK
  <2>5. \A i \in Ids : applied'[i] > 0 => "approved" \in stored'[i]
    BY <1>1, <1>6 DEF IndInv, TokenInv
  <2>6. \A v \in Workers : pc'[v] = "apply" =>
           /\ req'[v].op = "approve"
           /\ "approved" \in stored'[req'[v].id]
           /\ applied'[req'[v].id] = 0
    BY <2>2, <2>3, <2>4
  <2>7. \A u, v \in Workers :
          pc'[u] = "apply" /\ pc'[v] = "apply" /\ req'[u].id = req'[v].id => u = v
    BY <2>2, <2>3 DEF IndInv, TokenInv
  <2> QED BY <2>5, <2>6, <2>7 DEF TokenInv
<1>10. AtMostOnce'
  BY <1>1 DEF IndInv, AtMostOnce
<1> QED BY <1>5, <1>6, <1>8, <1>9, <1>10 DEF IndInv

(* So does a write that arrives after its caller gave up on it. *)
LEMMA LateWriteStep ==
    ASSUME IndInv, TypeOK', LateWrite
    PROVE  IndInv'
<1>1. PICK l \in late :
        /\ late' = late \ {l}
        /\ IF l.ver = version THEN Store(l.items) ELSE UNCHANGED <<store, version, stored>>
        /\ UNCHANGED <<clock, mem, mu, pc, req, tries, ver, used, applied>>
  BY DEF LateWrite, Current
<1>2. RequestInv' /\ MutexInv' /\ AtMostOnce'
  BY <1>1 DEF IndInv, RequestInv, MutexInv, AtMostOnce
<1>3. CASE l.ver = version
  <2>1. l.items \in Queues /\ Follows(l.items)
    BY <1>3 DEF IndInv, TypeOK, LateInv
  <2>2. /\ StoredInv' /\ OneDecision' /\ WriteInv' /\ LateInv'
        /\ \A i \in Ids : stored[i] \subseteq stored'[i]
    BY <1>1, <1>3, <2>1, CommitStep
  <2>3. \A v \in Workers : req[v].op = "approve" => req[v].id \in Ids
    BY DEF IndInv, RequestInv
  <2>4. TokenInv'
    BY <1>1, <2>2, <2>3 DEF IndInv, TokenInv
  <2> QED BY <1>2, <2>2, <2>4 DEF IndInv
<1>4. CASE l.ver # version
  <2>1. Quiet
    BY <1>1, <1>2, <1>4 DEF Quiet
  <2> QED BY <2>1, QuietStep
<1> QED BY <1>3, <1>4

(* ApproveFix carrying out the change uses that right up. *)
LEMMA ApplyStep ==
    ASSUME IndInv, TypeOK', NEW w \in Workers, Apply(w)
    PROVE  IndInv'
<1>1. PICK out \in Outcomes :
        /\ applied' = IF out \in ApplyCalled
                      THEN [applied EXCEPT ![req[w].id] = @ + 1] ELSE applied
        /\ req' = [req EXCEPT ![w] = RecordRequest(req[w].id, out)]
  BY DEF Apply
<1>2. /\ pc[w] = "apply" /\ pc' = [pc EXCEPT ![w] = "lock"]
      /\ UNCHANGED <<clock, store, version, mem, mu, tries, ver, late, used, stored>>
  BY DEF Apply
<1>3. /\ req[w].op = "approve" /\ req[w].id \in Ids
      /\ "approved" \in stored[req[w].id] /\ applied[req[w].id] = 0
  BY <1>2 DEF IndInv, TokenInv, RequestInv
<1>4. /\ pc'[w] = "lock" /\ req'[w].op = "record" /\ req'[w].id = req[w].id
      /\ \A v \in Workers \ {w} : pc'[v] = pc[v] /\ req'[v] = req[v]
  BY <1>1, <1>2 DEF IndInv, TypeOK, RecordRequest
<1>5. /\ applied'[req[w].id] \in {0, 1}
      /\ \A i \in Ids \ {req[w].id} : applied'[i] = applied[i]
  BY <1>1, <1>3 DEF IndInv, TypeOK
<1>6. RequestInv' /\ MutexInv'
  BY <1>2, <1>3, <1>4 DEF IndInv, RequestInv, MutexInv
<1>7. StoredInv' /\ OneDecision' /\ LateInv'
  BY <1>2 DEF IndInv, StoredInv, OneDecision, LateInv, Follows
<1>8. WriteInv'
  <2>1. \A q : Follows(q) => Follows(q)'
    BY <1>2 DEF Follows
  <2> QED BY <1>2, <1>4, <2>1 DEF IndInv, WriteInv
<1>9. AtMostOnce'
  BY <1>5 DEF IndInv, AtMostOnce
<1>10. \A v \in Workers : pc'[v] = "apply" =>
          v # w /\ pc[v] = "apply" /\ req'[v] = req[v] /\ req[v].id \in Ids \ {req[w].id}
  BY <1>2, <1>4 DEF IndInv, TokenInv, RequestInv
<1>11. TokenInv'
  <2>1. \A v \in Workers : pc'[v] = "apply" =>
           /\ req'[v].op = "approve"
           /\ "approved" \in stored'[req'[v].id]
           /\ applied'[req'[v].id] = 0
    BY <1>2, <1>5, <1>10 DEF IndInv, TokenInv
  <2>2. \A u, v \in Workers :
          pc'[u] = "apply" /\ pc'[v] = "apply" /\ req'[u].id = req'[v].id => u = v
    BY <1>10 DEF IndInv, TokenInv
  <2>3. \A i \in Ids : applied'[i] > 0 => "approved" \in stored'[i]
    BY <1>2, <1>3, <1>5 DEF IndInv, TokenInv
  <2> QED BY <2>1, <2>2, <2>3 DEF TokenInv
<1> QED BY <1>6, <1>7, <1>8, <1>9, <1>11 DEF IndInv

(* Every step but a committed write and a call of Apply is such a step. *)
LEMMA QuietSteps ==
    ASSUME IndInv, [Next]_vars, ~LateWrite, \A w \in Workers : ~SaveOk(w) /\ ~Apply(w)
    PROVE  Quiet
<1>t. TypeOK /\ RequestInv /\ TypeOK'
  BY TypeStep DEF IndInv
<1>h. \A w \in Workers : Host[w] \in Controllers /\ mem[Host[w]] \in Queues
  BY <1>t, ApprovalsAssumption DEF TypeOK
<1>n. clock \in Nat /\ store \in Queues /\ \A w \in Workers : req[w] \in Request /\ req[w].now \in Nat
  BY <1>t, ApprovalsAssumption DEF TypeOK, Request
<1>1. ASSUME NEW w \in Workers, NEW r \in Request, Begin(w, r),
             r.op \in {"approve", "reject", "record"} => r.id \in Ids
      PROVE  Quiet
  <2>1. /\ pc[w] = "idle" /\ pc'[w] = "lock" /\ req'[w] = r
        /\ \A v \in Workers \ {w} : pc'[v] = pc[v] /\ req'[v] = req[v]
        /\ UNCHANGED <<clock, store, version, mem, mu, tries, ver, late, used, applied, stored>>
    BY <1>1, <1>t DEF Begin, TypeOK
  <2>2. RequestInv' /\ MutexInv'
    BY <1>1, <2>1 DEF IndInv, RequestInv, MutexInv
  <2> QED BY <2>1, <2>2 DEF Quiet
<1>2. ASSUME NEW w \in Workers,
             BeginPropose(w) \/ BeginApprove(w) \/ BeginReject(w) PROVE Quiet
  <2>1. Rebuilds[Host[w]] \subseteq Changes /\ used \subseteq Ids
    BY <1>t, <1>h, ApprovalsAssumption DEF TypeOK
  <2>2. /\ \A ch \in Changes : /\ ProposeRequest(ch, clock) \in Request
                               /\ ProposeRequest(ch, clock).op = "propose"
        /\ \A op \in {"approve", "reject"}, id \in Ids, u \in Users :
              DecideRequest(op, id, u) \in Request /\ DecideRequest(op, id, u).id = id
    BY <1>n, RequestType DEF ProposeRequest, DecideRequest
  <2> QED BY <1>1, <1>2, <2>1, <2>2 DEF BeginPropose, BeginApprove, BeginReject
<1>3. ASSUME NEW w \in Workers, Acquire(w) PROVE Quiet
  <2>1. /\ pc[w] = "lock" /\ mu[Host[w]] = NoWorker
        /\ pc'[w] = "load" /\ mu'[Host[w]] = w
        /\ \A v \in Workers \ {w} : pc'[v] = pc[v]
        /\ \A v \in Workers : Host[v] # Host[w] => mu'[Host[v]] = mu[Host[v]]
        /\ UNCHANGED <<clock, store, version, mem, req, ver, late, used, applied, stored>>
    BY <1>3, <1>t, <1>h DEF Acquire, TypeOK
  <2>2. MutexInv'
    BY <2>1, ApprovalsAssumption DEF IndInv, MutexInv
  <2>3. RequestInv'
    BY <2>1 DEF IndInv, RequestInv
  <2> QED BY <2>1, <2>2, <2>3 DEF Quiet
<1>4. ASSUME NEW w \in Workers, ProposeStep(w) PROVE Quiet
  <2> DEFINE q == Expired(store, req[w].now)
  <2>1. /\ pc[w] = "load" /\ req[w].op = "propose"
        /\ UNCHANGED <<store, version, late, applied, stored>>
    BY <1>4 DEF ProposeStep, Queued, Loading
  <2>2. q \in Queues /\ Follows(q)
    BY <1>n, ExpiredQueue, ExpiredFollows DEF IndInv
  <2>3. CASE NoWrite(w, q) \/ \E p \in Pruned(q) : NoWrite(w, p)
    BY <2>1, <2>3, ReturnQuiet DEF NoWrite
  <2>4. ASSUME NEW p \in Pruned(q), NEW id \in Ids \ used,
               Write(w, [p EXCEPT ![id] = NewItem(req[w])]),
               used' = used \cup {id}
        PROVE  Quiet
    <3> DEFINE n == [p EXCEPT ![id] = NewItem(req[w])]
    <3>1. /\ p \in Queues
          /\ \A i \in Ids : p[i] = q[i] \/ p[i] = NoItem
      BY <2>2, PrunedQueue
    <3>2. /\ n \in Queues /\ n[id].state = "pending"
          /\ \A i \in Ids \ {id} : n[i] = p[i]
      BY <1>n, <3>1, NewItemType DEF Queues
    <3>3. stored[id] = {}
      BY DEF IndInv, StoredInv
    <3>4. ASSUME NEW i \in Ids
          PROVE  /\ n[i].state = "pending" => store[i].state = "pending" \/ stored[i] = {}
                 /\ n[i].state \in Decided => store[i].state \in {"pending", n[i].state}
                 /\ n[i].state # "absent" => i \in used'
      <4>1. CASE i = id
        BY <2>4, <3>2, <3>3, <4>1 DEF Decided
      <4>2. CASE i # id
        BY <2>2, <2>4, <3>1, <3>2, <4>2 DEF Follows, NoItem, Decided
      <4> QED BY <4>1, <4>2
    <3>5. FollowsNext(n)
      BY <3>4 DEF FollowsNext
    <3> HIDE DEF n
    <3> QED BY <2>1, <2>4, <3>2, <3>5, WriteQuiet DEF n
  <2> QED BY <1>4, <2>3, <2>4 DEF ProposeStep, Queued
<1>5. ASSUME NEW w \in Workers, ApproveStep(w) PROVE Quiet
  <2> DEFINE q == Expired(store, clock)
             n == Decide(q, req[w].id, "approved", req[w].user)
  <2>1. /\ pc[w] = "load" /\ req[w].op = "approve" /\ req[w].id \in Ids
        /\ UNCHANGED <<store, version, late, applied, stored>>
    BY <1>5, <1>t DEF ApproveStep, Loading, RequestInv
  <2>2. q \in Queues /\ req[w].user \in Users \cup {NoUser}
    BY <1>n, ExpiredQueue DEF Request
  <2>3. CASE NoWrite(w, store) \/ NoWrite(w, q)
    BY <2>1, <2>3, ReturnQuiet DEF NoWrite
  <2>4. CASE q[req[w].id].state = "pending" /\ Write(w, n) /\ used' = used
    <3>1. n \in Queues
      BY <2>1, <2>2, DecideQueue DEF States, Decided
    <3>2. /\ Follows(n) /\ store[req[w].id].state = "pending"
          /\ n[req[w].id].state = "approved"
      BY <1>n, <2>1, <2>2, <2>4, DecideFollows DEF IndInv
    <3>3. FollowsNext(n)
      BY <2>4, <3>2 DEF Follows, FollowsNext
    <3> HIDE DEF n
    <3> QED BY <2>1, <2>4, <3>1, <3>2, <3>3, WriteQuiet
  <2> QED BY <1>5, <2>3, <2>4 DEF ApproveStep
<1>6. ASSUME NEW w \in Workers, RejectStep(w) PROVE Quiet
  <2> DEFINE q == Expired(store, clock)
             n == Decide(q, req[w].id, "rejected", req[w].user)
  <2>1. /\ pc[w] = "load" /\ req[w].op = "reject" /\ req[w].id \in Ids
        /\ UNCHANGED <<store, version, late, applied, stored>>
    BY <1>6, <1>t DEF RejectStep, Loading, RequestInv
  <2>2. q \in Queues /\ req[w].user \in Users \cup {NoUser}
    BY <1>n, ExpiredQueue DEF Request
  <2>3. CASE NoWrite(w, store) \/ NoWrite(w, q)
    BY <2>1, <2>3, ReturnQuiet DEF NoWrite
  <2>4. CASE q[req[w].id].state = "pending" /\ Write(w, n) /\ used' = used
    <3>1. n \in Queues
      BY <2>1, <2>2, DecideQueue DEF States, Decided
    <3>2. Follows(n)
      BY <1>n, <2>1, <2>2, <2>4, DecideFollows DEF IndInv
    <3>3. FollowsNext(n)
      BY <2>4, <3>2 DEF Follows, FollowsNext
    <3> HIDE DEF n
    <3> QED BY <2>1, <2>4, <3>1, <3>3, WriteQuiet
  <2> QED BY <1>6, <2>3, <2>4 DEF RejectStep
<1>7. ASSUME NEW w \in Workers, RecordStep(w) PROVE Quiet
  <2> DEFINE n == WithResult(store, req[w].id, req[w].result)
  <2>1. /\ pc[w] = "load" /\ req[w].op = "record" /\ req[w].id \in Ids
        /\ UNCHANGED <<store, version, late, applied, stored>>
    BY <1>7, <1>t DEF RecordStep, Loading, RequestInv
  <2>2. req[w].result \in Outcomes \cup {NoResult}
    BY <1>n DEF Request
  <2>3. CASE NoWrite(w, store)
    BY <2>1, <2>3, ReturnQuiet DEF NoWrite
  <2>4. CASE Write(w, n) /\ used' = used
    <3>1. n \in Queues /\ \A i \in Ids : n[i].state = store[i].state
      BY <1>n, <2>1, <2>2, WithResultQueue
    <3>2. Follows(store)
      BY <1>n, ExpiredFollows DEF IndInv
    <3>3. FollowsNext(n)
      BY <2>4, <3>1, <3>2 DEF Follows, FollowsNext
    <3> HIDE DEF n
    <3> QED BY <2>1, <2>4, <3>1, <3>3, WriteQuiet
  <2> QED BY <1>7, <2>3, <2>4 DEF RecordStep
<1>8. ASSUME NEW w \in Workers, LoadFails(w) PROVE Quiet
  BY <1>8, ReturnQuiet DEF LoadFails
<1>9. ASSUME NEW w \in Workers, SaveConflict(w) PROVE Quiet
  <2>1. CASE Return(w, mem[Host[w]])
    BY <1>9, <2>1, ReturnQuiet DEF SaveConflict, Current, MayRetry
  <2>2. CASE /\ pc' = [pc EXCEPT ![w] = "load"]
             /\ ver' = [ver EXCEPT ![w] = 0]
             /\ UNCHANGED <<mem, mu, req>>
    <3>1. /\ pc[w] = "save" /\ pc'[w] = "load"
          /\ \A v \in Workers \ {w} : pc'[v] = pc[v] /\ ver'[v] = ver[v]
          /\ UNCHANGED <<store, version, late, used, applied, stored>>
      BY <1>9, <2>2, <1>t DEF SaveConflict, Current, MayRetry, TypeOK
    <3>2. MutexInv' /\ RequestInv'
      BY <2>2, <3>1 DEF IndInv, MutexInv, RequestInv
    <3> QED BY <2>2, <3>1, <3>2 DEF Quiet
  <2> QED BY <1>9, <2>1, <2>2 DEF SaveConflict, Current, MayRetry
<1>10. ASSUME NEW w \in Workers, SaveFails(w) PROVE Quiet
  BY <1>10, ReturnQuiet DEF SaveFails
<1>11. ASSUME NEW c \in Controllers, List(c) PROVE Quiet
  <2>1. /\ mu[c] = NoWorker
        /\ UNCHANGED <<store, version, mu, pc, req, tries, ver, late, used, applied, stored>>
        /\ \A d \in Controllers \ {c} : mem'[d] = mem[d]
    BY <1>11, <1>t DEF List, TypeOK
  <2>2. \A w \in Workers : pc[w] = "save" => mem'[Host[w]] = mem[Host[w]]
    BY <1>h, <2>1, ApprovalsAssumption DEF IndInv, MutexInv
  <2>3. MutexInv' /\ RequestInv'
    BY <2>1 DEF IndInv, MutexInv, RequestInv
  <2> QED BY <2>1, <2>2, <2>3 DEF Quiet
<1>12. ASSUME NEW c \in Controllers, Crash(c) PROVE Quiet
  <2>1. /\ UNCHANGED <<store, version, used, applied, stored>>
        /\ \A w \in Workers : Host[w] = c => pc'[w] = "idle" /\ req'[w] = NoRequest
        /\ \A w \in Workers : Host[w] # c =>
              /\ pc'[w] = pc[w] /\ req'[w] = req[w] /\ ver'[w] = ver[w]
              /\ mem'[Host[w]] = mem[Host[w]] /\ mu'[Host[w]] = mu[Host[w]]
    BY <1>12, <1>t, <1>h DEF Crash, TypeOK
  <2>2. MutexInv' /\ RequestInv'
    BY <2>1 DEF IndInv, MutexInv, RequestInv, NoRequest
  <2>3. \A l \in late' :
          \/ l \in late
          \/ \E w \in Workers : pc[w] = "save" /\ l = [ver |-> ver[w], items |-> mem[Host[w]]]
    BY <1>12 DEF Crash, Abandon
  <2> QED BY <2>1, <2>2, <2>3 DEF Quiet
<1>13. ASSUME Tick \/ UNCHANGED vars PROVE Quiet
  <2>1. UNCHANGED <<store, version, mem, mu, pc, req, tries, ver, late, used, applied, stored>>
    BY <1>13 DEF Tick, vars
  <2>2. MutexInv' /\ RequestInv'
    BY <2>1 DEF IndInv, MutexInv, RequestInv
  <2> QED BY <2>1, <2>2 DEF Quiet
<1> QED
  BY <1>2, <1>3, <1>4, <1>5, <1>6, <1>7, <1>8, <1>9, <1>10, <1>11, <1>12, <1>13
     DEF Next, Load, Save

(* Every step keeps the invariant. *)
LEMMA IndStep == IndInv /\ [Next]_vars => IndInv'
<1> SUFFICES ASSUME IndInv, [Next]_vars PROVE IndInv'
  OBVIOUS
<1>1. TypeOK'
  BY TypeStep DEF IndInv
<1> QED BY <1>1, QuietSteps, QuietStep, SaveOkStep, LateWriteStep, ApplyStep

(* The controllers start with an empty queue and nothing applied. *)
LEMMA IndInit == Init => IndInv
<1> SUFFICES ASSUME Init PROVE IndInv
  OBVIOUS
<1>1. TypeOK
  BY TypeInit
<1>2. \A id \in Ids : store[id].state = "absent"
  BY DEF Init, EmptyQueue, NoItem
<1> QED BY <1>1, <1>2 DEF Init, IndInv, StoredInv, RequestInv, MutexInv, WriteInv,
                          LateInv, TokenInv, AtMostOnce, OneDecision, NoRequest

--------------------------------------------------------------------------------
(* The results. *)

(* What a write may change, who may apply and who holds a mutex, for every   *)
(* interleaving of requests, lost answers and crashes (approvals.go and      *)
(* approval_store.go): the invariant the results below rest on.              *)
THEOREM IndInvariant == Spec => []IndInv
BY IndInit, IndStep, PTL DEF Spec

(* Every variable keeps its type. *)
THEOREM TypeCorrect == Spec => []TypeOK
<1>1. IndInv => TypeOK
  BY DEF IndInv
<1> QED BY <1>1, IndInvariant, PTL

(* ApproveFix carries a queued change out at most once, for any number of   *)
(* controllers, crashes, conflicts and writes that arrive late.             *)
THEOREM ApplyAtMostOnce == Spec => []AtMostOnce
<1>1. IndInv => AtMostOnce
  BY DEF IndInv
<1> QED BY <1>1, IndInvariant, PTL

(* A decision that was stored is final. *)
THEOREM DecisionFinal == Spec => []OneDecision
<1>1. IndInv => OneDecision
  BY DEF IndInv
<1> QED BY <1>1, IndInvariant, PTL

(* Nothing is carried out unless its approval, and no other decision, was   *)
(* stored before.                                                           *)
THEOREM ApplyWasApproved == Spec => []AppliedWasApproved
<1>1. IndInv => AppliedWasApproved
  BY DEF IndInv, TokenInv, OneDecision, AppliedWasApproved, Decided
<1> QED BY <1>1, IndInvariant, PTL

--------------------------------------------------------------------------------
(* What the approval queue promises its users: one pending item per change,  *)
(* results that are true, no pending item lost, and that the controllers     *)
(* together implement ApprovalQueue.  A second invariant, on top of the one  *)
(* above, says what every write in progress would store.                     *)

(* Nobody may still carry out id, nor will anybody: it was approved and the   *)
(* right to apply it is used up.                                              *)
Settled(id) ==
    /\ "approved" \in stored[id]
    /\ \A w \in Workers : pc[w] = "apply" => req[w].id # id

ResultOK(id, r) == r # NoResult => Settled(id) /\ (applied[id] = 1 <=> r \in ApplyCalled)

OneEach(q) ==
    \A i, j \in Ids :
        (/\ q[i].state = "pending" /\ q[j].state = "pending"
         /\ q[i].change = q[j].change) => i = j

GoodQueue(q) == OneEach(q) /\ \A id \in Ids : ResultOK(id, q[id].result)

KeepsPending(q) ==
    \A id \in Ids :
        store[id].state = "pending" /\ clock < store[id].expires
            => q[id].state \in {"pending", "approved", "rejected"}

(* The items that a write of q would queue or decide. *)
Chosen(q) ==
    {id \in Ids : /\ q[id].state \in {"pending", "approved", "rejected"}
                  /\ q[id].state # store[id].state}

StepOf(q) == KeepsPending(q) /\ \A i, j \in Chosen(q) : i = j

(* Every queue stored or on its way is good, and one that would be stored     *)
(* now is one step from the stored queue.                                     *)
PromiseInv ==
    /\ GoodQueue(store)
    /\ \A w \in Workers :
          /\ req[w].now <= clock
          /\ req[w].op = "record" => /\ req[w].result \in Outcomes
                                     /\ ResultOK(req[w].id, req[w].result)
          /\ pc[w] = "save" => /\ GoodQueue(mem[Host[w]])
                               /\ ver[w] = version => StepOf(mem[Host[w]])
    /\ \A l \in late : GoodQueue(l.items) /\ (l.ver = version => StepOf(l.items))

--------------------------------------------------------------------------------
(* What the steps of updateQueue make of a good queue. *)

(* expireLocked changes nothing but the state of items that are overdue. *)
LEMMA ExpiredItem ==
    ASSUME NEW q \in Queues, NEW now \in Nat, NEW id \in Ids
    PROVE  /\ Expired(q, now)[id].result = q[id].result
           /\ \/ Expired(q, now)[id] = q[id]
              \/ q[id].state = "pending" /\ now >= q[id].expires
<1>1. q[id] \in Item
  BY DEF Queues
<1> QED BY <1>1 DEF Expired, Overdue, Item

(* The stored queue, read with a clock that is not ahead, is good, keeps what  *)
(* is pending and decides nothing a person decides.                           *)
LEMMA ExpiredGood ==
    ASSUME TypeOK, PromiseInv, NEW now \in Nat, now <= clock
    PROVE  /\ GoodQueue(Expired(store, now))
           /\ KeepsPending(Expired(store, now))
           /\ Chosen(Expired(store, now)) = {}
<1> DEFINE q == Expired(store, now)
<1>1. store \in Queues /\ clock \in Nat
  BY ApprovalsAssumption DEF TypeOK
<1>2. \A id \in Ids : /\ q[id].result = store[id].result /\ q[id].change = store[id].change
                      /\ \/ q[id] = store[id]
                         \/ store[id].state = "pending" /\ q[id].state = "expired"
  BY <1>1, ExpiredItem, ExpiredQueue
<1>3. ASSUME NEW id \in Ids, store[id].state = "pending", clock < store[id].expires
      PROVE  q[id] = store[id]
  <2>1. store[id].expires \in Nat
    BY <1>1 DEF Queues, Item
  <2> QED BY <1>1, <1>3, <2>1, ExpiredItem
<1> HIDE DEF q
<1>4. GoodQueue(q)
  BY <1>2 DEF PromiseInv, GoodQueue, OneEach
<1>5. KeepsPending(q)
  BY <1>3 DEF KeepsPending
<1>6. Chosen(q) = {}
  BY <1>2 DEF Chosen
<1> QED BY <1>4, <1>5, <1>6 DEF q

(* pruneLocked takes nothing that is pending. *)
LEMMA PrunedGood ==
    ASSUME TypeOK, NEW q \in Queues, GoodQueue(q), KeepsPending(q), Chosen(q) = {},
           NEW p \in Pruned(q)
    PROVE  GoodQueue(p) /\ KeepsPending(p) /\ Chosen(p) = {}
<1>1. \A id \in Ids : \/ p[id] = q[id]
                      \/ /\ q[id].state \in Decided
                         /\ p[id].state = "absent" /\ p[id].result = NoResult
  BY PrunedQueue DEF NoItem
<1>2. GoodQueue(p)
  BY <1>1 DEF GoodQueue, OneEach, ResultOK
<1>3. Chosen(p) = {}
  BY <1>1 DEF Chosen
<1>4. KeepsPending(p)
  <2> SUFFICES ASSUME NEW id \in Ids, store[id].state = "pending", clock < store[id].expires,
                      p[id].state \notin {"pending", "approved", "rejected"}
               PROVE  FALSE
    BY DEF KeepsPending
  <2>1. /\ q[id].state \in {"pending", "approved", "rejected"}
        /\ p[id] # q[id] /\ q[id].state \in Decided
    BY <1>1 DEF KeepsPending
  <2>2. id \in Chosen(q)
    BY <2>1 DEF Chosen, Decided
  <2> QED BY <2>2
<1> QED BY <1>2, <1>3, <1>4

(* propose queues one item, for a change that is not waiting yet. *)
LEMMA NewItemGood ==
    ASSUME TypeOK, NEW p \in Queues, GoodQueue(p), KeepsPending(p), Chosen(p) = {},
           NEW r \in Request, ~Queued(p, r.change), NEW id \in Ids, store[id].state # "pending"
    PROVE  /\ GoodQueue([p EXCEPT ![id] = NewItem(r)])
           /\ StepOf([p EXCEPT ![id] = NewItem(r)])
<1> DEFINE n == [p EXCEPT ![id] = NewItem(r)]
<1>1. /\ n[id].state = "pending" /\ n[id].change = r.change /\ n[id].result = NoResult
      /\ \A i \in Ids \ {id} : n[i] = p[i]
  BY DEF Queues, NewItem
<1> HIDE DEF n
<1>2. GoodQueue(n)
  BY <1>1 DEF GoodQueue, OneEach, ResultOK, Queued
<1>3. Chosen(n) \subseteq {id}
  BY <1>1 DEF Chosen
<1>4. KeepsPending(n)
  BY <1>1 DEF KeepsPending
<1> QED BY <1>2, <1>3, <1>4 DEF StepOf, n

(* ApproveFix and RejectFix decide one item. *)
LEMMA DecideGood ==
    ASSUME TypeOK, NEW q \in Queues, GoodQueue(q), KeepsPending(q), Chosen(q) = {},
           NEW id \in Ids, NEW s \in {"approved", "rejected"}, NEW u \in Users \cup {NoUser}
    PROVE  GoodQueue(Decide(q, id, s, u)) /\ StepOf(Decide(q, id, s, u))
<1> DEFINE n == Decide(q, id, s, u)
<1>1. /\ n[id].state = s /\ n[id].result = q[id].result
      /\ \A i \in Ids \ {id} : n[i] = q[i]
  BY DEF Decide, Queues, Item
<1> HIDE DEF n
<1>2. GoodQueue(n)
  BY <1>1 DEF GoodQueue, OneEach
<1>3. Chosen(n) \subseteq {id}
  BY <1>1 DEF Chosen
<1>4. KeepsPending(n)
  BY <1>1 DEF KeepsPending
<1> QED BY <1>2, <1>3, <1>4 DEF StepOf, n

(* recordResult decides none, and records a result that is true. *)
LEMMA ResultGood ==
    ASSUME TypeOK, PromiseInv, NEW id \in Ids, NEW r \in Outcomes, ResultOK(id, r)
    PROVE  GoodQueue(WithResult(store, id, r)) /\ StepOf(WithResult(store, id, r))
<1> DEFINE n == WithResult(store, id, r)
<1>1. /\ n[id].state = store[id].state /\ n[id].change = store[id].change
      /\ n[id].result = r
      /\ \A i \in Ids \ {id} : n[i] = store[i]
  BY DEF WithResult, TypeOK, Queues, Item
<1> HIDE DEF n
<1>2. GoodQueue(n)
  BY <1>1 DEF PromiseInv, GoodQueue, OneEach
<1>3. Chosen(n) = {}
  BY <1>1 DEF Chosen
<1>4. KeepsPending(n)
  BY <1>1 DEF KeepsPending
<1> QED BY <1>2, <1>3, <1>4 DEF StepOf, n

--------------------------------------------------------------------------------
(* The inductive step. *)

(* A request that goes on to write is in the step of its own operation. *)
LEMMA WriterStep ==
    ASSUME IndInv, [Next]_vars, NEW w \in Workers, pc[w] = "load", pc'[w] = "save"
    PROVE  ProposeStep(w) \/ ApproveStep(w) \/ RejectStep(w) \/ RecordStep(w)
<1>t. pc \in [Workers -> {"idle", "lock", "load", "save", "apply"}]
  BY DEF IndInv, TypeOK
<1>1. ASSUME NEW v \in Workers, NEW x, pc' = [pc EXCEPT ![v] = x] PROVE v = w /\ x = "save"
  BY <1>1, <1>t
<1>2. ASSUME NEW v \in Workers,
             BeginPropose(v) \/ BeginApprove(v) \/ BeginReject(v) \/ Acquire(v) \/ Apply(v)
      PROVE  FALSE
  BY <1>1, <1>2 DEF BeginPropose, BeginApprove, BeginReject, Begin, Acquire, Apply
<1>3. ASSUME NEW v \in Workers, LoadFails(v) \/ SaveOk(v) \/ SaveConflict(v) \/ SaveFails(v)
      PROVE  FALSE
  BY <1>1, <1>3 DEF LoadFails, SaveOk, SaveConflict, SaveFails, Return, Release
<1>4. ASSUME NEW v \in Workers,
             ProposeStep(v) \/ ApproveStep(v) \/ RejectStep(v) \/ RecordStep(v)
      PROVE  v = w
  <2>1. \E x : pc' = [pc EXCEPT ![v] = x]
    BY <1>4 DEF ProposeStep, ApproveStep, RejectStep, RecordStep, NoWrite, Return, Release, Write
  <2> QED BY <1>1, <2>1
<1>5. ASSUME NEW c \in Controllers, List(c) \/ Crash(c) PROVE FALSE
  BY <1>5 DEF List, Crash
<1>6. CASE LateWrite \/ Tick \/ UNCHANGED vars
  BY <1>6 DEF LateWrite, Tick, vars
<1> QED BY <1>2, <1>3, <1>4, <1>5, <1>6 DEF Next, Load, Save

(* What it is about to write is good, and one step from the stored queue. *)
LEMMA WriterGood ==
    ASSUME IndInv, PromiseInv, [Next]_vars, NEW w \in Workers, pc[w] = "load", pc'[w] = "save"
    PROVE  GoodQueue(mem'[Host[w]]) /\ StepOf(mem'[Host[w]])
<1>t. TypeOK /\ StoredInv /\ RequestInv
  BY DEF IndInv
<1>n. /\ clock \in Nat /\ store \in Queues /\ Host[w] \in Controllers
      /\ req[w] \in Request /\ req[w].now \in Nat /\ req[w].now <= clock
      /\ req[w].user \in Users \cup {NoUser}
  BY <1>t, ApprovalsAssumption DEF TypeOK, Request, PromiseInv
<1>1. ASSUME NEW q, Write(w, q) PROVE mem'[Host[w]] = q
  BY <1>1, <1>t, <1>n DEF TypeOK, Write
<1>2. ASSUME NEW q, NoWrite(w, q) PROVE FALSE
  BY <1>2, <1>t DEF TypeOK, NoWrite, Return, Release
<1>3. CASE ProposeStep(w)
  <2> DEFINE q == Expired(store, req[w].now)
  <2>1. PICK p \in Pruned(q), id \in Ids \ used :
          ~Queued(q, req[w].change) /\ Write(w, [p EXCEPT ![id] = NewItem(req[w])])
    BY <1>2, <1>3 DEF ProposeStep
  <2>2. q \in Queues /\ GoodQueue(q) /\ KeepsPending(q) /\ Chosen(q) = {}
    BY <1>t, <1>n, ExpiredQueue, ExpiredGood
  <2>3. /\ p \in Queues /\ GoodQueue(p) /\ KeepsPending(p) /\ Chosen(p) = {}
        /\ \A i \in Ids : p[i] = q[i] \/ p[i] = NoItem
    BY <1>t, <2>2, PrunedQueue, PrunedGood
  <2>4. ~Queued(p, req[w].change)
    BY <2>1, <2>3 DEF Queued, NoItem
  <2>5. store[id].state # "pending"
    BY <1>t, <2>1 DEF StoredInv
  <2> HIDE DEF q
  <2> QED BY <1>1, <1>t, <1>n, <2>1, <2>3, <2>4, <2>5, NewItemGood
<1>4. CASE ApproveStep(w) \/ RejectStep(w)
  <2> DEFINE q == Expired(store, clock)
  <2>1. req[w].id \in Ids
    BY <1>4, <1>t DEF ApproveStep, RejectStep, Loading, RequestInv
  <2>2. PICK s \in {"approved", "rejected"} : Write(w, Decide(q, req[w].id, s, req[w].user))
    BY <1>2, <1>4 DEF ApproveStep, RejectStep
  <2>3. q \in Queues /\ GoodQueue(q) /\ KeepsPending(q) /\ Chosen(q) = {}
    BY <1>t, <1>n, ExpiredQueue, ExpiredGood
  <2> HIDE DEF q
  <2> QED BY <1>1, <1>t, <1>n, <2>1, <2>2, <2>3, DecideGood
<1>5. CASE RecordStep(w)
  <2>1. req[w].op = "record" /\ Write(w, WithResult(store, req[w].id, req[w].result))
    BY <1>2, <1>5 DEF RecordStep, Loading
  <2>2. /\ req[w].id \in Ids /\ req[w].result \in Outcomes
        /\ ResultOK(req[w].id, req[w].result)
    BY <1>t, <2>1 DEF RequestInv, PromiseInv
  <2> QED BY <1>1, <1>t, <2>1, <2>2, ResultGood
<1> QED BY <1>3, <1>4, <1>5, WriterStep

(* A request is kept or replaced by one that is no record; time passes. *)
LEMMA RequestStep ==
    ASSUME TypeOK, PromiseInv, [Next]_vars, \A w \in Workers : ~Apply(w)
    PROVE  /\ clock' \in Nat /\ clock <= clock'
           /\ \A w \in Workers :
                 \/ req'[w] = req[w]
                 \/ req'[w].op # "record" /\ req'[w].now <= clock'
<1>n. clock \in Nat
  BY ApprovalsAssumption DEF TypeOK
<1>t. req \in [Workers -> Request]
  BY DEF TypeOK
<1>r. NoRequest.op # "record" /\ NoRequest.now <= clock
  BY <1>n DEF NoRequest
<1>1. ASSUME clock' = clock, NEW v \in Workers, NEW r, r.op # "record", r.now <= clock,
             req' = [req EXCEPT ![v] = r]
      PROVE  /\ clock' \in Nat /\ clock <= clock'
             /\ \A w \in Workers :
                   \/ req'[w] = req[w]
                   \/ req'[w].op # "record" /\ req'[w].now <= clock'
  BY <1>1, <1>n, <1>t
<1>2. ASSUME NEW v \in Workers, BeginPropose(v) \/ BeginApprove(v) \/ BeginReject(v)
      PROVE  \E r : /\ r.op # "record" /\ r.now <= clock
                    /\ req' = [req EXCEPT ![v] = r] /\ clock' = clock
  <2>1. CASE BeginPropose(v)
    <3>1. PICK ch : Begin(v, ProposeRequest(ch, clock))
      BY <2>1 DEF BeginPropose
    <3>2. /\ ProposeRequest(ch, clock).op # "record"
          /\ ProposeRequest(ch, clock).now <= clock
      BY <1>n DEF ProposeRequest
    <3> QED BY <3>1, <3>2 DEF Begin
  <2>2. CASE BeginApprove(v) \/ BeginReject(v)
    <3>1. PICK op \in {"approve", "reject"}, id \in used, u \in Users : Begin(v, DecideRequest(op, id, u))
      BY <2>2 DEF BeginApprove, BeginReject
    <3>2. /\ DecideRequest(op, id, u).op # "record"
          /\ DecideRequest(op, id, u).now <= clock
      BY <1>n DEF DecideRequest
    <3> QED BY <3>1, <3>2 DEF Begin
  <2> QED BY <1>2, <2>1, <2>2
<1>3. ASSUME NEW v \in Workers, Acquire(v) \/ Load(v) \/ Save(v)
      PROVE  clock' = clock /\ (req' = req \/ req' = [req EXCEPT ![v] = NoRequest])
  <2>1. CASE Acquire(v)
    BY <2>1 DEF Acquire
  <2>2. CASE ProposeStep(v)
    BY <2>2 DEF ProposeStep, Loading, NoWrite, Return, Write
  <2>3. CASE ApproveStep(v) \/ RejectStep(v) \/ RecordStep(v)
    BY <2>3 DEF ApproveStep, RejectStep, RecordStep, Loading, NoWrite, Return, Write
  <2>4. CASE LoadFails(v) \/ Save(v)
    BY <2>4 DEF LoadFails, Save, SaveOk, SaveConflict, SaveFails, Return
  <2> QED BY <1>3, <2>1, <2>2, <2>3, <2>4 DEF Load
<1>4. CASE \E c \in Controllers : List(c) \/ Crash(c)
  <2>1. clock' = clock /\ \A w \in Workers : req'[w] = req[w] \/ req'[w] = NoRequest
    BY <1>4 DEF List, Crash
  <2> QED BY <1>n, <1>r, <2>1
<1>5. CASE LateWrite \/ Tick \/ UNCHANGED vars
  BY <1>5, <1>n DEF LateWrite, Tick, vars
<1> QED BY <1>n, <1>r, <1>1, <1>2, <1>3, <1>4, <1>5 DEF Next

(* A good queue stays good while what is true of results stays true. *)
LEMMA GoodKept ==
    ASSUME \A id \in Ids, r \in Outcomes \cup {NoResult} : ResultOK(id, r) => ResultOK(id, r)',
           NEW q \in Queues, GoodQueue(q)
    PROVE  GoodQueue(q)'
<1>1. \A id \in Ids : q[id].result \in Outcomes \cup {NoResult}
  BY DEF Queues, Item
<1> QED BY <1>1 DEF GoodQueue, OneEach

(* Every queue in memory, stored or on its way has the shape of a queue. *)
LEMMA QueueTypes ==
    ASSUME TypeOK
    PROVE  /\ store \in Queues
           /\ \A w \in Workers : mem[Host[w]] \in Queues
           /\ \A l \in late : l.items \in Queues
           /\ \A w \in Workers : req[w].result \in Outcomes \cup {NoResult}
BY ApprovalsAssumption DEF TypeOK, Request

(* Steps that commit and apply nothing keep the promise. *)
LEMMA PromiseQuiet ==
    ASSUME IndInv, PromiseInv, [Next]_vars, Quiet, \A w \in Workers : ~Apply(w)
    PROVE  PromiseInv'
<1>t. TypeOK /\ RequestInv
  BY DEF IndInv
<1>u. UNCHANGED <<store, version, stored, applied>>
  BY DEF Quiet
<1>c. /\ clock \in Nat /\ clock' \in Nat /\ clock <= clock'
      /\ \A w \in Workers :
            \/ req'[w] = req[w]
            \/ req'[w].op # "record" /\ req'[w].now <= clock'
  BY <1>t, RequestStep, ApprovalsAssumption DEF TypeOK
<1>1. \A id, r : ResultOK(id, r) => ResultOK(id, r)'
  BY <1>u DEF ResultOK, Settled, Quiet
<1>2. \A q \in Queues : GoodQueue(q) => GoodQueue(q)'
  BY <1>1, GoodKept
<1>3. ASSUME NEW q, StepOf(q) PROVE StepOf(q)'
  <2>1. Chosen(q)' = Chosen(q)
    BY <1>u DEF Chosen
  <2>2. \A id \in Ids : store[id].expires \in Nat
    BY <1>t DEF TypeOK, Queues, Item
  <2>3. KeepsPending(q)'
    BY <1>3, <1>c, <1>u, <2>2 DEF StepOf, KeepsPending
  <2> QED BY <1>3, <2>1, <2>3 DEF StepOf
<1>4. GoodQueue(store)'
  BY <1>2, <1>t, <1>u, QueueTypes DEF PromiseInv, GoodQueue, OneEach
<1>5. ASSUME NEW w \in Workers
      PROVE  /\ req'[w].now <= clock'
             /\ req'[w].op = "record" => /\ req'[w].result \in Outcomes
                                         /\ ResultOK(req[w].id, req[w].result)'
  <2>1. CASE req'[w] = req[w]
    <3>1. req[w].now \in Nat /\ req[w].now <= clock
      BY <1>t DEF TypeOK, Request, PromiseInv
    <3>2. req[w].op = "record" => /\ req[w].result \in Outcomes
                                  /\ ResultOK(req[w].id, req[w].result)
      BY DEF PromiseInv
    <3>3. req'[w].now <= clock'
      BY <1>c, <2>1, <3>1
    <3>4. req[w].op = "record" => ResultOK(req'[w].id, req'[w].result)
      BY <2>1, <3>2
    <3>5. req[w].op = "record" => ResultOK(req[w].id, req[w].result)'
      BY <1>1, <3>4 DEF ResultOK, Settled
    <3> QED BY <2>1, <3>2, <3>3, <3>5
  <2>2. CASE req'[w].op # "record" /\ req'[w].now <= clock'
    BY <2>2
  <2> QED BY <1>c, <2>1, <2>2
<1>6. ASSUME NEW w \in Workers, pc'[w] = "save"
      PROVE  /\ GoodQueue(mem[Host[w]])'
             /\ ver'[w] = version' => StepOf(mem[Host[w]])'
  <2>q. mem'[Host[w]] \in Queues
    <3>1. TypeOK'
      BY <1>t, TypeStep
    <3> QED BY <3>1, ApprovalsAssumption DEF TypeOK
  <2>1. CASE pc[w] = "save" /\ ver'[w] = ver[w] /\ mem'[Host[w]] = mem[Host[w]]
    <3>1. /\ GoodQueue(mem'[Host[w]])
          /\ ver[w] = version => StepOf(mem'[Host[w]])
      BY <2>1 DEF PromiseInv
    <3> QED BY <1>2, <1>3, <1>u, <2>1, <2>q, <3>1 DEF GoodQueue, OneEach, StepOf, KeepsPending, Chosen
  <2>2. CASE pc[w] = "load"
    <3>1. GoodQueue(mem'[Host[w]]) /\ StepOf(mem'[Host[w]])
      BY <1>6, <2>2, WriterGood
    <3> QED BY <1>2, <1>3, <2>q, <3>1 DEF GoodQueue, OneEach, StepOf, KeepsPending, Chosen
  <2> QED BY <1>6, <2>1, <2>2 DEF Quiet
<1>7. ASSUME NEW l \in late'
      PROVE  /\ GoodQueue(l.items)'
             /\ l.ver = version' => StepOf(l.items)'
  <2>1. l.items \in Queues /\ GoodQueue(l.items) /\ (l.ver = version => StepOf(l.items))
    <3>1. CASE l \in late
      BY <1>t, <3>1, QueueTypes DEF PromiseInv
    <3>2. ASSUME NEW w \in Workers, pc[w] = "save", l = [ver |-> ver[w], items |-> mem[Host[w]]]
          PROVE  l.items \in Queues /\ GoodQueue(l.items) /\ (l.ver = version => StepOf(l.items))
      BY <1>t, <3>2, QueueTypes DEF PromiseInv
    <3> QED BY <3>1, <3>2 DEF Quiet
  <2> QED BY <1>2, <1>3, <1>u, <2>1
<1> QED BY <1>4, <1>5, <1>6, <1>7 DEF PromiseInv

(* A committed write makes every other write in progress out of date. *)
LEMMA PromiseCommit ==
    ASSUME IndInv, PromiseInv, NEW q \in Queues, GoodQueue(q), Store(q),
           UNCHANGED <<clock, applied>>, late' \subseteq late,
           \A w \in Workers : req'[w] = req[w] \/ req'[w] = NoRequest,
           \A w \in Workers : pc'[w] = "save" =>
               pc[w] = "save" /\ ver'[w] = ver[w] /\ mem'[Host[w]] = mem[Host[w]],
           \A w \in Workers : pc'[w] = "apply" =>
               \/ pc[w] = "apply" /\ req'[w] = req[w]
               \/ "approved" \notin stored[req'[w].id]
    PROVE  PromiseInv'
<1>t. TypeOK /\ WriteInv /\ LateInv /\ RequestInv
  BY DEF IndInv
<1>n. clock \in Nat /\ version \in Nat /\ version' = version + 1
  BY <1>t, ApprovalsAssumption DEF TypeOK, Store
<1>s. \A id \in Ids : stored[id] \subseteq stored'[id]
  BY DEF Store
<1>1. ASSUME NEW id \in Ids, NEW r, ResultOK(id, r) PROVE ResultOK(id, r)'
  BY <1>1, <1>s DEF ResultOK, Settled
<1>2. \A x \in Queues : GoodQueue(x) => GoodQueue(x)'
  BY <1>1, GoodKept
<1>3. GoodQueue(store)'
  <2>1. store' = q
    BY DEF Store
  <2> QED BY <1>2, <2>1 DEF GoodQueue, OneEach
<1>4. ASSUME NEW w \in Workers
      PROVE  /\ req'[w].now <= clock'
             /\ req'[w].op = "record" => /\ req'[w].result \in Outcomes
                                         /\ ResultOK(req[w].id, req[w].result)'
  <2>1. CASE req'[w] = req[w]
    <3>1. /\ req[w].now <= clock
          /\ req[w].op = "record" => /\ req[w].result \in Outcomes /\ req[w].id \in Ids
                                      /\ ResultOK(req[w].id, req[w].result)
      BY <1>t DEF PromiseInv, RequestInv
    <3>2. req[w].op = "record" => ResultOK(req'[w].id, req'[w].result)
      BY <2>1, <3>1
    <3> QED BY <1>1, <2>1, <3>1, <3>2 DEF ResultOK, Settled
  <2>2. CASE req'[w] = NoRequest
    BY <1>n, <2>2 DEF NoRequest
  <2> QED BY <2>1, <2>2
<1>5. ASSUME NEW w \in Workers, pc'[w] = "save"
      PROVE  GoodQueue(mem[Host[w]])' /\ ver'[w] # version'
  <2>1. /\ pc[w] = "save" /\ mem'[Host[w]] = mem[Host[w]] /\ ver'[w] = ver[w]
        /\ ver[w] \in Nat /\ ver[w] <= version
    BY <1>5, <1>t DEF TypeOK, WriteInv
  <2>2. mem'[Host[w]] \in Queues /\ GoodQueue(mem'[Host[w]])
    BY <1>t, <2>1, QueueTypes DEF PromiseInv
  <2> QED BY <1>2, <1>n, <2>1, <2>2 DEF GoodQueue, OneEach
<1>6. ASSUME NEW l \in late'
      PROVE  GoodQueue(l.items)' /\ l.ver # version'
  <2>1. l.items \in Queues /\ GoodQueue(l.items) /\ l.ver \in Nat /\ l.ver <= version
    BY <1>t, QueueTypes DEF PromiseInv, LateInv, TypeOK
  <2> QED BY <1>2, <1>n, <2>1
<1> QED BY <1>3, <1>4, <1>5, <1>6 DEF PromiseInv

(* What a write commits: the worker's queue, one step from the stored one. *)
LEMMA SaveOkWrites ==
    ASSUME IndInv, PromiseInv, NEW w \in Workers, SaveOk(w)
    PROVE  /\ mem[Host[w]] \in Queues /\ GoodQueue(mem[Host[w]]) /\ StepOf(mem[Host[w]])
           /\ Follows(mem[Host[w]]) /\ Store(mem[Host[w]])
           /\ UNCHANGED <<clock, late, used, applied>>
<1>1. /\ pc[w] = "save" /\ ver[w] = version /\ Store(mem[Host[w]])
      /\ UNCHANGED <<clock, late, used, applied>>
  BY DEF SaveOk, Current
<1> QED BY <1>1, QueueTypes DEF IndInv, WriteInv, PromiseInv

(* A committed write of a request keeps the promise. *)
LEMMA PromiseSaveOk ==
    ASSUME IndInv, PromiseInv, NEW w \in Workers, SaveOk(w)
    PROVE  PromiseInv'
<1> DEFINE q == mem[Host[w]]
<1>1. pc[w] = "save" /\ ver[w] = version
  BY DEF SaveOk, Current
<1>2. PICK p \in {"idle", "apply"} :
        /\ Release(w, p, q)
        /\ p = "apply" => req[w].op = "approve" /\ req' = req
        /\ p = "idle" => req' = [req EXCEPT ![w] = NoRequest]
  BY DEF SaveOk, Current, Return
<1>3. /\ pc'[w] = p
      /\ \A v \in Workers \ {w} :
           /\ pc'[v] = pc[v] /\ ver'[v] = ver[v]
           /\ pc[v] = "save" => mem'[Host[v]] = mem[Host[v]]
  BY <1>1, <1>2, ReleaseControl
<1>4. /\ req'[w] = req[w] \/ req'[w] = NoRequest
      /\ \A v \in Workers \ {w} : req'[v] = req[v]
  BY <1>2 DEF IndInv, TypeOK
<1>5. pc'[w] = "apply" => "approved" \notin stored[req'[w].id]
  <2> HAVE pc'[w] = "apply"
  <2>1. req' = req /\ req[w].op = "approve"
    BY <1>2, <1>3
  <2>2. req[w].id \in Ids /\ store[req[w].id].state = "pending"
    BY <1>1, <2>1 DEF IndInv, RequestInv, WriteInv
  <2> QED BY <2>1, <2>2 DEF IndInv, StoredInv, Decided
<1>6. \A v \in Workers : pc'[v] = "save" =>
         pc[v] = "save" /\ ver'[v] = ver[v] /\ mem'[Host[v]] = mem[Host[v]]
  BY <1>2, <1>3
<1>7. \A v \in Workers : pc'[v] = "apply" =>
         \/ pc[v] = "apply" /\ req'[v] = req[v]
         \/ "approved" \notin stored[req'[v].id]
  BY <1>3, <1>4, <1>5
<1>8. \A v \in Workers : req'[v] = req[v] \/ req'[v] = NoRequest
  BY <1>4
<1> HIDE DEF q
<1> QED BY <1>6, <1>7, <1>8, SaveOkWrites, PromiseCommit

(* What a late write does: it is refused, or commits one step. *)
LEMMA LateWrites ==
    ASSUME IndInv, PromiseInv, LateWrite
    PROVE  /\ UNCHANGED <<clock, mem, pc, req, ver, used, applied>> /\ late' \subseteq late
           /\ \/ UNCHANGED <<store, version, stored>>
              \/ \E q \in Queues : GoodQueue(q) /\ StepOf(q) /\ Follows(q) /\ Store(q)
<1>1. PICK l \in late :
        /\ late' = late \ {l}
        /\ IF l.ver = version THEN Store(l.items) ELSE UNCHANGED <<store, version, stored>>
        /\ UNCHANGED <<clock, mem, pc, req, ver, used, applied>>
  BY DEF LateWrite, Current
<1>2. CASE l.ver = version
  <2>1. /\ l.items \in Queues /\ GoodQueue(l.items) /\ StepOf(l.items)
        /\ Follows(l.items) /\ Store(l.items)
    BY <1>1, <1>2, QueueTypes DEF IndInv, PromiseInv, LateInv
  <2> QED BY <1>1, <2>1
<1> QED BY <1>1, <1>2

(* Carrying out an approved change settles it, with the result recorded next. *)
LEMMA PromiseApply ==
    ASSUME IndInv, PromiseInv, NEW w \in Workers, Apply(w)
    PROVE  PromiseInv'
<1>t. TypeOK /\ TokenInv /\ RequestInv
  BY DEF IndInv
<1>d. PICK id \in Ids : id = req[w].id
  BY <1>t DEF Apply, TokenInv, RequestInv
<1>1. PICK out \in Outcomes :
        /\ applied' = IF out \in ApplyCalled
                      THEN [applied EXCEPT ![id] = @ + 1] ELSE applied
        /\ req' = [req EXCEPT ![w] = RecordRequest(id, out)]
  BY <1>d DEF Apply
<1>2. /\ pc[w] = "apply" /\ pc' = [pc EXCEPT ![w] = "lock"]
      /\ UNCHANGED <<clock, store, version, mem, ver, late, stored>>
  BY DEF Apply
<1>3. "approved" \in stored[id] /\ applied[id] = 0
  BY <1>2, <1>d, <1>t DEF TokenInv
<1>4. /\ pc'[w] = "lock" /\ req'[w] = RecordRequest(id, out)
      /\ \A v \in Workers \ {w} : pc'[v] = pc[v] /\ req'[v] = req[v]
  BY <1>1, <1>2, <1>t DEF TypeOK
<1>5. /\ applied'[id] = IF out \in ApplyCalled THEN 1 ELSE 0
      /\ \A i \in Ids \ {id} : applied'[i] = applied[i]
  BY <1>1, <1>3, <1>t DEF TypeOK
<1>6. \A v \in Workers \ {w} : pc[v] = "apply" => req[v].id # id
  BY <1>2, <1>d, <1>t DEF TokenInv
<1>7. /\ RecordRequest(id, out).id = id /\ RecordRequest(id, out).result = out
      /\ RecordRequest(id, out).now = 0
  BY DEF RecordRequest
<1>8. ASSUME NEW i \in Ids, NEW r, ResultOK(i, r) PROVE ResultOK(i, r)'
  <2>1. CASE i = id
    <3>1. r = NoResult
      BY <1>2, <1>d, <1>8, <2>1 DEF ResultOK, Settled
    <3> QED BY <3>1 DEF ResultOK
  <2>2. CASE i # id
    BY <1>2, <1>4, <1>5, <1>8, <2>2 DEF ResultOK, Settled
  <2> QED BY <2>1, <2>2
<1>9. ResultOK(id, out)'
  <2>1. Settled(id)'
    BY <1>2, <1>3, <1>4, <1>6 DEF Settled
  <2>2. applied'[id] = 1 <=> out \in ApplyCalled
    BY <1>5
  <2> QED BY <2>1, <2>2 DEF ResultOK
<1>10. \A q \in Queues : GoodQueue(q) => GoodQueue(q)'
  BY <1>8, GoodKept
<1>11. \A q : StepOf(q) => StepOf(q)'
  BY <1>2 DEF StepOf, KeepsPending, Chosen
<1>12. GoodQueue(store)'
  BY <1>2, <1>10, <1>t, QueueTypes DEF PromiseInv, GoodQueue, OneEach
<1>13. ASSUME NEW v \in Workers
       PROVE  /\ req'[v].now <= clock'
              /\ req'[v].op = "record" => /\ req'[v].result \in Outcomes
                                          /\ ResultOK(req[v].id, req[v].result)'
  <2>1. CASE v = w
    <3>1. req'[v].now <= clock'
      BY <1>2, <1>4, <1>7, <1>t, <2>1, ApprovalsAssumption DEF TypeOK
    <3>2. ResultOK(req[v].id, req[v].result)'
      BY <1>4, <1>7, <1>9, <2>1 DEF ResultOK, Settled
    <3> QED BY <1>4, <1>7, <2>1, <3>1, <3>2
  <2>2. CASE v # w
    <3>1. /\ req[v].now <= clock
          /\ req[v].op = "record" => /\ req[v].result \in Outcomes /\ req[v].id \in Ids
                                      /\ ResultOK(req[v].id, req[v].result)
      BY <1>t DEF PromiseInv, RequestInv
    <3>2. req'[v] = req[v] /\ clock' = clock
      BY <1>2, <1>4, <2>2
    <3>3. req[v].op = "record" => ResultOK(req'[v].id, req'[v].result)
      BY <3>1, <3>2
    <3> QED BY <1>8, <3>1, <3>2, <3>3 DEF ResultOK, Settled
  <2> QED BY <2>1, <2>2
<1>14. ASSUME NEW v \in Workers, pc'[v] = "save"
       PROVE  GoodQueue(mem[Host[v]])' /\ (ver'[v] = version' => StepOf(mem[Host[v]])')
  <2>1. pc[v] = "save"
    BY <1>4, <1>14
  <2>2. /\ mem'[Host[v]] \in Queues /\ GoodQueue(mem'[Host[v]])
        /\ ver[v] = version => StepOf(mem'[Host[v]])
    BY <1>2, <1>t, <2>1, QueueTypes DEF PromiseInv
  <2> QED BY <1>2, <1>10, <1>11, <2>2 DEF GoodQueue, OneEach, StepOf, KeepsPending, Chosen
<1>15. ASSUME NEW l \in late'
       PROVE  GoodQueue(l.items)' /\ (l.ver = version' => StepOf(l.items)')
  BY <1>2, <1>10, <1>11, <1>t, QueueTypes DEF PromiseInv
<1> QED BY <1>12, <1>13, <1>14, <1>15 DEF PromiseInv

(* Every step keeps the promise. *)
LEMMA PromiseStep == IndInv /\ PromiseInv /\ [Next]_vars => PromiseInv'
<1> SUFFICES ASSUME IndInv, PromiseInv, [Next]_vars PROVE PromiseInv'
  OBVIOUS
<1>1. CASE LateWrite
  <2>1. /\ UNCHANGED <<clock, mem, pc, req, ver, used, applied>> /\ late' \subseteq late
        /\ \/ UNCHANGED <<store, version, stored>>
           \/ \E q \in Queues : GoodQueue(q) /\ StepOf(q) /\ Follows(q) /\ Store(q)
    BY <1>1, LateWrites
  <2>2. CASE UNCHANGED <<store, version, stored>>
    <3>1. \A w \in Workers : ~Apply(w)
      BY <2>1 DEF Apply, IndInv, TypeOK
    <3>2. Quiet
      <4>1. RequestInv' /\ MutexInv'
        BY <1>1 DEF LateWrite, IndInv, RequestInv, MutexInv
      <4> QED BY <2>1, <2>2, <4>1 DEF Quiet
    <3> QED BY <3>1, <3>2, PromiseQuiet
  <2>3. ASSUME NEW q \in Queues, GoodQueue(q), Store(q) PROVE PromiseInv'
    BY <2>1, <2>3, PromiseCommit
  <2> QED BY <2>1, <2>2, <2>3
<1> QED BY <1>1, QuietSteps, PromiseQuiet, PromiseSaveOk, PromiseApply

(* The empty queue breaks no promise. *)
LEMMA PromiseInit == Init => PromiseInv
<1> SUFFICES ASSUME Init PROVE PromiseInv
  OBVIOUS
<1>1. \A id \in Ids : store[id].state = "absent" /\ store[id].result = NoResult
  BY DEF Init, EmptyQueue, NoItem
<1>2. GoodQueue(store)
  BY <1>1 DEF GoodQueue, OneEach, ResultOK
<1> QED BY <1>2 DEF Init, PromiseInv, NoRequest

--------------------------------------------------------------------------------
(* What the queue promises. *)

(* Every queue stored or on its way keeps the promises, for every              *)
(* interleaving of requests, lost answers and crashes.                        *)
THEOREM PromiseInvariant == Spec => [](IndInv /\ PromiseInv)
<1>1. IndInv /\ PromiseInv /\ [Next]_vars => PromiseInv'
  BY PromiseStep
<1> QED BY <1>1, PromiseInit, IndInvariant, PTL DEF Spec

(* propose stores one pending item per change, also when several controllers   *)
(* propose it at once.                                                        *)
THEOREM OnePendingItem == Spec => []OnePending
<1>1. PromiseInv => OnePending
  BY DEF PromiseInv, GoodQueue, OneEach, OnePending
<1> QED BY <1>1, PromiseInvariant, PTL

(* recordResult stores what became of the change: it neither claims a call of  *)
(* Apply that did not happen nor hides one that did.                          *)
THEOREM ResultsTrue == Spec => []ResultTrue
<1>1. PromiseInv => ResultTrue
  BY DEF PromiseInv, GoodQueue, ResultOK, ResultTrue
<1> QED BY <1>1, PromiseInvariant, PTL

(* A step that leaves the stored queue alone, or commits one step from it. *)
LEMMA StoreStep ==
    ASSUME IndInv, PromiseInv, [Next]_vars
    PROVE  \/ UNCHANGED <<store, stored, applied>>
           \/ /\ \E q \in Queues : StepOf(q) /\ Follows(q) /\ Store(q)
              /\ applied' = applied
           \/ /\ UNCHANGED <<store, stored>>
              /\ \E w \in Workers : Apply(w)
<1>1. CASE LateWrite
  BY <1>1, LateWrites
<1>2. ASSUME NEW w \in Workers, SaveOk(w)
      PROVE  /\ \E q \in Queues : StepOf(q) /\ Follows(q) /\ Store(q)
             /\ applied' = applied
  BY <1>2, SaveOkWrites
<1>3. ASSUME NEW w \in Workers, Apply(w) PROVE UNCHANGED <<store, stored>>
  BY <1>3 DEF Apply
<1>4. ASSUME Quiet PROVE UNCHANGED <<store, stored, applied>>
  BY <1>4 DEF Quiet
<1> QED BY <1>1, <1>2, <1>3, <1>4, QuietSteps

(* No step takes a pending item that is not overdue out of the queue: pruning, *)
(* expiry with an instant read earlier and late or stale writes do not.        *)
THEOREM NothingPendingLost == Spec => PendingKept
<1>1. ASSUME IndInv, PromiseInv, [Next]_vars
      PROVE  \A id \in Ids :
                store[id].state = "pending" /\ clock < store[id].expires
                   => store'[id].state \in {"pending", "approved", "rejected"}
  <2>1. ASSUME NEW q \in Queues, StepOf(q), Store(q)
        PROVE  \A id \in Ids :
                  store[id].state = "pending" /\ clock < store[id].expires
                     => store'[id].state \in {"pending", "approved", "rejected"}
    BY <2>1 DEF StepOf, KeepsPending, Store
  <2> QED BY <1>1, <2>1, StoreStep
<1> QED BY <1>1, PromiseInvariant, PTL DEF Spec, PendingKept

--------------------------------------------------------------------------------
(* The controllers implement the abstract queue. *)

(* What became of an item, from the states in which it was ever stored and     *)
(* the one in which it is stored now.                                         *)
DecisionOf(S, st) ==
    IF S = {} THEN "none"
    ELSE IF S \cap Decided # {} THEN CHOOSE s \in S \cap Decided : TRUE
    ELSE IF st # "absent" THEN "pending" ELSE "expired"

(* With one stored decision at most, that is the decision. *)
LEMMA DecisionOfValue ==
    ASSUME NEW S \in SUBSET States, \A s, t \in S \cap Decided : s = t, NEW st
    PROVE  /\ DecisionOf(S, st) = "none" <=> S = {}
           /\ \A s \in S \cap Decided : DecisionOf(S, st) = s
           /\ S # {} /\ S \cap Decided = {} =>
                 DecisionOf(S, st) = IF st # "absent" THEN "pending" ELSE "expired"
<1>1. CASE S \cap Decided # {}
  <2>1. PICK s \in S \cap Decided : S \cap Decided = {s}
    BY <1>1
  <2>2. DecisionOf(S, st) = s /\ s # "none"
    BY <1>1, <2>1 DEF DecisionOf, Decided
  <2> QED BY <2>1, <2>2
<1>2. CASE S \cap Decided = {}
  BY <1>2 DEF DecisionOf
<1> QED BY <1>1, <1>2

(* A committed write moves an item from none to pending or from pending to a   *)
(* decision, and no decision to another.                                      *)
LEMMA CommitMoves ==
    ASSUME IndInv, IndInv', NEW q \in Queues, Follows(q), Store(q), NEW id \in Ids,
           NEW d, d = DecisionOf(stored[id], store[id].state),
           NEW e, e = DecisionOf(stored'[id], q[id].state)
    PROVE  /\ \/ e = d
              \/ d = "none" /\ e = "pending"
              \/ d = "pending" /\ e \in {"approved", "rejected", "expired"}
           /\ id \in Held(q) \ Held(store) => d = "none" /\ e = "pending"
           /\ id \in Held(store) \ Held(q) => e \in {"approved", "rejected", "expired"}
           /\ d = "none" /\ e = "pending" => id \in Held(q) /\ id \in Chosen(q)
           /\ d = "pending" /\ e \in {"approved", "rejected"} => id \in Chosen(q)
<1>1. /\ stored[id] \subseteq States /\ stored'[id] \subseteq States
      /\ store[id].state \in States /\ q[id].state \in States
      /\ stored'[id] = stored[id] \cup ({q[id].state} \ {"absent"})
  BY DEF IndInv, TypeOK, Queues, Item, Store
<1>2. /\ \A s, t \in stored[id] \cap Decided : s = t
      /\ \A s, t \in stored'[id] \cap Decided : s = t
  BY DEF IndInv, OneDecision
<1>3. /\ store[id].state # "absent" => store[id].state \in stored[id]
      /\ store[id].state = "pending" => stored[id] \cap Decided = {}
  BY DEF IndInv, StoredInv
<1>4. /\ q[id].state = "pending" => store[id].state = "pending" \/ stored[id] = {}
      /\ q[id].state \in Decided => store[id].state \in {"pending", q[id].state}
  BY DEF Follows
<1>5. /\ id \in Held(q) <=> q[id].state # "absent"
      /\ id \in Held(store) <=> store[id].state # "absent"
  BY DEF Held
<1>6. id \in Chosen(q) <=> /\ q[id].state \in {"pending", "approved", "rejected"}
                           /\ q[id].state # store[id].state
  BY DEF Chosen
<1>7. /\ d = "none" <=> stored[id] = {}
      /\ \A s \in stored[id] \cap Decided : d = s
      /\ stored[id] # {} /\ stored[id] \cap Decided = {} =>
            d = IF store[id].state # "absent" THEN "pending" ELSE "expired"
  BY <1>1, <1>2, DecisionOfValue
<1>8. /\ e = "none" <=> stored'[id] = {}
      /\ \A s \in stored'[id] \cap Decided : e = s
      /\ stored'[id] # {} /\ stored'[id] \cap Decided = {} =>
            e = IF q[id].state # "absent" THEN "pending" ELSE "expired"
  BY <1>1, <1>2, DecisionOfValue
<1>9. CASE stored[id] = {}
  <2>1. store[id].state = "absent" /\ d = "none"
    BY <1>3, <1>7, <1>9
  <2>2. q[id].state \in {"absent", "pending"}
    BY <1>1, <1>4, <2>1 DEF States, Decided
  <2>3. CASE q[id].state = "absent"
    BY <1>1, <1>5, <1>8, <1>9, <2>1, <2>3
  <2>4. CASE q[id].state = "pending"
    <3>1. stored'[id] = {"pending"} /\ e = "pending"
      BY <1>1, <1>5, <1>8, <1>9, <2>4 DEF Decided
    <3> QED BY <1>5, <1>6, <2>1, <2>4, <3>1
  <2> QED BY <2>2, <2>3, <2>4
<1>10. CASE stored[id] \cap Decided # {}
  <2>1. PICK s \in stored[id] \cap Decided : d = s
    BY <1>7, <1>10
  <2>2. e = s
    BY <1>1, <1>8, <2>1
  <2>3. store[id].state # "pending"
    BY <1>3, <1>10
  <2>4. id \notin Held(q) \ Held(store)
    BY <1>1, <1>4, <1>5, <1>10, <2>3 DEF States, Decided
  <2> QED BY <2>1, <2>2, <2>4 DEF Decided
<1>11. CASE stored[id] # {} /\ stored[id] \cap Decided = {}
  <2>1. CASE store[id].state = "absent"
    <3>1. q[id].state = "absent"
      BY <1>1, <1>4, <1>11, <2>1 DEF States, Decided
    <3> QED BY <1>1, <1>5, <1>7, <1>8, <1>11, <2>1, <3>1
  <2>2. CASE store[id].state = "pending"
    <3>1. d = "pending" /\ id \in Held(store)
      BY <1>5, <1>7, <1>11, <2>2
    <3>2. CASE q[id].state = "absent"
      BY <1>1, <1>5, <1>8, <1>11, <3>1, <3>2
    <3>3. CASE q[id].state = "pending"
      <4>1. e = "pending"
        BY <1>1, <1>5, <1>8, <1>11, <3>3 DEF Decided
      <4> QED BY <1>5, <3>1, <3>3, <4>1
    <3>4. CASE q[id].state \in Decided
      <4>1. e = q[id].state
        BY <1>1, <1>8, <3>4 DEF Decided
      <4> QED BY <1>5, <1>6, <2>2, <3>1, <3>4, <4>1 DEF Decided
    <3> QED BY <1>1, <3>2, <3>3, <3>4 DEF States
  <2> QED BY <1>1, <1>3, <1>11, <2>1, <2>2 DEF States
<1> QED BY <1>9, <1>10, <1>11

(* The mapping at a state and at its successor, item by item. *)
LEMMA MappedDecision ==
    ASSUME NEW id \in Ids
    PROVE  /\ AbstractDecision[id] = DecisionOf(stored[id], store[id].state)
           /\ AbstractDecision'[id] = DecisionOf(stored'[id], store'[id].state)
BY DEF AbstractDecision, DecisionOf, Held

(* A committed write is a Commit of the abstract queue. *)
LEMMA CommitImplements ==
    ASSUME IndInv, IndInv', NEW q \in Queues, StepOf(q), Follows(q), Store(q),
           applied' = applied
    PROVE  Abstract!Commit
<1> DEFINE d(id) == DecisionOf(stored[id], store[id].state)
           e(id) == DecisionOf(stored'[id], q[id].state)
<1>0. store' = q /\ Held(store)' = Held(q)
  BY DEF Store, Held
<1>1. ASSUME NEW id \in Ids
      PROVE  AbstractDecision[id] = d(id) /\ AbstractDecision'[id] = e(id)
  BY <1>0, MappedDecision
<1>2. ASSUME NEW id \in Ids
      PROVE  /\ \/ e(id) = d(id)
                \/ d(id) = "none" /\ e(id) = "pending"
                \/ d(id) = "pending" /\ e(id) \in {"approved", "rejected", "expired"}
             /\ id \in Held(q) \ Held(store) => d(id) = "none" /\ e(id) = "pending"
             /\ id \in Held(store) \ Held(q) => e(id) \in {"approved", "rejected", "expired"}
             /\ d(id) = "none" /\ e(id) = "pending" => id \in Held(q) /\ id \in Chosen(q)
             /\ d(id) = "pending" /\ e(id) \in {"approved", "rejected"} => id \in Chosen(q)
  BY CommitMoves
<1> HIDE DEF d, e
<1>3. \A id \in Ids :
        \/ AbstractDecision'[id] = AbstractDecision[id]
        \/ AbstractDecision[id] = "none" /\ AbstractDecision'[id] = "pending"
        \/ AbstractDecision[id] = "pending" /\ AbstractDecision'[id] \in Abstract!Verdicts
  BY <1>1, <1>2 DEF Abstract!Verdicts
<1>4. /\ Abstract!Moved("none", "pending") \subseteq Chosen(q)
      /\ Abstract!Moved("pending", "approved") \subseteq Chosen(q)
      /\ Abstract!Moved("pending", "rejected") \subseteq Chosen(q)
      /\ Abstract!Moved("none", "pending") \subseteq Held(q)
  BY <1>1, <1>2 DEF Abstract!Moved
<1>5. \A i, j \in Abstract!Moved("none", "pending") \cup Abstract!Moved("pending", "approved")
                     \cup Abstract!Moved("pending", "rejected") : i = j
  BY <1>4 DEF StepOf
<1>6. /\ \A id \in Held(q) \ Held(store) :
           AbstractDecision[id] = "none" /\ AbstractDecision'[id] = "pending"
      /\ \A id \in Held(store) \ Held(q) : AbstractDecision'[id] \in Abstract!Verdicts
  BY <1>1, <1>2 DEF Held, Abstract!Verdicts
<1> QED BY <1>0, <1>3, <1>4, <1>5, <1>6 DEF Abstract!Commit

(* A call of Apply is a Run of the abstract queue, an outcome without one a    *)
(* stutter.                                                                   *)
LEMMA ApplyImplements ==
    ASSUME IndInv, NEW w \in Workers, Apply(w), UNCHANGED <<store, stored>>
    PROVE  (\E id \in Ids : Abstract!Run(id)) \/ UNCHANGED Abstract!queueVars
<1> DEFINE id == req[w].id
<1>1. PICK out \in Outcomes :
        applied' = IF out \in ApplyCalled THEN [applied EXCEPT ![id] = @ + 1] ELSE applied
  BY DEF Apply
<1>2. id \in Ids /\ "approved" \in stored[id] /\ applied[id] = 0
  BY DEF Apply, IndInv, TokenInv, RequestInv
<1>3. UNCHANGED AbstractDecision /\ UNCHANGED Held(store)
  BY DEF AbstractDecision, Held
<1>4. AbstractDecision[id] = "approved"
  <2>1. stored[id] \in SUBSET States /\ \A s, t \in stored[id] \cap Decided : s = t
    BY <1>2 DEF IndInv, TypeOK, OneDecision
  <2>2. "approved" \in stored[id] \cap Decided
    BY <1>2 DEF Decided
  <2> QED BY <1>2, <2>1, <2>2, MappedDecision, DecisionOfValue
<1>5. CASE out \in ApplyCalled
  <2>1. applied' = [applied EXCEPT ![id] = 1]
    BY <1>1, <1>2, <1>5 DEF IndInv, TypeOK
  <2> QED BY <1>2, <1>3, <1>4, <2>1 DEF Abstract!Run
<1>6. CASE out \notin ApplyCalled
  BY <1>1, <1>3, <1>6 DEF Abstract!queueVars
<1> QED BY <1>5, <1>6

(* Any number of controllers on one ConfigMap implement the abstract queue:    *)
(* one decision per item, for good, one request answered by a write, and one  *)
(* call of Apply after an approval.                                           *)
THEOREM ControllersImplementQueue == Spec => ImplementsQueue
<1>1. Init => Abstract!QueueInit
  <2> SUFFICES ASSUME Init PROVE Abstract!QueueInit
    OBVIOUS
  <2>1. Held(store) = {}
    BY DEF Init, Held, EmptyQueue, NoItem
  <2>2. AbstractDecision = [id \in Ids |-> "none"]
    BY DEF Init, AbstractDecision
  <2> QED BY <2>1, <2>2 DEF Init, Abstract!QueueInit
<1>2. IndInv /\ PromiseInv /\ IndInv' /\ [Next]_vars => [Abstract!QueueNext]_(Abstract!queueVars)
  <2> SUFFICES ASSUME IndInv, PromiseInv, IndInv', [Next]_vars
               PROVE  Abstract!QueueNext \/ UNCHANGED Abstract!queueVars
    OBVIOUS
  <2>1. CASE UNCHANGED <<store, stored, applied>>
    BY <2>1 DEF Abstract!queueVars, AbstractDecision, Held
  <2>2. ASSUME NEW q \in Queues, StepOf(q), Follows(q), Store(q), applied' = applied
        PROVE  Abstract!QueueNext
    BY <2>2, CommitImplements DEF Abstract!QueueNext
  <2>3. ASSUME NEW w \in Workers, Apply(w), UNCHANGED <<store, stored>>
        PROVE  Abstract!QueueNext \/ UNCHANGED Abstract!queueVars
    BY <2>3, ApplyImplements DEF Abstract!QueueNext
  <2> QED BY <2>1, <2>2, <2>3, StoreStep
<1> QED BY <1>1, <1>2, PromiseInvariant, PTL DEF Spec, ImplementsQueue, Abstract!QueueSpec
================================================================================
