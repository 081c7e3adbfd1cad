------------------------------- MODULE Approvals -------------------------------
(***************************************************************************)
(* The approval queue of internal/kube/approvals.go, durable in one        *)
(* ConfigMap (internal/kube/approval_store.go).  An R3 change waits in the *)
(* queue until an approver accepts it, someone rejects it or it expires.   *)
(* Every controller replica works on the same ConfigMap: each operation    *)
(* takes the replica's mutex, reads the queue, runs one step in memory and *)
(* writes the whole queue back with the resourceVersion it read, as a      *)
(* compare and swap that is retried on a conflict.                         *)
(*                                                                         *)
(* The request goroutines of all controllers are the Workers.  A change    *)
(* stands for a class of the sameChange relation.                          *)
(***************************************************************************)
EXTENDS Integers, FiniteSets

CONSTANTS
    Controllers,    \* controller replicas
    Workers,        \* request goroutines of all controllers
    Host,           \* Host[w]: the controller that worker w runs on
    Ids,            \* approval ids; newApprovalID never draws one twice
    Changes,        \* changes a finding may propose, up to sameChange
    Rebuilds,       \* Rebuilds[c]: changes that buildFix of c can rebuild
    Users,          \* identities that press a button
    Approvers,      \* the listed approvers
    Viewed,         \* controllers whose queue is listed by the dashboard
    MaxApprovals,   \* capacity of the queue (maxApprovals = 200)
    TTL,            \* approvals.ttl
    MaxTries,       \* attempts of RetryOnConflict (retry.DefaultRetry: 5)
    MaxClock,       \* bound: last instant of the clock
    MaxLate         \* bound: writes on their way whose sender gave up

NoWorker == "no worker"
NoChange == "no change"
NoUser   == "no user"
NoId     == "no id"
NoResult == "no result"

ASSUME ApprovalsAssumption ==
    /\ Host \in [Workers -> Controllers]
    /\ NoWorker \notin Workers
    /\ Rebuilds \in [Controllers -> SUBSET Changes]
    /\ Approvers \subseteq Users
    /\ Viewed \subseteq Controllers
    /\ IsFiniteSet(Ids)
    /\ MaxApprovals \in Nat \ {0}
    /\ TTL \in Nat \ {0}
    /\ MaxTries \in Nat \ {0}
    /\ MaxClock \in Nat
    /\ MaxLate \in Nat

Decided == {"approved", "rejected", "expired"}
States  == {"absent", "pending"} \cup Decided

(* The outcomes of applyMutation, which Gate models; "withheld" is any of   *)
(* skipped, suggested, simulated and blocked.                               *)
Outcomes == {"withheld", "failed", "applied"}

(* Outcomes reached through a call of m.Apply. *)
ApplyCalled == {"failed", "applied"}

Item == [state   : States,
         change  : Changes \cup {NoChange},
         created : Nat,
         expires : Nat,
         by      : Users \cup {NoUser},
         result  : Outcomes \cup {NoResult}]

(* What a queue maps an id to that it does not hold. *)
NoItem == [state |-> "absent", change |-> NoChange, created |-> 0,
           expires |-> 0, by |-> NoUser, result |-> NoResult]

Queues == [Ids -> Item]

EmptyQueue == [id \in Ids |-> NoItem]

Request == [op     : {"none", "propose", "approve", "reject", "record"},
            id     : Ids \cup {NoId},
            change : Changes \cup {NoChange},
            user   : Users \cup {NoUser},
            now    : Nat,
            result : Outcomes \cup {NoResult}]

NoRequest == [op |-> "none", id |-> NoId, change |-> NoChange,
              user |-> NoUser, now |-> 0, result |-> NoResult]

ProposeRequest(ch, now) ==
    [op |-> "propose", id |-> NoId, change |-> ch,
     user |-> NoUser, now |-> now, result |-> NoResult]

(* op is "approve" or "reject" *)
DecideRequest(op, id, u) ==
    [op |-> op, id |-> id, change |-> NoChange,
     user |-> u, now |-> 0, result |-> NoResult]

RecordRequest(id, out) ==
    [op |-> "record", id |-> id, change |-> NoChange,
     user |-> NoUser, now |-> 0, result |-> out]

VARIABLES
    clock,      \* wall clock, the same on every controller
    store,      \* the queue in the ConfigMap
    version,    \* its resourceVersion; 0: the ConfigMap does not exist yet
    mem,        \* mem[c]: the in-memory items of controller c.  Every operation
                \* but a listing starts by replacing them, so between two
                \* operations they are kept only where a listing may read them
    mu,         \* mu[c]: the worker that holds the mutex of c, or NoWorker
    pc,         \* pc[w]: where worker w is
    req,        \* req[w]: the operation w serves, with its arguments
    tries,      \* tries[w]: attempts of the retry loop so far
    ver,        \* ver[w]: the resourceVersion w read
    late,       \* writes still on their way although their sender gave up
    used,       \* ids drawn so far
    applied,    \* history: applied[id] counts the calls of Apply for id
    stored      \* history: stored[id], the states in which id was ever stored

vars == <<clock, store, version, mem, mu, pc, req, tries, ver, late, used,
          applied, stored>>

(* The shape of every variable. *)
TypeOK ==
    /\ clock \in 0..MaxClock
    /\ store \in Queues
    /\ version \in Nat
    /\ mem \in [Controllers -> Queues]
    /\ mu \in [Controllers -> Workers \cup {NoWorker}]
    /\ pc \in [Workers -> {"idle", "lock", "load", "save", "apply"}]
    /\ req \in [Workers -> Request]
    /\ tries \in [Workers -> 0..MaxTries]
    /\ ver \in [Workers -> Nat]
    /\ late \subseteq [ver : Nat, items : Queues]
    /\ used \subseteq Ids
    /\ applied \in [Ids -> Nat]
    /\ stored \in [Ids -> SUBSET States]

Init ==
    /\ clock = 0
    /\ store = EmptyQueue
    /\ version = 0
    /\ mem = [c \in Controllers |-> EmptyQueue]
    /\ mu = [c \in Controllers |-> NoWorker]
    /\ pc = [w \in Workers |-> "idle"]
    /\ req = [w \in Workers |-> NoRequest]
    /\ tries = [w \in Workers |-> 0]
    /\ ver = [w \in Workers |-> 0]
    /\ late = {}
    /\ used = {}
    /\ applied = [id \in Ids |-> 0]
    /\ stored = [id \in Ids |-> {}]

--------------------------------------------------------------------------------
(* Queue helpers. *)

Held(q) == {id \in Ids : q[id].state # "absent"}

Overdue(q, now) == {id \in Ids : q[id].state = "pending" /\ now >= q[id].expires}

(* expireLocked: pending items past their expiry become expired. *)
Expired(q, now) ==
    [id \in Ids |-> IF id \in Overdue(q, now)
                    THEN [q[id] EXCEPT !.state = "expired"] ELSE q[id]]

AnyIn(q) == Held(q)

DecidedIn(q) == {id \in Ids : q[id].state \in Decided}

Without(q, D) == [id \in Ids |-> IF id \in D THEN NoItem ELSE q[id]]

(* The sets of decided items that pruneLocked may drop: the oldest, as many *)
(* as it takes to make room for one more, or all of them.  Items created at *)
(* the same instant are in no particular order.                             *)
Droppable(q) ==
    LET over    == Cardinality(Held(q)) - MaxApprovals + 1
        decided == DecidedIn(q)
        n       == IF over <= 0 THEN 0
                   ELSE IF over <= Cardinality(decided) THEN over
                   ELSE Cardinality(decided)
    IN  {D \in SUBSET decided :
            /\ Cardinality(D) = n
            /\ \A d \in D, k \in decided \ D : q[d].created <= q[k].created}

Decide(q, id, s, u) == [q EXCEPT ![id] = [@ EXCEPT !.state = s, !.by = u]]

AlwaysApplied(q, id, out) == [q EXCEPT ![id] = [@ EXCEPT !.result = "applied"]]

WithResult(q, id, out) == [q EXCEPT ![id] = [@ EXCEPT !.result = out]]

(* pruneLocked: the queues it may leave. *)
Pruned(q) == {Without(q, D) : D \in Droppable(q)}

HasRoom(q) == Cardinality(Held(q)) < MaxApprovals

NeverQueued(q, ch) == FALSE

(* sameChange: the change is waiting in q already. *)
Queued(q, ch) == \E id \in Ids : q[id].state = "pending" /\ q[id].change = ch

--------------------------------------------------------------------------------
(* The start of a request.  Approvers # {} is Approvals.Enabled. *)

Begin(w, r) ==
    /\ pc[w] = "idle"
    /\ Approvers # {}
    /\ pc' = [pc EXCEPT ![w] = "lock"]
    /\ req' = [req EXCEPT ![w] = r]
    /\ UNCHANGED <<clock, store, version, mem, mu, tries, ver, late, used,
                   applied, stored>>

(* queueApproval of a finding whose change is proposable (fix mode, inside *)
(* the fix scope).  The instant is read here, before the mutex is taken.   *)
BeginPropose(w) ==
    \E ch \in Rebuilds[Host[w]] :
        Begin(w, ProposeRequest(ch, clock))

BeginApprove(w) ==
    \E id \in used, u \in Users :
        Begin(w, DecideRequest("approve", id, u))

BeginReject(w) ==
    \E id \in used, u \in Users :
        Begin(w, DecideRequest("reject", id, u))

(* a.mu.Lock, and the retry loop of updateQueue starts. *)
Acquire(w) ==
    /\ pc[w] = "lock"
    /\ mu[Host[w]] = NoWorker
    /\ mu' = [mu EXCEPT ![Host[w]] = w]
    /\ pc' = [pc EXCEPT ![w] = "load"]
    /\ tries' = [tries EXCEPT ![w] = 1]
    /\ UNCHANGED <<clock, store, version, mem, req, ver, late, used, applied,
                   stored>>

--------------------------------------------------------------------------------
(* reloadLocked and the step of the operation: the queue is read, replaces  *)
(* the in-memory copy and is changed there under the mutex.                 *)

Kept(c, q) == [mem EXCEPT ![c] = IF c \in Viewed THEN q ELSE EmptyQueue]

(* updateQueue is over and leaves q in memory: release the mutex, go on at p. *)
Release(w, p, q) ==
    /\ mem' = Kept(Host[w], q)
    /\ mu' = [mu EXCEPT ![Host[w]] = NoWorker]
    /\ pc' = [pc EXCEPT ![w] = p]
    /\ tries' = [tries EXCEPT ![w] = 0]
    /\ ver' = [ver EXCEPT ![w] = 0]

(* The request returns, with or without an error. *)
Return(w, q) ==
    /\ Release(w, "idle", q)
    /\ req' = [req EXCEPT ![w] = NoRequest]

(* The step refused, or changed nothing that has to be stored. *)
NoWrite(w, q) ==
    /\ Return(w, q)
    /\ used' = used

(* The step changed the queue into q, which is to be written back. *)
Write(w, q) ==
    /\ mem' = [mem EXCEPT ![Host[w]] = q]
    /\ pc' = [pc EXCEPT ![w] = "save"]
    /\ ver' = [ver EXCEPT ![w] = version]
    /\ UNCHANGED <<mu, req, tries>>

Loading(w, op) ==
    /\ pc[w] = "load"
    /\ req[w].op = op
    /\ UNCHANGED <<clock, store, version, late, applied, stored>>

NewItem(r) == [state |-> "pending", change |-> r.change, created |-> r.now,
               expires |-> r.now + TTL, by |-> NoUser, result |-> NoResult]

(* propose: one pending item per change; the instant is the one read when  *)
(* the request began, on every attempt.                                    *)
ProposeStep(w) ==
    /\ Loading(w, "propose")
    /\ LET r == req[w]
           q == Expired(store, r.now)
       IN  IF Queued(q, r.change)
           THEN NoWrite(w, q)
           ELSE \E p \in Pruned(q) :
                   \/ NoWrite(w, p)  \* queue full, or no random id
                   \/ /\ HasRoom(p)
                      /\ \E id \in Ids \ used :
                            /\ Write(w, [p EXCEPT ![id] = NewItem(r)])
                            /\ used' = used \cup {id}

(* The step of ApproveFix: write ahead the decision. *)
ApproveStep(w) ==
    /\ Loading(w, "approve")
    /\ LET id == req[w].id
           q  == Expired(store, clock)
       IN  \/ /\ \/ store[id].state = "absent"
                 \/ req[w].user \notin Approvers
              /\ NoWrite(w, store)
           \/ /\ store[id].state # "absent"
              /\ req[w].user \in Approvers
              /\ \/ q[id].state # "pending"
                 \/ q[id].change \notin Rebuilds[Host[w]]
              /\ NoWrite(w, q)
           \/ /\ req[w].user \in Approvers
              /\ q[id].state = "pending"
              /\ q[id].change \in Rebuilds[Host[w]]
              /\ Write(w, Decide(q, id, "approved", req[w].user))
              /\ used' = used

(* The step of RejectFix. *)
RejectStep(w) ==
    /\ Loading(w, "reject")
    /\ LET id == req[w].id
           q  == Expired(store, clock)
       IN  \/ /\ store[id].state = "absent"
              /\ NoWrite(w, store)
           \/ /\ q[id].state \in Decided
              /\ NoWrite(w, q)
           \/ /\ q[id].state = "pending"
              /\ Write(w, Decide(q, id, "rejected", req[w].user))
              /\ used' = used

(* The step of recordResult. *)
RecordStep(w) ==
    /\ Loading(w, "record")
    /\ LET id == req[w].id
       IN  \/ /\ store[id].state = "absent"
              /\ NoWrite(w, store)
           \/ /\ store[id].state # "absent"
              /\ Write(w, WithResult(store, id, req[w].result))
              /\ used' = used

LoadFailsLocked(w) ==
    /\ pc[w] = "load"
    /\ pc' = [pc EXCEPT ![w] = "idle"]
    /\ req' = [req EXCEPT ![w] = NoRequest]
    /\ UNCHANGED <<clock, store, version, mem, mu, tries, ver, late, used, applied,
                   stored>>

(* The stored queue cannot be read: the in-memory copy stays as it is. *)
LoadFails(w) ==
    /\ pc[w] = "load"
    /\ Return(w, mem[Host[w]])
    /\ UNCHANGED <<clock, store, version, late, used, applied, stored>>

--------------------------------------------------------------------------------
(* saveQueue: the write as a compare and swap on the resourceVersion read. *)

AnyVersion(v) == TRUE

(* The API server accepts a write that carries the current resourceVersion. *)
Current(v) == v = version

(* The API server replaces the stored queue by q. *)
Store(q) ==
    /\ store' = q
    /\ version' = version + 1
    /\ stored' = [id \in Ids |-> stored[id] \cup ({q[id].state} \ {"absent"})]

(* The write succeeds.  ApproveFix goes on to the gate, without the mutex; *)
(* every other operation returns.                                         *)
SaveOk(w) ==
    /\ pc[w] = "save"
    /\ Current(ver[w])
    /\ Store(mem[Host[w]])
    /\ IF req[w].op = "approve"
       THEN Release(w, "apply", mem[Host[w]]) /\ req' = req
       ELSE Return(w, mem[Host[w]])
    /\ UNCHANGED <<clock, late, used, applied>>

(* retry.DefaultRetry.Steps *)
MayRetry(w) == tries[w] < MaxTries

(* Another controller wrote first: read and run the step again, or give up *)
(* after the last attempt.                                                 *)
SaveConflict(w) ==
    /\ pc[w] = "save"
    /\ ~Current(ver[w])
    /\ IF MayRetry(w)
       THEN /\ pc' = [pc EXCEPT ![w] = "load"]
            /\ tries' = [tries EXCEPT ![w] = @ + 1]
            /\ ver' = [ver EXCEPT ![w] = 0]
            /\ UNCHANGED <<mem, mu, req>>
       ELSE Return(w, mem[Host[w]])
    /\ UNCHANGED <<clock, store, version, late, used, applied, stored>>

(* A write that its sender takes for failed may still reach the server. *)
Abandon(ws) ==
    \/ late' = late
    \/ /\ Cardinality(late) < MaxLate
       /\ \E w \in ws :
            /\ pc[w] = "save"
            /\ late' = late \cup {[ver |-> ver[w], items |-> mem[Host[w]]]}

SaveFailsIgnored(w) ==
    /\ pc[w] = "save"
    /\ Abandon({w})
    /\ IF req[w].op = "approve"
       THEN Release(w, "apply", mem[Host[w]]) /\ req' = req
       ELSE Return(w, mem[Host[w]])
    /\ UNCHANGED <<clock, store, version, used, applied, stored>>

(* The write fails with anything but a conflict: too large, refused or     *)
(* timed out.  Nothing is applied.                                         *)
SaveFails(w) ==
    /\ pc[w] = "save"
    /\ Abandon({w})
    /\ Return(w, mem[Host[w]])
    /\ UNCHANGED <<clock, store, version, used, applied, stored>>

(* An abandoned write reaches the API server, which stores or refuses it. *)
LateWrite ==
    \E l \in late :
        /\ late' = late \ {l}
        /\ IF Current(l.ver) THEN Store(l.items)
           ELSE UNCHANGED <<store, version, stored>>
        /\ UNCHANGED <<clock, mem, mu, pc, req, tries, ver, used, applied>>

--------------------------------------------------------------------------------
ApplyRetried(w) ==
    /\ pc[w] = "apply"
    /\ \E out \in ApplyCalled :
          /\ applied' = [applied EXCEPT ![req[w].id] = @ + 1]
          /\ req' = IF out = "failed" THEN req
                    ELSE [req EXCEPT ![w] = RecordRequest(req[w].id, out)]
          /\ pc' = IF out = "failed" THEN pc ELSE [pc EXCEPT ![w] = "lock"]
    /\ UNCHANGED <<clock, store, version, mem, mu, tries, ver, late, used, stored>>

(* applyMutation for an approved change, then recordResult. *)
Apply(w) ==
    /\ pc[w] = "apply"
    /\ \E out \in Outcomes :
          /\ applied' = IF out \in ApplyCalled
                        THEN [applied EXCEPT ![req[w].id] = @ + 1] ELSE applied
          /\ req' = [req EXCEPT ![w] = RecordRequest(req[w].id, out)]
    /\ pc' = [pc EXCEPT ![w] = "lock"]
    /\ UNCHANGED <<clock, store, version, mem, mu, tries, ver, late, used, stored>>

(* ListApprovals: it reloads the queue, or keeps the copy in memory when it *)
(* cannot be read, and marks what has expired; nothing is written.          *)
List(c) ==
    /\ c \in Viewed
    /\ mu[c] = NoWorker
    /\ \E q \in {store, mem[c]} : mem' = [mem EXCEPT ![c] = Expired(q, clock)]
    /\ UNCHANGED <<clock, store, version, mu, pc, req, tries, ver, late, used,
                   applied, stored>>

(* A controller dies and starts again with nothing in memory. *)
Crash(c) ==
    LET mine == {w \in Workers : Host[w] = c}
    IN  /\ mem' = [mem EXCEPT ![c] = EmptyQueue]
        /\ mu' = [mu EXCEPT ![c] = NoWorker]
        /\ pc' = [w \in Workers |-> IF w \in mine THEN "idle" ELSE pc[w]]
        /\ req' = [w \in Workers |-> IF w \in mine THEN NoRequest ELSE req[w]]
        /\ tries' = [w \in Workers |-> IF w \in mine THEN 0 ELSE tries[w]]
        /\ ver' = [w \in Workers |-> IF w \in mine THEN 0 ELSE ver[w]]
        /\ Abandon(mine)
        /\ UNCHANGED <<clock, store, version, used, applied, stored>>

Tick ==
    /\ clock < MaxClock
    /\ clock' = clock + 1
    /\ UNCHANGED <<store, version, mem, mu, pc, req, tries, ver, late, used,
                   applied, stored>>

--------------------------------------------------------------------------------
Load(w) == ProposeStep(w) \/ ApproveStep(w) \/ RejectStep(w) \/ RecordStep(w)
           \/ LoadFails(w)

Save(w) == SaveOk(w) \/ SaveConflict(w) \/ SaveFails(w)

Next ==
    \/ \E w \in Workers :
          \/ BeginPropose(w) \/ BeginApprove(w) \/ BeginReject(w)
          \/ Acquire(w) \/ Load(w) \/ Save(w) \/ Apply(w)
    \/ \E c \in Controllers : List(c) \/ Crash(c)
    \/ LateWrite
    \/ Tick

Spec == Init /\ [][Next]_vars

(* Goroutines are scheduled; sync.Mutex does not starve a waiter; reads and *)
(* writes of the ConfigMap end within storeTimeout.                         *)
Fairness ==
    \A w \in Workers : /\ SF_vars(Acquire(w))
                       /\ WF_vars(Load(w) \/ Save(w) \/ Apply(w))

FairSpec == Spec /\ Fairness

--------------------------------------------------------------------------------
(* Properties. *)

(* A queued change is carried out at most once, however many controllers    *)
(* are asked to approve it and however often they crash, retry or lose the  *)
(* answer of a write: ApproveFix decides by a compare and swap before it    *)
(* calls applyMutation.                                                     *)
AtMostOnce == \A id \in Ids : applied[id] <= 1

(* A change is carried out only after its approval was stored (write ahead), *)
(* and one that was rejected or expired in the store never is.               *)
AppliedWasApproved ==
    \A id \in Ids : applied[id] > 0 => stored[id] \cap Decided = {"approved"}

(* The first decision stored for an item is the only one: no write of       *)
(* another controller, late or retried, turns it into another.              *)
OneDecision ==
    \A id \in Ids : \A s, t \in stored[id] \cap Decided : s = t

(* The stored queue holds one pending item per change: propose returns the   *)
(* queued one, also when two controllers propose the change at once.         *)
OnePending ==
    \A i, j \in Ids :
        (/\ store[i].state = "pending" /\ store[j].state = "pending"
         /\ store[i].change = store[j].change) => i = j

(* The result stored for an item is what became of it: recordResult never    *)
(* claims a call of Apply that did not happen, nor hides one that did.       *)
ResultTrue ==
    \A id \in Ids : store[id].result # NoResult =>
        (applied[id] = 1 <=> store[id].result \in ApplyCalled)

(* A pending item that is not overdue is never lost: pruneLocked drops only  *)
(* decided items, nothing expires early, although propose uses an instant it *)
(* read before it waited for the mutex, and no controller overwrites the     *)
(* queue with a copy that lacks the item.                                    *)
PendingKept ==
    [][\A id \in Ids :
          store[id].state = "pending" /\ clock < store[id].expires
             => store'[id].state \in {"pending", "approved", "rejected"}]_vars

(* Every request returns: the retry loop ends and the mutex is released on   *)
(* every path of updateQueue.                                                *)
RequestReturns == \A w \in Workers : pc[w] # "idle" ~> pc[w] = "idle"

--------------------------------------------------------------------------------
(* The abstract queue this one implements. *)

(* An item that expires and is dropped by the same write is never stored as  *)
(* expired.                                                                  *)
AbstractDecision ==
    [id \in Ids |->
        IF stored[id] = {} THEN "none"
        ELSE IF stored[id] \cap Decided # {}
        THEN CHOOSE s \in stored[id] \cap Decided : TRUE
        ELSE IF id \in Held(store) THEN "pending" ELSE "expired"]

Abstract == INSTANCE ApprovalQueue
                WITH decision <- AbstractDecision, held <- Held(store), runs <- applied

(* The controllers together implement the abstract queue: every stored write *)
(* is one Commit, every call of Apply one Run, everything else a stutter.    *)
ImplementsQueue == Abstract!QueueSpec

--------------------------------------------------------------------------------
(* The inductive invariant behind AtMostOnce, AppliedWasApproved and         *)
(* OneDecision.                                                              *)

(* What a write based on the current resourceVersion may do to the store:    *)
(* only pending items are decided, only an id that was never stored enters.  *)
Follows(q) ==
    \A id \in Ids :
        /\ q[id].state = "pending" => store[id].state = "pending" \/ stored[id] = {}
        /\ q[id].state \in Decided => store[id].state \in {"pending", q[id].state}
        /\ q[id].state # "absent" => id \in used

StoredInv ==
    \A id \in Ids :
        /\ store[id].state # "absent" => store[id].state \in stored[id]
        /\ store[id].state = "pending" => stored[id] \cap Decided = {}
        /\ stored[id] # {} => id \in used

RequestInv ==
    \A w \in Workers :
        req[w].op \in {"approve", "reject", "record"} => req[w].id \in Ids

MutexInv ==
    \A w \in Workers : pc[w] \in {"load", "save"} => mu[Host[w]] = w

WriteInv ==
    \A w \in Workers : pc[w] = "save" =>
        /\ ver[w] <= version
        /\ ver[w] = version =>
              /\ Follows(mem[Host[w]])
              /\ req[w].op = "approve" => /\ store[req[w].id].state = "pending"
                                         /\ mem[Host[w]][req[w].id].state = "approved"

LateInv ==
    \A l \in late : l.ver <= version /\ (l.ver = version => Follows(l.items))

(* The right to carry out id is held by one worker, until it is used. *)
TokenInv ==
    /\ \A w \in Workers : pc[w] = "apply" =>
          /\ req[w].op = "approve"
          /\ "approved" \in stored[req[w].id]
          /\ applied[req[w].id] = 0
    /\ \A v, w \in Workers :
          pc[v] = "apply" /\ pc[w] = "apply" /\ req[v].id = req[w].id => v = w
    /\ \A id \in Ids : applied[id] > 0 => "approved" \in stored[id]

(* Every stored decision is final, no write in progress can undo one, and    *)
(* at most one worker may carry out a change that was not carried out yet.   *)
IndInv ==
    /\ TypeOK /\ StoredInv /\ RequestInv /\ MutexInv /\ WriteInv /\ LateInv
    /\ TokenInv /\ AtMostOnce /\ OneDecision
================================================================================
