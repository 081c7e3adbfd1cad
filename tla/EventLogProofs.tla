---------------------------- MODULE EventLogProofs ----------------------------
(***************************************************************************)
(* Proofs about EventLog, for any number of agents and controllers and for  *)
(* any sizes of batch, buffer and ring.  The invariant has three layers:    *)
(* Base (types, and the numbers that queues and logs give), Carry (where an *)
(* event may be, which gives EventsArrive) and OnceInv (who may still send  *)
(* which event to whom, which gives LogInOrder).                            *)
(***************************************************************************)
EXTENDS EventLog, FiniteSetTheorems, SequenceTheorems, WellFoundedInduction, TLAPS

--------------------------------------------------------------------------------
(* The invariant. *)

(* The queue of f, as a set. *)
Items(f) == {buf[f][i] : i \in DOMAIN buf[f]}

(* A Flush of f is under way. *)
Sending(f) == flush[f].batch # <<>>

(* The events of that Flush. *)
Batch(f) == {flush[f].batch[i] : i \in DOMAIN flush[f].batch}

(* The entries of the ring of c. *)
RingSet(c) == {ring[c][i] : i \in DOMAIN ring[c]}

(* The lines of the file of c. *)
FileSet(c) == {file[c][i] : i \in DOMAIN file[c]}

(* The events that the log of c holds, in memory or in its file. *)
Held(c) == {x.ev : x \in RingSet(c) \cup FileSet(c)}

(* Ids increase along the log. *)
Increasing(s) == \A i, j \in DOMAIN s : i < j => s[i].id < s[j].id

(* In the log of c the next id is greater than all in the ring, and, unless  *)
(* its file was once not read to its end, the ids increase and the next one  *)
(* is greater than all; the ids of any file have a bound.                    *)
Ordered(c) ==
    /\ c \notin misread =>
          /\ Increasing(file[c]) /\ Increasing(ring[c])
          /\ mode[c] # "down" => \A x \in FileSet(c) : x.id < nextID[c]
    /\ IF mode[c] = "down" THEN ring[c] = <<>> ELSE \A x \in RingSet(c) : x.id < nextID[c]
    /\ \E top \in Nat : \A x \in FileSet(c) : x.id < top

(* Every log is so ordered. *)
Order == \A c \in Controllers : Ordered(c)

(* Each queue holds consecutive numbers that end at nextSeq: an event        *)
(* dropped from a full queue is its oldest, and a Flush removes a prefix.    *)
Numbers ==
    \A f \in Forwarders :
        /\ Len(buf[f]) <= nextSeq[f]
        /\ \A i \in DOMAIN buf[f] : buf[f][i].seq = nextSeq[f] - Len(buf[f]) + i

(* The batch under way covers every queued event up to its last number,      *)
(* whatever was recorded or dropped since, and a controller is no target of  *)
(* its own.                                                                  *)
Flushing ==
    \A f \in Forwarders :
        /\ flush[f] = Idle \/ Sending(f)
        /\ Sending(f) => /\ flush[f].last <= nextSeq[f] /\ buf[f] # <<>>
                         /\ \A r \in Items(f) : r.seq <= flush[f].last => r.ev \in Batch(f)
                         /\ f \in Controllers => f \notin flush[f].todo

(* An event that may be forgotten: stored, counted as dropped, or not        *)
(* watched.                                                                  *)
Safe(e) == \/ e \in Unwatched
           \/ \E f \in Forwarders : e \in dropped[f]
           \/ \E c \in Controllers : e \in stored[c]

(* An agent that has nobody left to ask may forget its batch; what a         *)
(* controller has queued it has stored; and every event is safe or queued.   *)
Carried ==
    /\ \A c \in Controllers :
          /\ mode[c] = "down" => stored[c] = {}
          /\ \A r \in Items(c) : r.ev \in stored[c]
    /\ \A a \in Agents : Sending(a) /\ flush[a].todo = {} => \A e \in Batch(a) : Safe(e)
    /\ \A e \in 1..recorded : Safe(e) \/ \E f \in Forwarders : \E r \in Items(f) : r.ev = e

(* Event r of c is still to be sent to d. *)
Open(c, d, r) == Sending(c) /\ d \notin flush[c].todo => r.seq > flush[c].last

(* What d misses of the events that c owes it is still to be sent to it. *)
Copied ==
    \A c \in Controllers : \A d \in Controllers \ {c} : mode[d] # "down" =>
        \A e \in owed[c][d] :
            \/ e \in stored[d] \cup dropped[c] \cup Unwatched
            \/ \E r \in Items(c) : r.ev = e /\ Open(c, d, r)

(* No event is anywhere before it is recorded. *)
Fresh ==
    /\ \A f \in Forwarders : /\ \A r \in Items(f) : r.ev <= recorded
                             /\ \A e \in Batch(f) : e <= recorded
    /\ \A c \in Controllers : \A e \in Held(c) : e <= recorded

(* No event twice. *)
OneEach(S) == \A x, y \in S : x.ev = y.ev => x = y

(* The events that agent a will send, or is sending. *)
Waiting(a) == {r.ev : r \in {r \in Items(a) : Sending(a) /\ flush[a].todo = {} => r.seq > flush[a].last}}
              \cup (IF flush[a].todo = {} THEN {} ELSE Batch(a))

(* No log and no queue repeats an event; only the leader has events to copy; *)
(* what an agent has left to send is in no other hands; and what a           *)
(* controller has left to send to a peer, that peer does not hold.           *)
Once ==
    /\ \A c \in Controllers : OneEach(RingSet(c)) /\ OneEach(FileSet(c))
    /\ \A f \in Forwarders :
          /\ OneEach(Items(f)) /\ IsInjective(flush[f].batch)
          /\ Sending(f) => \A r \in Items(f) : r.seq > flush[f].last => r.ev \notin Batch(f)
    /\ \A c \in Controllers : buf[c] # <<>> => leader = c
    /\ \A a, b \in Agents : a # b => Waiting(a) \cap Waiting(b) = {}
    /\ \A a \in Agents, c \in Controllers :
          /\ Waiting(a) \cap Held(c) = {} /\ Waiting(a) \cap Batch(c) = {}
          /\ \A r \in Items(c) : r.ev \notin Waiting(a)
    /\ \A c \in Controllers : \A d \in Controllers \ {c} :
          /\ \A r \in Items(c) : Open(c, d, r) => r.ev \notin Held(d)
          /\ d \in flush[c].todo => Batch(c) \cap Held(d) = {}

(* A controller with an empty ring that may backfill has an empty file,      *)
(* unless that file was not read to its end ...                              *)
LoadedIsFile ==
    \A c \in Controllers :
        mode[c] = "loaded" /\ ring[c] = <<>> /\ c \notin misread => file[c] = <<>>

(* ... which repeats tells. *)
Told == misread # {} => repeats

(* An agent asks one controller. *)
Targets == \A a \in Agents : \A x, y \in flush[a].todo : x = y

(* The third layer, as far as it needs no absence of repeats ... *)
Plain == LoadedIsFile /\ Fresh /\ Targets

(* ... and in full. *)
OnceInv == Plain /\ Told /\ (~repeats => Once)

--------------------------------------------------------------------------------
(* handleIngest. *)

(* Numbering a finite set of numbers in increasing order: every rank from 1  *)
(* to the size of the set is taken by exactly one element.                   *)
LEMMA Ranks ==
    ASSUME NEW W, W \subseteq Nat, IsFiniteSet(W)
    PROVE  /\ \A i \in W : Cardinality({j \in W : j <= i}) \in 1..Cardinality(W)
           /\ \A i, k \in W :
                 Cardinality({j \in W : j <= i}) = Cardinality({j \in W : j <= k}) => i = k
           /\ \A n \in 1..Cardinality(W) : \E i \in W : Cardinality({j \in W : j <= i}) = n
<1> DEFINE Upto(i) == {j \in W : j <= i}
           rank == [i \in W |-> Cardinality(Upto(i))]
<1>1. ASSUME NEW i \in W
      PROVE  /\ IsFiniteSet(Upto(i)) /\ Cardinality(Upto(i)) \in Nat
             /\ Cardinality(Upto(i)) <= Cardinality(W) /\ Cardinality(W) \in Nat
             /\ Cardinality(Upto(i)) # 0
  <2>1. Upto(i) \in SUBSET W
    OBVIOUS
  <2>2. IsFiniteSet(Upto(i)) /\ Cardinality(Upto(i)) <= Cardinality(W)
    BY <2>1, FS_Subset
  <2>3. i \in Upto(i)
    OBVIOUS
  <2>4. Cardinality(Upto(i)) # 0
    <3>1. Upto(i) # {}
      BY <2>3
    <3> HIDE DEF Upto
    <3>2. QED  BY <3>1, <2>2, FS_EmptySet
  <2>5. Cardinality(Upto(i)) \in Nat /\ Cardinality(W) \in Nat
    BY <2>2, FS_CardinalityType
  <2>6. QED  BY <2>2, <2>4, <2>5
<1>2. \A i \in W : Cardinality(Upto(i)) \in 1..Cardinality(W)
  <2> HIDE DEF Upto
  <2>1. QED  BY <1>1
<1>3. ASSUME NEW i \in W, NEW k \in W, i < k
      PROVE  Cardinality(Upto(i)) # Cardinality(Upto(k))
  <2>1. Upto(i) \in SUBSET Upto(k)
    <3>1. ASSUME NEW j \in W, j <= i  PROVE  j <= k
      <4>1. j \in Nat /\ i \in Nat /\ k \in Nat
        OBVIOUS
      <4>2. QED  BY <4>1, <3>1, <1>3
    <3>2. QED  BY <3>1
  <2>2. k \in Upto(k) /\ k \notin Upto(i)
    BY <1>3
  <2>3. Upto(i) # Upto(k)
    BY <2>2
  <2> HIDE DEF Upto
  <2>4. QED  BY <2>1, <2>3, <1>1, FS_Subset
<1>4. \A i, k \in W : Cardinality(Upto(i)) = Cardinality(Upto(k)) => i = k
  <2> SUFFICES ASSUME NEW i \in W, NEW k \in W, i # k
               PROVE  Cardinality(Upto(i)) # Cardinality(Upto(k))
    OBVIOUS
  <2>1. i < k \/ k < i
    OBVIOUS
  <2> HIDE DEF Upto
  <2>2. QED  BY <2>1, <1>3
<1>5. ASSUME NEW n \in 1..Cardinality(W)
      PROVE  \E i \in W : Cardinality(Upto(i)) = n
  <2> HIDE DEF Upto
  <2>1. Cardinality(W) \in Nat
    BY FS_CardinalityType
  <2>2. IsFiniteSet(1..Cardinality(W)) /\ Cardinality(1..Cardinality(W)) = Cardinality(W)
    BY <2>1, FS_Interval
  <2>3. rank \in Injection(W, 1..Cardinality(W))
    BY <1>2, <1>4 DEF Injection, IsInjective
  <2>4. rank \in Surjection(W, 1..Cardinality(W))
    <3> HIDE DEF rank
    <3>1. QED  BY <2>2, <2>3, FS_Injection
  <2>5. \E i \in W : rank[i] = n
    <3> HIDE DEF rank
    <3>1. QED  BY <2>4 DEF Surjection
  <2>6. QED  BY <2>5
<1>6. QED  BY <1>2, <1>4, <1>5

(* handleIngest passes on exactly the watched events of a batch, and does    *)
(* not repeat one that the batch does not repeat.                            *)
LEMMA AcceptedEvents ==
    ASSUME NEW evs \in Seq(Nat)
    PROVE  /\ Accepted(evs) \in Seq(Nat)
           /\ {Accepted(evs)[n] : n \in DOMAIN Accepted(evs)}
                 = {evs[i] : i \in DOMAIN evs} \ Unwatched
           /\ IsInjective(evs) => IsInjective(Accepted(evs))
<1> DEFINE W == Watched(evs)
           Rank(i) == Cardinality({j \in W : j <= i})
           At(n) == CHOOSE i \in W : Rank(i) = n
<1>1. W \subseteq 1..Len(evs) /\ W \subseteq Nat /\ DOMAIN evs = 1..Len(evs) /\ Len(evs) \in Nat
  BY DEF Watched
<1>2. IsFiniteSet(W)
  <2>1. IsFiniteSet(1..Len(evs))
    BY <1>1, FS_Interval
  <2> HIDE DEF W
  <2>2. QED  BY <2>1, <1>1, FS_Subset
<1>3. Cardinality(W) \in Nat
  BY <1>2, FS_CardinalityType
<1>4. /\ \A i \in W : Rank(i) \in 1..Cardinality(W)
      /\ \A i, k \in W : Rank(i) = Rank(k) => i = k
      /\ \A n \in 1..Cardinality(W) : \E i \in W : Rank(i) = n
  <2> HIDE DEF W
  <2>1. QED  BY <1>1, <1>2, Ranks
<1>5. /\ \A n \in 1..Cardinality(W) : At(n) \in W /\ Rank(At(n)) = n
      /\ \A i \in W : At(Rank(i)) = i
  <2> HIDE DEF W, Rank
  <2>1. QED  BY <1>4
<1>6. Accepted(evs) = [n \in 1..Cardinality(W) |-> evs[At(n)]]
  BY DEF Accepted
<1>7. \A i \in W : evs[i] \in Nat /\ evs[i] \notin Unwatched /\ i \in DOMAIN evs
  BY DEF Watched
<1>8. \A i \in DOMAIN evs : evs[i] \notin Unwatched => i \in W
  BY DEF Watched
<1> HIDE DEF W, Rank, At
<1>9. Accepted(evs) \in [1..Cardinality(W) -> Nat]
  BY <1>5, <1>6, <1>7
<1>10. Accepted(evs) \in Seq(Nat)
  BY <1>9, <1>3, IsASeq
<1>11. {Accepted(evs)[n] : n \in DOMAIN Accepted(evs)} = {evs[i] : i \in DOMAIN evs} \ Unwatched
  <2>1. ASSUME NEW n \in DOMAIN Accepted(evs)
        PROVE  Accepted(evs)[n] \in {evs[i] : i \in DOMAIN evs} \ Unwatched
    BY <1>5, <1>6, <1>7
  <2>2. ASSUME NEW i \in DOMAIN evs, evs[i] \notin Unwatched
        PROVE  evs[i] \in {Accepted(evs)[n] : n \in DOMAIN Accepted(evs)}
    <3>1. i \in W /\ Rank(i) \in 1..Cardinality(W) /\ At(Rank(i)) = i
      BY <2>2, <1>8, <1>4, <1>5
    <3>2. Rank(i) \in DOMAIN Accepted(evs) /\ Accepted(evs)[Rank(i)] = evs[i]
      BY <3>1, <1>6
    <3>3. QED  BY <3>2
  <2>3. QED  BY <2>1, <2>2
<1>12. IsInjective(evs) => IsInjective(Accepted(evs))
  BY <1>5, <1>6, <1>7 DEF IsInjective
<1>13. QED  BY <1>10, <1>11, <1>12

--------------------------------------------------------------------------------
(* The Forwarder. *)

(* A queued event and its number. *)
QueueItems == [seq : Nat, ev : Nat]

(* What Enqueue of evs adds to the queue of f. *)
Added(f, evs) == {[seq |-> nextSeq[f] + i, ev |-> evs[i]] : i \in DOMAIN evs}

(* The bounds as numbers. *)
LEMMA Bounds ==
    /\ MaxBatch \in Nat /\ MaxBatch > 0 /\ BufferSize \in Nat /\ BufferSize > 0
    /\ MaxLen \in Nat /\ MaxLen > 0
    /\ MaxEvents \in Nat /\ MaxFaults \in Nat /\ MaxElections \in Nat
<1>1. {MaxBatch, BufferSize, MaxLen} \subseteq Nat \ {0} /\ {MaxEvents, MaxFaults, MaxElections} \subseteq Nat
  BY EventLogAssumption
<1>2. /\ MaxBatch \in Nat \ {0} /\ BufferSize \in Nat \ {0} /\ MaxLen \in Nat \ {0}
      /\ MaxEvents \in Nat /\ MaxFaults \in Nat /\ MaxElections \in Nat
  BY <1>1, Zenon
<1>3. QED  BY <1>2

(* What a sequence without its first k elements holds. *)
LEMMA Suffix ==
    ASSUME NEW S, NEW s \in Seq(S), NEW k \in Nat, k <= Len(s)
    PROVE  LET t == SubSeq(s, k + 1, Len(s)) IN
           /\ t \in Seq(S) /\ Len(t) = Len(s) - k
           /\ \A i \in 1..Len(t) : k + i \in 1..Len(s) /\ t[i] = s[k + i]
           /\ \A i \in 1..Len(s) : i > k => i - k \in 1..Len(t) /\ t[i - k] = s[i]
<1> DEFINE t == SubSeq(s, k + 1, Len(s))
<1>1. Len(s) \in Nat /\ \A i \in 1..Len(s) : s[i] \in S
  OBVIOUS
<1>2. k + 1 \in Int /\ Len(s) \in Int /\ \A i \in (k + 1)..Len(s) : s[i] \in S
  BY <1>1
<1>3. /\ t \in Seq(S)
      /\ Len(t) = IF k + 1 <= Len(s) THEN Len(s) - (k + 1) + 1 ELSE 0
      /\ \A i \in 1..Len(s) - (k + 1) + 1 : t[i] = s[(k + 1) + i - 1]
  BY <1>2, SubSeqProperties
<1> HIDE DEF t
<1>4. Len(t) = Len(s) - k /\ Len(t) \in Nat
  BY <1>1, <1>3
<1>5. ASSUME NEW i \in 1..Len(t)
      PROVE  k + i \in 1..Len(s) /\ t[i] = s[k + i]
  <2>1. i \in 1..Len(s) - (k + 1) + 1 /\ (k + 1) + i - 1 = k + i /\ k + i \in 1..Len(s)
    BY <1>1, <1>4
  <2>2. QED  BY <2>1, <1>3
<1>6. ASSUME NEW i \in 1..Len(s), i > k
      PROVE  i - k \in 1..Len(t) /\ t[i - k] = s[i]
  <2>1. i - k \in 1..Len(t) /\ k + (i - k) = i
    BY <1>1, <1>4, <1>6
  <2>2. t[i - k] = s[k + (i - k)]
    BY <2>1, <1>5
  <2>3. QED  BY <2>1, <2>2
<1>7. QED  BY <1>3, <1>4, <1>5, <1>6 DEF t

(* What a concatenation holds. *)
LEMMA Joined ==
    ASSUME NEW S, NEW s \in Seq(S), NEW t \in Seq(S), NEW u, u = s \o t
    PROVE  /\ u \in Seq(S) /\ Len(u) = Len(s) + Len(t)
           /\ \A i \in 1..Len(s) : i \in 1..Len(u) /\ u[i] = s[i]
           /\ \A i \in 1..Len(t) : Len(s) + i \in 1..Len(u) /\ u[Len(s) + i] = t[i]
           /\ \A i \in 1..Len(u) : i > Len(s) => i - Len(s) \in 1..Len(t) /\ u[i] = t[i - Len(s)]
<1>1. Len(s) \in Nat /\ Len(t) \in Nat
  OBVIOUS
<1>2. /\ u \in Seq(S) /\ Len(u) = Len(s) + Len(t)
      /\ \A i \in 1 .. Len(s) + Len(t) : u[i] = IF i <= Len(s) THEN s[i] ELSE t[i - Len(s)]
  BY ConcatProperties
<1>3. \A i \in 1..Len(s) : i \in 1..Len(u) /\ u[i] = s[i]
  BY <1>1, <1>2
<1>4. ASSUME NEW i \in 1..Len(t)
      PROVE  Len(s) + i \in 1..Len(u) /\ u[Len(s) + i] = t[i]
  <2>1. Len(s) + i \in 1..Len(s) + Len(t) /\ ~(Len(s) + i <= Len(s)) /\ (Len(s) + i) - Len(s) = i
    BY <1>1
  <2>2. u[Len(s) + i] = t[(Len(s) + i) - Len(s)]
    BY <2>1, <1>2
  <2>3. QED  BY <2>1, <2>2, <1>2
<1>5. ASSUME NEW i \in 1..Len(u), i > Len(s)
      PROVE  i - Len(s) \in 1..Len(t) /\ u[i] = t[i - Len(s)]
  <2>1. i \in 1..Len(s) + Len(t) /\ ~(i <= Len(s)) /\ i - Len(s) \in 1..Len(t)
    BY <1>1, <1>2, <1>5
  <2>2. QED  BY <2>1, <1>2
<1>6. QED  BY <1>2, <1>3, <1>4, <1>5

(* Forwarder.Record numbers the new events on, and each event is in the      *)
(* queue after it or counted as dropped.                                     *)
LEMMA Enqueued ==
    ASSUME TypeOK, Numbers, NEW f \in Forwarders, NEW evs \in Seq(Nat), Enqueue(f, evs)
    PROVE  /\ buf' \in [Forwarders -> Seq(QueueItems)] /\ Len(buf'[f]) <= BufferSize
           /\ nextSeq' \in [Forwarders -> Nat] /\ nextSeq'[f] = nextSeq[f] + Len(evs)
           /\ dropped' \in [Forwarders -> SUBSET Nat] /\ dropped[f] \subseteq dropped'[f]
           /\ \A g \in Forwarders \ {f} :
                 buf'[g] = buf[g] /\ nextSeq'[g] = nextSeq[g] /\ dropped'[g] = dropped[g]
           /\ Len(buf'[f]) <= nextSeq'[f]
           /\ \A i \in DOMAIN buf'[f] : buf'[f][i].seq = nextSeq'[f] - Len(buf'[f]) + i
           /\ Items(f)' \subseteq Items(f) \cup Added(f, evs)
           /\ \A r \in Items(f) \cup Added(f, evs) : r \in Items(f)' \/ r.ev \in dropped'[f]
           /\ buf'[f] = <<>> <=> buf[f] = <<>> /\ evs = <<>>
<1> DEFINE b == buf[f]
           add == [i \in DOMAIN evs |-> [seq |-> nextSeq[f] + i, ev |-> evs[i]]]
           q == b \o add
           k == Excess(q)
           new == SubSeq(q, k + 1, Len(q))
           low == nextSeq[f] - Len(b)
<1>1. b \in Seq(QueueItems) /\ Len(b) \in Nat /\ DOMAIN b = 1..Len(b) /\ nextSeq[f] \in Nat
  BY DEF TypeOK, QueueItems
<1>2. Len(b) <= nextSeq[f] /\ \A i \in 1..Len(b) : b[i].seq = low + i
  BY <1>1 DEF Numbers
<1>3. evs \in [1..Len(evs) -> Nat] /\ DOMAIN evs = 1..Len(evs) /\ Len(evs) \in Nat
  OBVIOUS
<1>4. add \in Seq(QueueItems) /\ Len(add) = Len(evs)
  <2>1. add \in [1..Len(evs) -> QueueItems]
    BY <1>1, <1>3 DEF QueueItems
  <2>2. add \in Seq(QueueItems)
    BY <2>1, <1>3, IsASeq
  <2>3. DOMAIN add = 1..Len(evs)
    BY <1>3
  <2> HIDE DEF add
  <2>4. QED  BY <2>2, <2>3, <1>3, LenProperties
<1>5. \A i \in 1..Len(evs) : add[i] = [seq |-> nextSeq[f] + i, ev |-> evs[i]]
  BY <1>3
<1>6. /\ buf' = [buf EXCEPT ![f] = new]
      /\ nextSeq' = [nextSeq EXCEPT ![f] = nextSeq[f] + Len(evs)]
      /\ dropped' = [dropped EXCEPT ![f] = dropped[f] \cup {q[i].ev : i \in 1..k}]
  BY DEF Enqueue, Queued
<1>7. Added(f, evs) = {add[i] : i \in 1..Len(evs)}
  BY <1>3, <1>5 DEF Added
<1>8. Items(f) = {b[i] : i \in 1..Len(b)}
  BY <1>1 DEF Items
<1> HIDE DEF add, b
<1>9. /\ q \in Seq(QueueItems) /\ Len(q) = Len(b) + Len(evs)
      /\ \A i \in 1..Len(b) : i \in 1..Len(q) /\ q[i] = b[i]
      /\ \A i \in 1..Len(evs) : Len(b) + i \in 1..Len(q) /\ q[Len(b) + i] = add[i]
      /\ \A i \in 1..Len(q) : i > Len(b) => i - Len(b) \in 1..Len(evs) /\ q[i] = add[i - Len(b)]
  <2>1. /\ q \in Seq(QueueItems) /\ Len(q) = Len(b) + Len(add)
        /\ \A i \in 1..Len(b) : i \in 1..Len(q) /\ q[i] = b[i]
        /\ \A i \in 1..Len(add) : Len(b) + i \in 1..Len(q) /\ q[Len(b) + i] = add[i]
        /\ \A i \in 1..Len(q) : i > Len(b) => i - Len(b) \in 1..Len(add) /\ q[i] = add[i - Len(b)]
    <3>1. b \in Seq(QueueItems) /\ add \in Seq(QueueItems)
      BY <1>1, <1>4
    <3>2. q = b \o add
      OBVIOUS
    <3> HIDE DEF q
    <3>3. QED  BY <3>1, <3>2, Joined
  <2> HIDE DEF q
  <2>2. QED  BY <2>1, <1>4
<1> HIDE DEF q
<1>10. Len(q) \in Nat
  BY <1>9
<1>11. \A i \in 1..Len(q) : q[i] \in QueueItems
  BY <1>9
<1>12. ASSUME NEW i \in 1..Len(q)
       PROVE  /\ q[i].seq = low + i /\ q[i] \in Items(f) \cup Added(f, evs)
  <2>1. CASE i <= Len(b)
    <3>1. i \in 1..Len(b)
      BY <2>1, <1>1, <1>10
    <3>2. QED  BY <3>1, <1>2, <1>8, <1>9
  <2>2. CASE i > Len(b)
    <3>1. i - Len(b) \in 1..Len(evs) /\ q[i] = add[i - Len(b)]
      BY <2>2, <1>9
    <3>2. q[i].seq = nextSeq[f] + (i - Len(b))
      <4>1. PICK j \in 1..Len(evs) : j = i - Len(b)
        BY <3>1
      <4>2. q[i] = [seq |-> nextSeq[f] + j, ev |-> evs[j]]
        BY <4>1, <3>1, <1>5
      <4>3. q[i].seq = nextSeq[f] + j
        BY <4>2
      <4>4. QED  BY <4>1, <4>3
    <3>3. q[i].seq = low + i
      BY <3>2, <1>1, <1>10
    <3>4. QED  BY <3>1, <3>3, <1>7
  <2>3. QED  BY <2>1, <2>2, <1>1, <1>10
<1>13. \A r \in Items(f) \cup Added(f, evs) : \E i \in 1..Len(q) : r = q[i]
  <2>1. \A r \in Items(f) : \E i \in 1..Len(q) : r = q[i]
    BY <1>8, <1>9
  <2>2. \A r \in Added(f, evs) : \E i \in 1..Len(q) : r = q[i]
    BY <1>7, <1>9
  <2>3. QED  BY <2>1, <2>2
<1>14. k \in Nat /\ k <= Len(q) /\ Len(q) - k <= BufferSize /\ (Len(q) - k = 0 <=> Len(q) = 0)
  BY <1>10, Bounds DEF Excess
<1> HIDE DEF k
<1>15. /\ new \in Seq(QueueItems) /\ Len(new) = Len(q) - k
       /\ \A i \in 1..Len(new) : k + i \in 1..Len(q) /\ new[i] = q[k + i]
       /\ \A i \in 1..Len(q) : i > k => i - k \in 1..Len(new) /\ new[i - k] = q[i]
  BY <1>9, <1>14, Suffix
<1> HIDE DEF new
<1>16. DOMAIN new = 1..Len(new) /\ Len(new) \in Nat
  BY <1>15
<1>17. buf'[f] = new /\ nextSeq'[f] = nextSeq[f] + Len(evs)
       /\ dropped'[f] = dropped[f] \cup {q[i].ev : i \in 1..k}
  BY <1>6 DEF TypeOK
<1>18. /\ buf' \in [Forwarders -> Seq(QueueItems)]
       /\ nextSeq' \in [Forwarders -> Nat]
       /\ dropped' \in [Forwarders -> SUBSET Nat]
  <2>1. buf' \in [Forwarders -> Seq(QueueItems)]
    BY <1>6, <1>15 DEF TypeOK, QueueItems
  <2>2. nextSeq' \in [Forwarders -> Nat]
    BY <1>1, <1>6, <1>3 DEF TypeOK
  <2>3. ASSUME NEW i \in 1..k  PROVE q[i].ev \in Nat
    <3>1. i \in 1..Len(q)
      BY <1>10, <1>14
    <3>2. QED  BY <3>1, <1>11 DEF QueueItems
  <2>4. dropped' \in [Forwarders -> SUBSET Nat]
    BY <1>6, <2>3 DEF TypeOK
  <2>5. QED  BY <2>1, <2>2, <2>4
<1>19. Len(new) <= BufferSize /\ Len(new) <= nextSeq'[f]
  BY <1>1, <1>2, <1>3, <1>9, <1>14, <1>15, <1>17
<1>20. ASSUME NEW i \in 1..Len(new)
       PROVE  /\ new[i].seq = nextSeq'[f] - Len(new) + i
              /\ new[i] \in Items(f) \cup Added(f, evs)
  <2>1. k + i \in 1..Len(q) /\ new[i] = q[k + i]
    BY <1>15
  <2>2. new[i].seq = low + (k + i) /\ new[i] \in Items(f) \cup Added(f, evs)
    BY <2>1, <1>12
  <2>3. low + (k + i) = nextSeq'[f] - Len(new) + i
    BY <1>1, <1>3, <1>9, <1>14, <1>15, <1>17
  <2>4. QED  BY <2>2, <2>3
<1>21. Items(f)' = {new[i] : i \in 1..Len(new)}
  BY <1>16, <1>17 DEF Items
<1>22. ASSUME NEW i \in 1..Len(q)
       PROVE  q[i] \in Items(f)' \/ q[i].ev \in dropped'[f]
  <2>1. CASE i <= k
    <3>1. i \in 1..k
      BY <2>1, <1>10, <1>14
    <3>2. QED  BY <3>1, <1>17
  <2>2. CASE i > k
    BY <2>2, <1>15, <1>21
  <2>3. QED  BY <2>1, <2>2, <1>10, <1>14
<1>23. new = <<>> <=> b = <<>> /\ evs = <<>>
  <2>1. new = <<>> <=> Len(new) = 0
    BY <1>15
  <2>2. b = <<>> <=> Len(b) = 0
    BY <1>1
  <2>3. evs = <<>> <=> Len(evs) = 0
    BY <1>3
  <2>4. Len(new) = 0 <=> Len(b) = 0 /\ Len(evs) = 0
    BY <1>1, <1>3, <1>9, <1>14, <1>15
  <2>5. QED  BY <2>1, <2>2, <2>3, <2>4
<1>24. \A g \in Forwarders \ {f} :
          buf'[g] = buf[g] /\ nextSeq'[g] = nextSeq[g] /\ dropped'[g] = dropped[g]
  BY <1>6 DEF TypeOK
<1>25. dropped[f] \subseteq dropped'[f]
  BY <1>17
<1>26. Items(f)' \subseteq Items(f) \cup Added(f, evs)
  BY <1>20, <1>21
<1>27. \A r \in Items(f) \cup Added(f, evs) : r \in Items(f)' \/ r.ev \in dropped'[f]
  BY <1>13, <1>22
<1>28. /\ Len(buf'[f]) <= BufferSize /\ Len(buf'[f]) <= nextSeq'[f]
       /\ \A i \in DOMAIN buf'[f] : buf'[f][i].seq = nextSeq'[f] - Len(buf'[f]) + i
  BY <1>16, <1>17, <1>19, <1>20
<1>29. buf'[f] = <<>> <=> buf[f] = <<>> /\ evs = <<>>
  BY <1>17, <1>23 DEF b
<1>30. QED  BY <1>17, <1>18, <1>24, <1>25, <1>26, <1>27, <1>28, <1>29

(* The end of Flush keeps exactly the events with a greater number than the  *)
(* last one sent, although Sent only drops a prefix: the queue holds         *)
(* consecutive numbers.                                                      *)
LEMMA SentItems ==
    ASSUME TypeOK, Numbers, NEW f \in Forwarders, NEW last \in Nat
    PROVE  LET rest == Sent(buf[f], last) IN
           /\ rest \in Seq(QueueItems) /\ Len(rest) <= BufferSize /\ Len(rest) <= nextSeq[f]
           /\ \A i \in DOMAIN rest : rest[i].seq = nextSeq[f] - Len(rest) + i
           /\ {rest[i] : i \in DOMAIN rest} = {r \in Items(f) : r.seq > last}
<1> DEFINE q == buf[f]
           U == Unsent(q, last)
           rest == Sent(q, last)
           low == nextSeq[f] - Len(q)
<1>1. /\ q \in Seq(QueueItems) /\ Len(q) \in Nat /\ DOMAIN q = 1..Len(q)
      /\ nextSeq[f] \in Nat /\ Len(q) <= BufferSize
  BY DEF TypeOK, QueueItems
<1>2. Len(q) <= nextSeq[f] /\ \A i \in 1..Len(q) : q[i].seq = low + i
  BY <1>1 DEF Numbers
<1>3. U = {i \in 1..Len(q) : low + i > last}
  BY <1>1, <1>2 DEF Unsent
<1>4. Items(f) = {q[i] : i \in 1..Len(q)}
  BY <1>1 DEF Items
<1>5. rest = IF U = {} THEN <<>> ELSE SubSeq(q, Min(U), Len(q))
  BY DEF Sent
<1> HIDE DEF U, rest, q
<1>6. low \in Nat
  BY <1>1, <1>2
<1> HIDE DEF low
<1> USE Bounds
<1>7. CASE U = {}
  <2>1. rest = <<>> /\ Len(rest) = 0 /\ rest \in Seq(QueueItems) /\ DOMAIN rest = {}
    BY <1>5, <1>7
  <2>2. ASSUME NEW i \in 1..Len(q)  PROVE ~(q[i].seq > last)
    BY <1>2, <1>3, <1>7
  <2>3. \A r \in Items(f) : ~(r.seq > last)
    BY <2>2, <1>4
  <2>4. {rest[i] : i \in DOMAIN rest} = {r \in Items(f) : r.seq > last}
    BY <2>1, <2>3
  <2>5. QED  BY <2>1, <2>4, <1>1 DEF rest, q
<1>8. CASE U # {}
  <2> DEFINE m == IF low >= last THEN 1 ELSE last - low + 1
  <2>1. m \in U /\ \A i \in U : m <= i
    BY <1>1, <1>3, <1>6, <1>8
  <2>2. Min(U) = m
    <3>1. \E x \in U : \A y \in U : x <= y
      BY <2>1
    <3>2. Min(U) \in U /\ \A y \in U : Min(U) <= y
      BY <3>1 DEF Min
    <3>3. \A i \in U : i \in Nat
      BY <1>3
    <3> HIDE DEF m
    <3>4. QED  BY <3>2, <3>3, <2>1
  <2>3. m \in 1..Len(q) /\ \A i \in 1..Len(q) : low + i > last <=> i >= m
    BY <2>1, <1>1, <1>3, <1>6
  <2> HIDE DEF m
  <2>4. m - 1 \in Nat /\ m - 1 <= Len(q) /\ (m - 1) + 1 = m
    BY <2>3, <1>1
  <2>5. /\ rest \in Seq(QueueItems) /\ Len(rest) = Len(q) - (m - 1)
        /\ \A i \in 1..Len(rest) : (m - 1) + i \in 1..Len(q) /\ rest[i] = q[(m - 1) + i]
        /\ \A i \in 1..Len(q) : i > m - 1 => i - (m - 1) \in 1..Len(rest)
                                             /\ rest[i - (m - 1)] = q[i]
    <3>1. rest = SubSeq(q, (m - 1) + 1, Len(q))
      BY <1>5, <1>8, <2>2, <2>4
    <3> DEFINE k == m - 1
               t == SubSeq(q, k + 1, Len(q))
    <3>2. k \in Nat /\ k <= Len(q) /\ q \in Seq(QueueItems)
      BY <2>4, <1>1
    <3> HIDE DEF k
    <3>3. /\ t \in Seq(QueueItems) /\ Len(t) = Len(q) - k
          /\ \A i \in 1..Len(t) : k + i \in 1..Len(q) /\ t[i] = q[k + i]
          /\ \A i \in 1..Len(q) : i > k => i - k \in 1..Len(t) /\ t[i - k] = q[i]
      BY <3>2, Suffix
    <3>4. rest = t
      BY <3>1 DEF k
    <3> HIDE DEF t
    <3>5. QED  BY <3>3, <3>4 DEF k
  <2>6. Len(rest) \in Nat /\ DOMAIN rest = 1..Len(rest) /\ Len(rest) <= Len(q)
    BY <2>3, <2>5, <1>1
  <2>7. ASSUME NEW i \in 1..Len(rest)
        PROVE  /\ rest[i].seq = nextSeq[f] - Len(rest) + i
               /\ rest[i] \in Items(f) /\ rest[i].seq > last
    <3>1. (m - 1) + i \in 1..Len(q) /\ rest[i] = q[(m - 1) + i]
      BY <2>5
    <3>2. rest[i].seq = low + ((m - 1) + i) /\ rest[i] \in Items(f)
      BY <3>1, <1>2, <1>4
    <3>3. (m - 1) + i >= m
      BY <2>3, <2>6
    <3>4. rest[i].seq > last
      BY <3>1, <3>2, <3>3, <2>3
    <3>5. low + ((m - 1) + i) = nextSeq[f] - Len(rest) + i
      BY <1>1, <1>2, <2>3, <2>5, <2>6 DEF low
    <3>6. QED  BY <3>2, <3>4, <3>5
  <2>8. ASSUME NEW i \in 1..Len(q), q[i].seq > last
        PROVE  q[i] \in {rest[j] : j \in 1..Len(rest)}
    <3>1. i >= m
      BY <2>8, <2>3, <1>2
    <3>2. i > m - 1
      BY <3>1, <2>3, <1>1
    <3>3. QED  BY <3>2, <2>5
  <2>9. \A r \in Items(f) : r.seq > last => r \in {rest[i] : i \in 1..Len(rest)}
    BY <2>8, <1>4
  <2>10. {rest[i] : i \in DOMAIN rest} = {r \in Items(f) : r.seq > last}
    BY <2>6, <2>7, <2>9
  <2>11. Len(rest) <= BufferSize /\ Len(rest) <= nextSeq[f]
    BY <2>6, <1>1, <1>2
  <2>12. QED  BY <2>5, <2>6, <2>7, <2>10, <2>11 DEF rest, q
<1>9. QED  BY <1>7, <1>8

--------------------------------------------------------------------------------
(* The Recorder. *)

(* The elements of a sequence. *)
Elements(s) == {s[i] : i \in DOMAIN s}

(* What Record of evs adds to the log of c. *)
NewEntries(c, evs) == {[id |-> nextID[c] + i - 1, ev |-> evs[i]] : i \in DOMAIN evs}

(* The ring keeps the last entries of what it is given, in their order, and  *)
(* is empty only when that is.                                               *)
LEMMA RingEntries ==
    ASSUME NEW s \in Seq(Entries)
    PROVE  /\ Ring(s) \in Seq(Entries) /\ Len(Ring(s)) <= MaxLen
           /\ Elements(Ring(s)) \subseteq Elements(s)
           /\ Increasing(s) => Increasing(Ring(s))
           /\ Ring(s) = <<>> => s = <<>>
<1> DEFINE k == IF Len(s) > MaxLen THEN Len(s) - MaxLen ELSE 0
           t == SubSeq(s, k + 1, Len(s))
<1>1. Len(s) \in Nat /\ DOMAIN s = 1..Len(s)
  OBVIOUS
<1>2. k \in Nat /\ k <= Len(s) /\ Len(s) - k <= MaxLen /\ (Len(s) - k = 0 => Len(s) = 0)
  <2>1. PICK n \in Nat : n = Len(s)
    BY <1>1
  <2>2. QED  BY <2>1, Bounds
<1>3. Ring(s) = t
  BY DEF Ring
<1> HIDE DEF k
<1>4. /\ t \in Seq(Entries) /\ Len(t) = Len(s) - k
      /\ \A i \in 1..Len(t) : k + i \in 1..Len(s) /\ t[i] = s[k + i]
  BY <1>2, Suffix
<1> HIDE DEF t
<1>5. DOMAIN t = 1..Len(t) /\ Len(t) \in Nat
  BY <1>4
<1>6. Elements(t) \subseteq Elements(s)
  BY <1>1, <1>4, <1>5 DEF Elements
<1>7. ASSUME Increasing(s)  PROVE  Increasing(t)
  <2> SUFFICES ASSUME NEW i \in 1..Len(t), NEW j \in 1..Len(t), i < j
               PROVE  t[i].id < t[j].id
    BY <1>5 DEF Increasing
  <2>1. k + i \in 1..Len(s) /\ t[i] = s[k + i] /\ k + j \in 1..Len(s) /\ t[j] = s[k + j]
    BY <1>4
  <2>2. k + i < k + j
    BY <1>2, <1>5
  <2>3. QED  BY <2>1, <2>2, <1>1, <1>7 DEF Increasing
<1>8. t = <<>> => s = <<>>
  <2>1. t = <<>> => Len(t) = 0
    OBVIOUS
  <2>2. Len(s) = 0 => s = <<>>
    OBVIOUS
  <2>3. QED  BY <2>1, <2>2, <1>2, <1>4
<1>9. QED  BY <1>2, <1>3, <1>4, <1>6, <1>7, <1>8

(* Appending later ids to a log with increasing ids keeps them increasing. *)
LEMMA JoinedEntries ==
    ASSUME NEW s \in Seq(Entries), NEW t \in Seq(Entries)
    PROVE  /\ s \o t \in Seq(Entries)
           /\ Elements(s \o t) = Elements(s) \cup Elements(t)
           /\ (/\ Increasing(s) /\ Increasing(t)
               /\ \A x \in Elements(s), y \in Elements(t) : x.id < y.id) => Increasing(s \o t)
<1>1. PICK u : u = s \o t
  OBVIOUS
<1>2. /\ Len(s) \in Nat /\ DOMAIN s = 1..Len(s) /\ Len(t) \in Nat /\ DOMAIN t = 1..Len(t)
  OBVIOUS
<1>3. /\ u \in Seq(Entries) /\ Len(u) = Len(s) + Len(t)
      /\ \A i \in 1..Len(s) : i \in 1..Len(u) /\ u[i] = s[i]
      /\ \A i \in 1..Len(t) : Len(s) + i \in 1..Len(u) /\ u[Len(s) + i] = t[i]
      /\ \A i \in 1..Len(u) : i > Len(s) => i - Len(s) \in 1..Len(t) /\ u[i] = t[i - Len(s)]
  BY <1>1, Joined
<1>4. DOMAIN u = 1..Len(u) /\ Len(u) \in Nat
  BY <1>3
<1>5. ASSUME NEW i \in 1..Len(u)
      PROVE  \/ i \in 1..Len(s) /\ u[i] = s[i]
             \/ i > Len(s) /\ i - Len(s) \in 1..Len(t) /\ u[i] = t[i - Len(s)]
  <2>1. i > Len(s) \/ i \in 1..Len(s)
    BY <1>2, <1>4
  <2>2. QED  BY <2>1, <1>3
<1>6. Elements(u) = Elements(s) \cup Elements(t)
  <2>1. \A i \in 1..Len(u) : u[i] \in Elements(s) \cup Elements(t)
    BY <1>2, <1>5 DEF Elements
  <2>2. \A i \in 1..Len(s) : s[i] \in Elements(u)
    BY <1>3, <1>4 DEF Elements
  <2>3. \A i \in 1..Len(t) : t[i] \in Elements(u)
    BY <1>3, <1>4 DEF Elements
  <2>4. QED  BY <2>1, <2>2, <2>3, <1>2, <1>4 DEF Elements
<1>7. ASSUME Increasing(s), Increasing(t), \A x \in Elements(s), y \in Elements(t) : x.id < y.id
      PROVE  Increasing(u)
  <2> SUFFICES ASSUME NEW i \in 1..Len(u), NEW j \in 1..Len(u), i < j
               PROVE  u[i].id < u[j].id
    BY <1>4 DEF Increasing
  <2>1. CASE i \in 1..Len(s) /\ j \in 1..Len(s)
    BY <2>1, <1>2, <1>3, <1>7 DEF Increasing
  <2>2. CASE i \in 1..Len(s) /\ j > Len(s)
    <3>1. u[i] = s[i] /\ s[i] \in Elements(s)
      BY <2>2, <1>2, <1>3 DEF Elements
    <3>2. j - Len(s) \in 1..Len(t) /\ u[j] = t[j - Len(s)]
      BY <2>2, <1>3
    <3>3. u[j] \in Elements(t)
      BY <3>2, <1>2 DEF Elements
    <3>4. QED  BY <3>1, <3>3, <1>7
  <2>3. CASE i > Len(s) /\ j > Len(s)
    <3>1. /\ i - Len(s) \in 1..Len(t) /\ u[i] = t[i - Len(s)]
          /\ j - Len(s) \in 1..Len(t) /\ u[j] = t[j - Len(s)]
      BY <2>3, <1>3
    <3>2. i - Len(s) < j - Len(s)
      BY <1>2, <1>4
    <3>3. QED  BY <3>1, <3>2, <1>2, <1>7 DEF Increasing
  <2>4. \/ i \in 1..Len(s) /\ j \in 1..Len(s)
        \/ i \in 1..Len(s) /\ j > Len(s)
        \/ i > Len(s) /\ j > Len(s)
    BY <1>2, <1>4
  <2>5. QED  BY <2>1, <2>2, <2>3, <2>4
<1>8. QED  BY <1>1, <1>3, <1>6, <1>7

(* The first lines of a log, in their order. *)
LEMMA Prefix ==
    ASSUME NEW s \in Seq(Entries), NEW n \in 0..Len(s)
    PROVE  LET t == SubSeq(s, 1, n) IN
           /\ t \in Seq(Entries) /\ Len(t) = n
           /\ \A i \in 1..n : i \in 1..Len(s) /\ t[i] = s[i]
           /\ Elements(t) \subseteq Elements(s)
           /\ Increasing(s) => Increasing(t)
           /\ n = Len(s) => t = s
<1> DEFINE t == SubSeq(s, 1, n)
<1>1. Len(s) \in Nat /\ DOMAIN s = 1..Len(s) /\ \A i \in 1..Len(s) : s[i] \in Entries
  OBVIOUS
<1>2. n \in Nat /\ n <= Len(s) /\ \A i \in 1..n : i \in 1..Len(s) /\ s[i] \in Entries
  BY <1>1
<1>3. /\ t \in Seq(Entries)
      /\ Len(t) = IF 1 <= n THEN n - 1 + 1 ELSE 0
      /\ \A i \in 1..n - 1 + 1 : t[i] = s[1 + i - 1]
  BY <1>2, SubSeqProperties
<1> HIDE DEF t
<1>4. Len(t) = n /\ \A i \in 1..n : t[i] = s[i]
  <2>1. Len(t) = n
    BY <1>2, <1>3
  <2>2. ASSUME NEW i \in 1..n  PROVE t[i] = s[i]
    <3>1. i \in 1..n - 1 + 1 /\ 1 + i - 1 = i
      BY <1>2
    <3>2. QED  BY <3>1, <1>3
  <2>3. QED  BY <2>1, <2>2
<1>5. DOMAIN t = 1..n
  BY <1>3, <1>4
<1>6. Elements(t) \subseteq Elements(s)
  BY <1>1, <1>2, <1>4, <1>5 DEF Elements
<1>7. Increasing(s) => Increasing(t)
  BY <1>1, <1>2, <1>4, <1>5 DEF Increasing
<1>8. n = Len(s) => t = s
  <2>1. ASSUME n = Len(s)  PROVE t = s
    <3>1. Len(t) = Len(s) /\ \A i \in 1..Len(t) : t[i] = s[i]
      BY <2>1, <1>4
    <3>2. QED  BY <3>1, <1>3, SeqEqual
  <2>2. QED  BY <2>1
<1>9. QED  BY <1>2, <1>3, <1>4, <1>6, <1>7, <1>8 DEF t

(* A set of numbers that has a bound has a greatest one. *)
LEMMA HasGreatest ==
    ASSUME NEW S \in SUBSET Nat, S # {}, NEW n \in Nat, \A x \in S : x <= n
    PROVE  \E m \in S : \A x \in S : x <= m
<1> DEFINE T == {k \in Nat : \E x \in S : k = n - x}
<1>1. T \subseteq Nat /\ T # {}
  <2>1. PICK x \in S : TRUE
    OBVIOUS
  <2>2. n - x \in Nat
    OBVIOUS
  <2>3. QED  BY <2>2
<1>2. PICK k \in T : \A j \in T : ~(<<j, k>> \in OpToRel(<, Nat))
  BY <1>1, NatLessThanWellFounded, WFMin
<1>3. \A j \in T : ~(j < k)
  <2>1. SUFFICES ASSUME NEW j \in T, j < k PROVE FALSE
    OBVIOUS
  <2>2. <<j, k>> \in OpToRel(<, Nat)
    BY <2>1 DEF OpToRel
  <2>3. QED  BY <2>2, <1>2
<1>4. PICK m \in S : k = n - m
  OBVIOUS
<1>5. \A x \in S : n - x \in T
  OBVIOUS
<1>6. QED  BY <1>3, <1>4, <1>5

(* loadFromFile goes on after every id it read. *)
LEMMA ResumesAfter ==
    ASSUME NEW s \in Seq(Entries), NEW top \in Nat, \A x \in Elements(s) : x.id < top
    PROVE  ResumeID(s) \in Nat /\ \A x \in Elements(s) : x.id < ResumeID(s)
<1> DEFINE I == {s[i].id : i \in DOMAIN s}
<1>1. DOMAIN s = 1..Len(s) /\ Len(s) \in Nat /\ \A i \in 1..Len(s) : s[i] \in Entries
  OBVIOUS
<1>2. \A i \in DOMAIN s : s[i].id \in Nat
  BY <1>1 DEF Entries
<1>3. I \in SUBSET Nat
  BY <1>2
<1>4. CASE s = <<>>
  BY <1>4 DEF ResumeID, Elements
<1>5. CASE s # <<>>
  <2>1. 1 \in DOMAIN s
    BY <1>1, <1>5
  <2>2. I # {}
    BY <2>1
  <2>3. \A i \in DOMAIN s : s[i].id <= top
    <3>1. \A i \in DOMAIN s : s[i].id < top
      BY DEF Elements
    <3>2. QED  BY <3>1, <1>2
  <2>4. \A x \in I : x <= top
    BY <2>3
  <2>5. ResumeID(s) = Max(I) + 1
    BY <1>5 DEF ResumeID
  <2>6. \A x \in Elements(s) : x.id \in I
    BY DEF Elements
  <2> HIDE DEF I
  <2>7. \E m \in I : \A x \in I : x <= m
    BY <2>2, <2>4, <1>3, HasGreatest
  <2>8. Max(I) \in I /\ \A x \in I : x <= Max(I)
    BY <2>7 DEF Max
  <2>9. Max(I) \in Nat /\ \A x \in I : x \in Nat
    BY <2>8, <1>3
  <2>10. \A x \in I : x < Max(I) + 1
    BY <2>8, <2>9
  <2>11. QED  BY <2>5, <2>6, <2>9, <2>10
<1>6. QED  BY <1>4, <1>5

(* Record gives new events increasing ids from nextID on. *)
LEMMA NumberedEntries ==
    ASSUME TypeOK, NEW c \in Controllers, NEW evs \in Seq(Nat),
           nextID[c] \in Nat
    PROVE  /\ Numbered(c, evs) \in Seq(Entries)
           /\ Increasing(Numbered(c, evs))
           /\ Elements(Numbered(c, evs)) = NewEntries(c, evs)
           /\ \A x \in NewEntries(c, evs) : nextID[c] <= x.id /\ x.id < nextID[c] + Len(evs)
           /\ \A x \in NewEntries(c, evs) : x \in Entries
           /\ Len(Numbered(c, evs)) = Len(evs)
<1> DEFINE t == Numbered(c, evs)
<1>1. DOMAIN evs = 1..Len(evs) /\ Len(evs) \in Nat /\ \A i \in 1..Len(evs) : evs[i] \in Nat
  OBVIOUS
<1>2. DOMAIN t = 1..Len(evs)
      /\ \A i \in 1..Len(evs) : t[i] = [id |-> nextID[c] + i - 1, ev |-> evs[i]]
  BY <1>1 DEF Numbered
<1>3. t \in [1..Len(evs) -> Entries]
  <2>1. \A i \in 1..Len(evs) : t[i] \in Entries
    BY <1>1, <1>2 DEF Entries
  <2>2. t = [i \in 1..Len(evs) |-> t[i]]
    BY <1>1 DEF Numbered
  <2> HIDE DEF t
  <2>3. QED  BY <2>1, <2>2
<1> HIDE DEF t
<1>4. t \in Seq(Entries)
  BY <1>1, <1>3, IsASeq
<1>5. \A i \in 1..Len(evs) : t[i].id = nextID[c] + i - 1
  BY <1>2
<1>6. Increasing(t)
  BY <1>1, <1>2, <1>5 DEF Increasing
<1>7. Elements(t) = NewEntries(c, evs)
  BY <1>1, <1>2 DEF Elements, NewEntries
<1>8. ASSUME NEW i \in 1..Len(evs)
      PROVE  nextID[c] <= t[i].id /\ t[i].id < nextID[c] + Len(evs) /\ t[i] \in Entries
  <2>1. t[i].id = nextID[c] + i - 1 /\ t[i] \in Entries
    BY <1>3, <1>5
  <2>2. PICK n \in Nat : n = Len(evs)
    BY <1>1
  <2>3. QED  BY <2>1, <2>2
<1>9. \A x \in NewEntries(c, evs) : \E i \in 1..Len(evs) : x = t[i]
  BY <1>2, <1>7 DEF Elements
<1>10. Len(t) = Len(evs)
  BY <1>1, <1>2, <1>4
<1>11. QED  BY <1>4, <1>6, <1>7, <1>8, <1>9, <1>10 DEF t

(* What Recorder.Record does to the log of c. *)
LEMMA Recorded ==
    ASSUME TypeOK, NEW c \in Controllers, NEW evs \in Seq(Nat), Record(c, evs)
    PROVE  /\ ring' \in [Controllers -> Seq(Entries)] /\ Len(ring'[c]) <= MaxLen
           /\ file' \in [Controllers -> Seq(Entries)]
           /\ nextID' \in [Controllers -> Nat] /\ nextID'[c] = nextID[c] + Len(evs)
           /\ stored' \in [Controllers -> SUBSET Nat]
           /\ broken' \subseteq Controllers /\ misread' = misread
           /\ stored'[c] = stored[c] \cup Elements(evs)
           /\ \A d \in Controllers \ {c} : /\ ring'[d] = ring[d] /\ file'[d] = file[d]
                                           /\ nextID'[d] = nextID[d] /\ stored'[d] = stored[d]
           /\ RingSet(c)' \subseteq RingSet(c) \cup NewEntries(c, evs)
           /\ FileSet(c)' \subseteq FileSet(c) \cup NewEntries(c, evs)
           /\ Increasing(ring[c]) /\ (\A x \in RingSet(c) : x.id < nextID[c]) => Increasing(ring'[c])
           /\ Increasing(file[c]) /\ (\A x \in FileSet(c) : x.id < nextID[c]) => Increasing(file'[c])
           /\ ring'[c] = <<>> => ring[c] = <<>>
<1> DEFINE t == Numbered(c, evs)
           all == ring[c] \o t
<1>1. /\ ring[c] \in Seq(Entries) /\ file[c] \in Seq(Entries) /\ nextID[c] \in Nat
      /\ stored[c] \in SUBSET Nat
  BY DEF TypeOK
<1>2. /\ t \in Seq(Entries) /\ Increasing(t) /\ Elements(t) = NewEntries(c, evs)
      /\ \A x \in NewEntries(c, evs) : nextID[c] <= x.id /\ x \in Entries
      /\ Len(t) = Len(evs)
  BY <1>1, NumberedEntries
<1>3. RingSet(c) = Elements(ring[c]) /\ FileSet(c) = Elements(file[c])
  BY DEF RingSet, FileSet, Elements
<1>4. PICK n \in 0..Len(evs) :
         /\ ring' = [ring EXCEPT ![c] = Ring(all)]
         /\ nextID' = [nextID EXCEPT ![c] = nextID[c] + Len(evs)]
         /\ file' = [file EXCEPT ![c] = file[c] \o SubSeq(t, 1, n)]
         /\ broken' = IF n = Len(evs) THEN broken ELSE broken \cup {c}
         /\ stored' = [stored EXCEPT ![c] = stored[c] \cup Elements(evs)]
         /\ misread' = misread
  BY DEF Record, ToSet, Elements
<1> HIDE DEF t
<1> DEFINE w == SubSeq(t, 1, n)
<1>22. w \in Seq(Entries) /\ Increasing(w) /\ Elements(w) \subseteq NewEntries(c, evs)
  BY <1>2, Prefix
<1>23. broken' \subseteq Controllers /\ misread' = misread
  BY <1>4 DEF TypeOK
<1> HIDE DEF w
<1>24. ASSUME NEW s \in Seq(Entries)
      PROVE  /\ s \o w \in Seq(Entries)
             /\ Elements(s \o w) \subseteq Elements(s) \cup NewEntries(c, evs)
             /\ (Increasing(s) /\ \A x \in Elements(s) : x.id < nextID[c]) => Increasing(s \o w)
  <2>1. /\ s \o w \in Seq(Entries) /\ Elements(s \o w) = Elements(s) \cup Elements(w)
        /\ (Increasing(s) /\ \A x \in Elements(s), y \in Elements(w) : x.id < y.id)
               => Increasing(s \o w)
    BY <1>22, JoinedEntries
  <2>2. \A x \in Elements(s) : x.id \in Nat
    <3>1. \A i \in DOMAIN s : s[i] \in Entries
      OBVIOUS
    <3>2. QED  BY <3>1 DEF Elements, Entries
  <2>3. \A y \in Elements(w) : y.id \in Nat /\ nextID[c] <= y.id
    BY <1>2, <1>22 DEF Entries
  <2>4. (\A x \in Elements(s) : x.id < nextID[c])
           => \A x \in Elements(s), y \in Elements(w) : x.id < y.id
    BY <1>1, <2>2, <2>3
  <2>5. QED  BY <2>1, <2>4, <1>22
<1>5. ASSUME NEW s \in Seq(Entries)
      PROVE  /\ s \o t \in Seq(Entries)
             /\ Elements(s \o t) = Elements(s) \cup NewEntries(c, evs)
             /\ (Increasing(s) /\ \A x \in Elements(s) : x.id < nextID[c]) => Increasing(s \o t)
             /\ s \o t = <<>> => s = <<>>
  <2>1. /\ s \o t \in Seq(Entries) /\ Elements(s \o t) = Elements(s) \cup NewEntries(c, evs)
        /\ (Increasing(s) /\ \A x \in Elements(s), y \in NewEntries(c, evs) : x.id < y.id)
               => Increasing(s \o t)
    BY <1>2, JoinedEntries
  <2>2. \A x \in Elements(s) : x.id \in Nat
    <3>1. \A i \in DOMAIN s : s[i] \in Entries
      OBVIOUS
    <3>2. QED  BY <3>1 DEF Elements, Entries
  <2>3. \A y \in NewEntries(c, evs) : y.id \in Nat
    BY <1>2 DEF Entries
  <2>4. (\A x \in Elements(s) : x.id < nextID[c])
           => \A x \in Elements(s), y \in NewEntries(c, evs) : x.id < y.id
    BY <1>1, <1>2, <2>2, <2>3
  <2>5. s \o t = <<>> => s = <<>>
    <3>1. PICK u : u = s \o t
      OBVIOUS
    <3>8. t \in Seq(Entries)
      BY <1>2
    <3>2. Len(u) = Len(s) + Len(t)
      BY <3>1, <3>8, Joined
    <3>3. Len(s) \in Nat /\ Len(t) \in Nat
      BY <1>2
    <3>4. u = <<>> => Len(u) = 0
      OBVIOUS
    <3>5. Len(s) = 0 => s = <<>>
      OBVIOUS
    <3>6. u = <<>> => s = <<>>
      BY <3>2, <3>3, <3>4, <3>5
    <3>7. QED  BY <3>1, <3>6
  <2>6. QED  BY <2>1, <2>4, <2>5
<1>6. /\ all \in Seq(Entries) /\ Elements(all) = Elements(ring[c]) \cup NewEntries(c, evs)
      /\ (Increasing(ring[c]) /\ \A x \in Elements(ring[c]) : x.id < nextID[c]) => Increasing(all)
      /\ all = <<>> => ring[c] = <<>>
  BY <1>1, <1>5
<1> DEFINE lines == file[c] \o w
<1>7. /\ lines \in Seq(Entries) /\ Elements(lines) \subseteq Elements(file[c]) \cup NewEntries(c, evs)
      /\ (Increasing(file[c]) /\ \A x \in Elements(file[c]) : x.id < nextID[c]) => Increasing(lines)
  BY <1>1, <1>24
<1> HIDE DEF all, lines
<1>8. /\ Ring(all) \in Seq(Entries) /\ Len(Ring(all)) <= MaxLen
      /\ Elements(Ring(all)) \subseteq Elements(all) /\ (Increasing(all) => Increasing(Ring(all)))
      /\ Ring(all) = <<>> => all = <<>>
  BY <1>6, RingEntries
<1>9. ring'[c] = Ring(all) /\ file'[c] = lines /\ nextID'[c] = nextID[c] + Len(evs)
      /\ stored'[c] = stored[c] \cup Elements(evs)
  BY <1>4 DEF TypeOK, lines, w
<1>10. \A d \in Controllers \ {c} : /\ ring'[d] = ring[d] /\ file'[d] = file[d]
                                    /\ nextID'[d] = nextID[d] /\ stored'[d] = stored[d]
  BY <1>4 DEF TypeOK
<1>11. ring' \in [Controllers -> Seq(Entries)]
  BY <1>4, <1>8 DEF TypeOK
<1>12. file' \in [Controllers -> Seq(Entries)]
  BY <1>4, <1>7 DEF TypeOK, lines, w
<1>13. Len(evs) \in Nat /\ Elements(evs) \subseteq Nat
  BY DEF Elements
<1>14. nextID' \in [Controllers -> Nat]
  BY <1>1, <1>4, <1>13 DEF TypeOK
<1>15. stored' \in [Controllers -> SUBSET Nat]
  BY <1>1, <1>4, <1>13 DEF TypeOK
<1>16. RingSet(c)' = Elements(Ring(all)) /\ FileSet(c)' = Elements(lines)
  BY <1>9 DEF RingSet, FileSet, Elements
<1>17. RingSet(c)' \subseteq RingSet(c) \cup NewEntries(c, evs)
  BY <1>3, <1>6, <1>8, <1>16
<1>18. FileSet(c)' \subseteq FileSet(c) \cup NewEntries(c, evs)
  BY <1>3, <1>7, <1>16
<1>19. /\ Increasing(ring[c]) /\ (\A x \in RingSet(c) : x.id < nextID[c]) => Increasing(ring'[c])
       /\ Increasing(file[c]) /\ (\A x \in FileSet(c) : x.id < nextID[c]) => Increasing(file'[c])
  BY <1>3, <1>6, <1>7, <1>8, <1>9
<1>20. ring'[c] = <<>> => ring[c] = <<>>
  BY <1>6, <1>8, <1>9
<1>21. QED
  BY <1>8, <1>9, <1>10, <1>11, <1>12, <1>14, <1>15, <1>17, <1>18, <1>19, <1>20, <1>23

--------------------------------------------------------------------------------
(* What a step adds to queues and logs. *)

(* The types of the Forwarders' queues. *)
QueueType ==
    /\ buf \in [Forwarders -> Seq(QueueItems)]
    /\ \A f \in Forwarders : Len(buf[f]) <= BufferSize
    /\ nextSeq \in [Forwarders -> Nat]
    /\ dropped \in [Forwarders -> SUBSET Nat]

(* The types of the Recorders. *)
LogType ==
    /\ ring \in [Controllers -> Seq(Entries)] /\ file \in [Controllers -> Seq(Entries)]
    /\ \A c \in Controllers : Len(ring[c]) <= MaxLen
    /\ nextID \in [Controllers -> Nat]
    /\ broken \subseteq Controllers /\ misread \subseteq Controllers
    /\ stored \in [Controllers -> SUBSET Nat]

(* A Flush under way, or Idle. *)
Flushes == [batch : Seq(Nat), last : Nat, todo : SUBSET Controllers]

(* S joins the queue of f in this step, which drops its oldest events when   *)
(* it is full; no other queue changes.                                       *)
Joins(f, S) ==
    /\ \A g \in Forwarders \ {f} :
          buf'[g] = buf[g] /\ nextSeq'[g] = nextSeq[g] /\ dropped'[g] = dropped[g]
    /\ Items(f)' \subseteq Items(f) \cup S
    /\ \A r \in Items(f) \cup S : r \in Items(f)' \/ r.ev \in dropped'[f]
    /\ dropped[f] \subseteq dropped'[f]
    /\ nextSeq[f] <= nextSeq'[f]
    /\ \A r \in S : r \in QueueItems /\ r.seq > nextSeq[f]
    /\ buf'[f] = <<>> <=> buf[f] = <<>> /\ S = {}

(* The entries N join the log of c in this step, in its ring and perhaps in  *)
(* its file; no other log changes.                                           *)
Writes(c, N) ==
    /\ \A d \in Controllers \ {c} : /\ ring'[d] = ring[d] /\ file'[d] = file[d]
                                    /\ nextID'[d] = nextID[d] /\ stored'[d] = stored[d]
    /\ misread' = misread
    /\ RingSet(c)' \subseteq RingSet(c) \cup N
    /\ FileSet(c)' \subseteq FileSet(c) \cup N
    /\ stored'[c] = stored[c] \cup {x.ev : x \in N}
    /\ \A x \in N : x \in Entries /\ x.id >= nextID[c]
    /\ ring'[c] = <<>> => ring[c] = <<>>

(* The type invariant gives the types of the queues and of the logs. *)
LEMMA TypeParts == TypeOK => QueueType /\ LogType
<1> SUFFICES ASSUME TypeOK PROVE QueueType /\ LogType
  OBVIOUS
<1>1. QueueType
  BY DEF TypeOK, QueueType, QueueItems
<1>2. LogType
  BY DEF TypeOK, LogType
<1>3. QED  BY <1>1, <1>2

(* Enqueue, in the terms of the proof. *)
LEMMA Queueing ==
    ASSUME TypeOK, Numbers, NEW f \in Forwarders, NEW evs \in Seq(Nat), Enqueue(f, evs)
    PROVE  /\ QueueType' /\ Numbers' /\ Joins(f, Added(f, evs))
           /\ {r.ev : r \in Added(f, evs)} = Elements(evs)
<1>1. /\ buf' \in [Forwarders -> Seq(QueueItems)] /\ Len(buf'[f]) <= BufferSize
      /\ nextSeq' \in [Forwarders -> Nat] /\ nextSeq'[f] = nextSeq[f] + Len(evs)
      /\ dropped' \in [Forwarders -> SUBSET Nat] /\ dropped[f] \subseteq dropped'[f]
      /\ \A g \in Forwarders \ {f} :
            buf'[g] = buf[g] /\ nextSeq'[g] = nextSeq[g] /\ dropped'[g] = dropped[g]
      /\ Len(buf'[f]) <= nextSeq'[f]
      /\ \A i \in DOMAIN buf'[f] : buf'[f][i].seq = nextSeq'[f] - Len(buf'[f]) + i
      /\ Items(f)' \subseteq Items(f) \cup Added(f, evs)
      /\ \A r \in Items(f) \cup Added(f, evs) : r \in Items(f)' \/ r.ev \in dropped'[f]
      /\ buf'[f] = <<>> <=> buf[f] = <<>> /\ evs = <<>>
  BY Enqueued
<1>2. QueueType'
  <2>1. ASSUME NEW g \in Forwarders  PROVE Len(buf'[g]) <= BufferSize
    BY <1>1 DEF TypeOK
  <2>2. QED  BY <1>1, <2>1 DEF QueueType
<1>3. Numbers'
  <2> SUFFICES ASSUME NEW g \in Forwarders
               PROVE  /\ Len(buf'[g]) <= nextSeq'[g]
                      /\ \A i \in DOMAIN buf'[g] : buf'[g][i].seq = nextSeq'[g] - Len(buf'[g]) + i
    BY DEF Numbers
  <2>1. CASE g = f
    BY <1>1, <2>1
  <2>2. CASE g # f
    <3>1. buf'[g] = buf[g] /\ nextSeq'[g] = nextSeq[g]
      BY <1>1, <2>2
    <3>2. QED  BY <3>1 DEF Numbers
  <2>3. QED  BY <2>1, <2>2
<1>4. DOMAIN evs = 1..Len(evs) /\ Len(evs) \in Nat /\ \A i \in 1..Len(evs) : evs[i] \in Nat
  OBVIOUS
<1>5. nextSeq[f] \in Nat
  BY DEF TypeOK
<1>6. ASSUME NEW i \in 1..Len(evs)
      PROVE  LET r == [seq |-> nextSeq[f] + i, ev |-> evs[i]] IN
             r \in QueueItems /\ r.seq > nextSeq[f] /\ r.ev = evs[i]
  BY <1>4, <1>5 DEF QueueItems
<1>7. \A r \in Added(f, evs) : r \in QueueItems /\ r.seq > nextSeq[f]
  BY <1>4, <1>6 DEF Added
<1>8. {r.ev : r \in Added(f, evs)} = Elements(evs)
  <2>1. \A r \in Added(f, evs) : r.ev \in Elements(evs)
    BY <1>4, <1>6 DEF Added, Elements
  <2>2. ASSUME NEW i \in DOMAIN evs  PROVE \E r \in Added(f, evs) : r.ev = evs[i]
    BY <1>4, <1>6 DEF Added
  <2>3. QED  BY <2>1, <2>2 DEF Elements
<1>9. evs = <<>> <=> Added(f, evs) = {}
  <2>1. evs = <<>> <=> Len(evs) = 0
    OBVIOUS
  <2>2. Len(evs) = 0 => Added(f, evs) = {}
    BY <1>4 DEF Added
  <2>3. ASSUME Len(evs) # 0  PROVE Added(f, evs) # {}
    <3>1. 1 \in DOMAIN evs
      BY <1>4, <2>3
    <3>2. QED  BY <3>1 DEF Added
  <2>4. QED  BY <2>1, <2>2, <2>3
<1>10. nextSeq[f] <= nextSeq'[f]
  BY <1>1, <1>4, <1>5
<1>11. Joins(f, Added(f, evs))
  BY <1>1, <1>7, <1>9, <1>10 DEF Joins
<1>12. QED  BY <1>2, <1>3, <1>8, <1>11

(* A log that this step leaves alone, with its process neither started nor   *)
(* ended, stays ordered.                                                     *)
LEMMA OrderedKept ==
    ASSUME NEW d, Ordered(d), ring'[d] = ring[d], file'[d] = file[d], nextID'[d] = nextID[d],
           mode'[d] = "down" <=> mode[d] = "down", d \in misread' <=> d \in misread
    PROVE  Ordered(d)'
<1>1. RingSet(d)' = RingSet(d) /\ FileSet(d)' = FileSet(d)
  BY DEF RingSet, FileSet
<1>2. QED  BY <1>1 DEF Ordered, Increasing

(* Record, in the terms of the proof; it keeps the ids increasing on a       *)
(* controller that is not down.                                              *)
LEMMA Writing ==
    ASSUME TypeOK, NEW c \in Controllers, NEW evs \in Seq(Nat), Record(c, evs)
    PROVE  /\ LogType' /\ Writes(c, NewEntries(c, evs))
           /\ {x.ev : x \in NewEntries(c, evs)} = Elements(evs)
           /\ Order /\ mode[c] # "down" /\ mode'[c] # "down"
                 /\ (\A d \in Controllers \ {c} : mode'[d] = mode[d]) => Order'
<1>1. /\ ring' \in [Controllers -> Seq(Entries)] /\ Len(ring'[c]) <= MaxLen
      /\ file' \in [Controllers -> Seq(Entries)]
      /\ nextID' \in [Controllers -> Nat] /\ nextID'[c] = nextID[c] + Len(evs)
      /\ stored' \in [Controllers -> SUBSET Nat]
      /\ broken' \subseteq Controllers /\ misread' = misread
      /\ stored'[c] = stored[c] \cup Elements(evs)
      /\ \A d \in Controllers \ {c} : /\ ring'[d] = ring[d] /\ file'[d] = file[d]
                                      /\ nextID'[d] = nextID[d] /\ stored'[d] = stored[d]
      /\ RingSet(c)' \subseteq RingSet(c) \cup NewEntries(c, evs)
      /\ FileSet(c)' \subseteq FileSet(c) \cup NewEntries(c, evs)
      /\ Increasing(ring[c]) /\ (\A x \in RingSet(c) : x.id < nextID[c]) => Increasing(ring'[c])
      /\ Increasing(file[c]) /\ (\A x \in FileSet(c) : x.id < nextID[c]) => Increasing(file'[c])
      /\ ring'[c] = <<>> => ring[c] = <<>>
  BY Recorded
<1>2. nextID[c] \in Nat /\ Len(evs) \in Nat
  BY DEF TypeOK
<1>3. \A x \in NewEntries(c, evs) : x \in Entries /\ nextID[c] <= x.id /\ x.id < nextID[c] + Len(evs)
  BY <1>2, NumberedEntries
<1>4. {x.ev : x \in NewEntries(c, evs)} = Elements(evs)
  <2>1. \A x \in NewEntries(c, evs) : x.ev \in Elements(evs)
    BY DEF NewEntries, Elements
  <2>2. ASSUME NEW i \in DOMAIN evs  PROVE \E x \in NewEntries(c, evs) : x.ev = evs[i]
    <3>1. [id |-> nextID[c] + i - 1, ev |-> evs[i]] \in NewEntries(c, evs)
      BY DEF NewEntries
    <3>2. [id |-> nextID[c] + i - 1, ev |-> evs[i]].ev = evs[i]
      OBVIOUS
    <3>3. QED  BY <3>1, <3>2
  <2>3. QED  BY <2>1, <2>2 DEF Elements
<1>5. LogType'
  <2>1. ASSUME NEW d \in Controllers  PROVE Len(ring'[d]) <= MaxLen
    BY <1>1 DEF TypeOK
  <2>2. misread' \subseteq Controllers
    BY <1>1 DEF TypeOK
  <2>3. QED  BY <1>1, <2>1, <2>2 DEF LogType
<1>6. \A x \in NewEntries(c, evs) : x.id >= nextID[c]
  <2>1. \A x \in NewEntries(c, evs) : x.id \in Nat
    BY <1>3 DEF Entries
  <2>2. QED  BY <2>1, <1>2, <1>3
<1>7. Writes(c, NewEntries(c, evs))
  BY <1>1, <1>3, <1>4, <1>6 DEF Writes
<1>8. ASSUME Order, mode[c] # "down", mode'[c] # "down",
             \A d \in Controllers \ {c} : mode'[d] = mode[d]
      PROVE  Order'
  <2> SUFFICES ASSUME NEW d \in Controllers  PROVE Ordered(d)'
    BY DEF Order
  <2>1. CASE d = c
    <3>1. Ordered(c)
      BY <1>8 DEF Order
    <3>2. \A x \in RingSet(c) \cup FileSet(c) : x.id \in Nat
      <4>1. \A i \in DOMAIN ring[c] : ring[c][i] \in Entries
        BY DEF TypeOK
      <4>2. \A i \in DOMAIN file[c] : file[c][i] \in Entries
        BY DEF TypeOK
      <4>3. QED  BY <4>1, <4>2 DEF RingSet, FileSet, Entries
    <3>3. \A x \in NewEntries(c, evs) : x.id < nextID'[c] /\ x.id \in Nat
      BY <1>1, <1>3 DEF Entries
    <3>4. \A x \in RingSet(c)' : x.id < nextID'[c]
      <4>1. \A x \in RingSet(c) : x.id < nextID[c]
        BY <3>1, <1>8 DEF Ordered
      <4>2. \A x \in RingSet(c) : x.id < nextID'[c]
        BY <4>1, <3>2, <1>1, <1>2
      <4>3. QED  BY <4>2, <3>3, <1>1
    <3>5. ASSUME c \notin misread
          PROVE  /\ Increasing(file'[c]) /\ Increasing(ring'[c])
                 /\ \A x \in FileSet(c)' : x.id < nextID'[c]
      <4>1. /\ Increasing(file[c]) /\ Increasing(ring[c])
            /\ \A x \in RingSet(c) \cup FileSet(c) : x.id < nextID[c]
        BY <3>1, <3>5, <1>8 DEF Ordered
      <4>2. Increasing(ring'[c]) /\ Increasing(file'[c])
        BY <4>1, <1>1
      <4>3. \A x \in FileSet(c) : x.id < nextID'[c]
        BY <4>1, <3>2, <1>1, <1>2
      <4>4. QED  BY <4>2, <4>3, <3>3, <1>1
    <3>6. \E top \in Nat : \A x \in FileSet(c)' : x.id < top
      <4>1. PICK top \in Nat : \A x \in FileSet(c) : x.id < top
        BY <3>1 DEF Ordered
      <4>2. nextID'[c] \in Nat
        BY <1>1
      <4>3. top + nextID'[c] \in Nat
        BY <4>2
      <4>4. \A x \in FileSet(c) \cup NewEntries(c, evs) : x.id < top + nextID'[c]
        BY <4>1, <4>2, <3>2, <3>3
      <4>5. \A x \in FileSet(c)' : x.id < top + nextID'[c]
        BY <4>4, <1>1
      <4>6. QED  BY <4>3, <4>5
    <3>7. QED  BY <3>4, <3>5, <3>6, <2>1, <1>1, <1>8 DEF Ordered, Increasing
  <2>2. CASE d # c
    <3>1. /\ ring'[d] = ring[d] /\ file'[d] = file[d] /\ nextID'[d] = nextID[d] /\ mode'[d] = mode[d]
      BY <1>1, <1>8, <2>2
    <3>2. Ordered(d)
      BY <1>8 DEF Order
    <3>3. QED  BY <3>1, <3>2, <1>1, OrderedKept
  <2>3. QED  BY <2>1, <2>2
<1>9. QED  BY <1>4, <1>5, <1>7, <1>8

(* Tee.Record: the own log takes the events, and the queue for the peers     *)
(* takes the same ones exactly while c leads.                                *)
LEMMA Teeing ==
    ASSUME TypeOK, Numbers, NEW c \in Controllers, NEW evs \in Seq(Nat), Tee(c, evs)
    PROVE  /\ QueueType' /\ LogType' /\ Numbers'
           /\ owed' \in [Controllers -> [Controllers -> SUBSET Nat]]
           /\ Writes(c, NewEntries(c, evs)) /\ {x.ev : x \in NewEntries(c, evs)} = Elements(evs)
           /\ Order /\ mode[c] # "down" /\ mode' = mode => Order'
           /\ \E S : /\ Joins(c, S)
                     /\ S = IF leader = c THEN Added(c, evs) ELSE {}
                     /\ {r.ev : r \in S} = IF leader = c THEN Elements(evs) ELSE {}
                     /\ \A d \in Controllers :
                           owed'[c][d] \subseteq owed[c][d] \cup (IF d \in Peers(c) THEN {r.ev : r \in S} ELSE {})
           /\ \A g \in Controllers \ {c} : owed'[g] = owed[g]
<1>1. Record(c, evs)
  BY DEF Tee
<1>2. /\ LogType' /\ Writes(c, NewEntries(c, evs)) /\ {x.ev : x \in NewEntries(c, evs)} = Elements(evs)
      /\ Order /\ mode[c] # "down" /\ mode' = mode => Order'
  BY <1>1, Writing
<1>3. owed \in [Controllers -> [Controllers -> SUBSET Nat]] /\ Elements(evs) \subseteq Nat
  BY DEF TypeOK, Elements
<1>4. c \in Forwarders
  BY DEF Forwarders
<1>5. CASE leader = c
  <2>1. /\ Enqueue(c, evs)
        /\ owed' = [owed EXCEPT ![c] = [d \in Controllers |->
                IF d \in Peers(c) THEN owed[c][d] \cup Elements(evs) ELSE owed[c][d]]]
    BY <1>5 DEF Tee, ToSet, Elements
  <2>2. /\ QueueType' /\ Numbers' /\ Joins(c, Added(c, evs))
        /\ {r.ev : r \in Added(c, evs)} = Elements(evs)
    BY <2>1, <1>4, Queueing
  <2>3. owed' \in [Controllers -> [Controllers -> SUBSET Nat]]
    BY <2>1, <1>3
  <2>4. \A g \in Controllers \ {c} : owed'[g] = owed[g]
    BY <2>1, <1>3
  <2>5. \A d \in Controllers :
            owed'[c][d] \subseteq owed[c][d] \cup (IF d \in Peers(c) THEN Elements(evs) ELSE {})
    BY <2>1, <1>3
  <2>6. QED  BY <2>2, <2>3, <2>4, <2>5, <1>2, <1>5
<1>6. CASE leader # c
  <2>1. buf' = buf /\ nextSeq' = nextSeq /\ dropped' = dropped /\ owed' = owed
    BY <1>6 DEF Tee
  <2>2. Items(c)' = Items(c)
    BY <2>1 DEF Items
  <2>3. QueueType'
    BY <2>1, TypeParts DEF QueueType
  <2>4. Numbers'
    BY <2>1 DEF Numbers
  <2>5. nextSeq[c] <= nextSeq'[c]
    BY <2>1, <1>4 DEF TypeOK
  <2>6. Joins(c, {})
    BY <2>1, <2>2, <2>5 DEF Joins
  <2>7. {r.ev : r \in {}} = {}
    OBVIOUS
  <2>8. QED  BY <2>1, <2>3, <2>4, <2>6, <2>7, <1>2, <1>3, <1>6
<1>7. QED  BY <1>5, <1>6

--------------------------------------------------------------------------------
(* The first layer: types, numbers and ids. *)

(* The types of the other variables. *)
OtherType ==
    /\ flush \in [Forwarders -> Flushes]
    /\ mode \in [Controllers -> {"down", "loaded", "backfilled", "up"}]
    /\ leader \in Controllers \cup {NoOne}
    /\ recorded \in 0..MaxEvents /\ faults \in 0..MaxFaults /\ elections \in 0..MaxElections
    /\ owed \in [Controllers -> [Controllers -> SUBSET Nat]]
    /\ repeats \in BOOLEAN

(* The type invariant is the conjunction of its parts. *)
LEMMA TypeByParts == TypeOK <=> QueueType /\ LogType /\ OtherType
  BY Zenon DEF TypeOK, QueueType, LogType, OtherType, QueueItems, Flushes

(* The first layer: types, numbers of the queues, ids of the logs. *)
Base == QueueType /\ LogType /\ OtherType /\ Numbers /\ Order

(* The first layer holds initially. *)
LEMMA BaseInit == Init => Base
<1> SUFFICES ASSUME Init PROVE Base
  OBVIOUS
<1> USE DEF Init
<1>1. TypeOK
  <2>1. buf \in [Forwarders -> Seq([seq : Nat, ev : Nat])] /\ \A f \in Forwarders : Len(buf[f]) <= BufferSize
    BY Bounds
  <2>2. flush \in [Forwarders -> [batch : Seq(Nat), last : Nat, todo : SUBSET Controllers]]
    BY DEF Idle
  <2>3. ring \in [Controllers -> Seq(Entries)] /\ file \in [Controllers -> Seq(Entries)]
        /\ \A c \in Controllers : Len(ring[c]) <= MaxLen
    BY Bounds
  <2>4. recorded \in 0..MaxEvents /\ faults \in 0..MaxFaults /\ elections \in 0..MaxElections
    BY Bounds
  <2>5. repeats \in BOOLEAN
    BY Zenon
  <2>6. /\ nextSeq \in [Forwarders -> Nat] /\ mode \in [Controllers -> {"down", "loaded", "backfilled", "up"}]
        /\ nextID \in [Controllers -> Nat] /\ leader \in Controllers \cup {NoOne}
        /\ stored \in [Controllers -> SUBSET Nat] /\ dropped \in [Forwarders -> SUBSET Nat]
        /\ owed \in [Controllers -> [Controllers -> SUBSET Nat]]
        /\ broken \subseteq Controllers /\ misread \subseteq Controllers
    OBVIOUS
  <2>7. QED  BY <2>1, <2>2, <2>3, <2>4, <2>5, <2>6, Zenon DEF TypeOK
<1>2. Numbers
  BY DEF Numbers
<1>3. Order
  <2>1. \A c \in Controllers : RingSet(c) = {} /\ FileSet(c) = {} /\ ring[c] = <<>> /\ file[c] = <<>>
    BY DEF RingSet, FileSet
  <2>2. 0 \in Nat
    OBVIOUS
  <2>3. QED  BY <2>1, <2>2 DEF Order, Ordered, Increasing
<1>4. QED  BY <1>1, <1>2, <1>3, TypeByParts DEF Base

(* Counting a fault keeps the bound. *)
LEMMA FaultType ==
    ASSUME faults \in 0..MaxFaults, Fault \/ UNCHANGED faults
    PROVE  faults' \in 0..MaxFaults
  BY Bounds DEF Fault

(* A step that leaves the logs and the processes alone keeps the ids in      *)
(* order.                                                                    *)
LEMMA OrderKept ==
    ASSUME Order, UNCHANGED <<logs, mode>>
    PROVE  Order'
  BY OrderedKept DEF Order, logs

(* A step that leaves the queues alone keeps their types and numbers. *)
LEMMA QueueKept ==
    ASSUME QueueType, Numbers, UNCHANGED <<buf, nextSeq, dropped>>
    PROVE  QueueType' /\ Numbers'
  BY DEF QueueType, Numbers

(* A step that leaves the logs alone keeps their types. *)
LEMMA LogKept ==
    ASSUME LogType, UNCHANGED logs
    PROVE  LogType'
  BY DEF LogType, logs

(* Every agent has a Forwarder. *)
LEMMA AgentsForward == \A a \in Agents : a \in Forwarders
  BY DEF Forwarders

(* Every controller has a Forwarder. *)
LEMMA ControllersForward == \A c \in Controllers : c \in Forwarders
  BY DEF Forwarders

(* The elements of a queue are numbered events. *)
LEMMA ItemsType ==
    ASSUME QueueType, NEW f \in Forwarders
    PROVE  \A r \in Items(f) : r \in QueueItems
<1>1. \A i \in DOMAIN buf[f] : buf[f][i] \in QueueItems
  BY DEF QueueType
<1>2. QED  BY <1>1 DEF Items

(* No Flush is a value of flush. *)
LEMMA IdleType == Idle \in Flushes
  BY DEF Idle, Flushes

(* What Backfill reads from a peer is a sequence of events. *)
LEMMA RingEvents ==
    ASSUME LogType, NEW d \in Controllers
    PROVE  [i \in DOMAIN ring[d] |-> ring[d][i].ev] \in Seq(Nat)
<1>1. DOMAIN ring[d] = 1..Len(ring[d]) /\ Len(ring[d]) \in Nat
      /\ \A i \in 1..Len(ring[d]) : ring[d][i] \in Entries
  BY DEF LogType
<1>2. [i \in DOMAIN ring[d] |-> ring[d][i].ev] \in [1..Len(ring[d]) -> Nat]
  BY <1>1 DEF Entries
<1>3. QED  BY <1>1, <1>2, IsASeq

(* A process that ends leaves an empty queue. *)
LEMMA StopsType ==
    ASSUME QueueType, Numbers, OtherType, NEW f \in Forwarders, NEW log \in SUBSET Nat, Stops(f, log)
    PROVE  QueueType' /\ Numbers' /\ flush' \in [Forwarders -> Flushes]
<1>1. /\ buf' = [buf EXCEPT ![f] = <<>>] /\ nextSeq' = [nextSeq EXCEPT ![f] = 0]
      /\ flush' = [flush EXCEPT ![f] = Idle]
      /\ dropped' = [dropped EXCEPT ![f] = dropped[f] \cup log \cup {buf[f][i].ev : i \in DOMAIN buf[f]}]
  BY DEF Stops
<1>2. flush' \in [Forwarders -> Flushes]
  BY <1>1, IdleType DEF OtherType
<1>3. \A i \in DOMAIN buf[f] : buf[f][i].ev \in Nat
  <2>1. \A i \in DOMAIN buf[f] : buf[f][i] \in QueueItems
    BY DEF QueueType
  <2>2. QED  BY <2>1 DEF QueueItems
<1>4. dropped' \in [Forwarders -> SUBSET Nat]
  BY <1>1, <1>3 DEF QueueType
<1>5. buf' \in [Forwarders -> Seq(QueueItems)] /\ nextSeq' \in [Forwarders -> Nat]
      /\ \A g \in Forwarders : Len(buf'[g]) <= BufferSize
  BY <1>1, Bounds DEF QueueType
<1>6. Numbers'
  BY <1>1 DEF Numbers, QueueType
<1>7. QED  BY <1>2, <1>4, <1>5, <1>6 DEF QueueType

(* The first layer is kept by an event of a node. *)
LEMMA BaseRecordOnNode ==
    ASSUME Base, NEW a \in Agents, RecordOnNode(a)
    PROVE  Base'
<1>1. TypeOK /\ QueueType /\ LogType /\ OtherType /\ Numbers /\ Order
  BY TypeByParts DEF Base
<1>2. a \in Forwarders
  BY DEF Forwarders
<1>3. recorded' \in 0..MaxEvents /\ recorded + 1 \in Nat
  BY <1>1, Bounds DEF RecordOnNode, OtherType
<1>4. <<recorded + 1>> \in Seq(Nat)
  BY <1>3
<1>5. QueueType' /\ Numbers'
  BY <1>1, <1>2, <1>4, Queueing DEF RecordOnNode
<1>6. LogType' /\ Order'
  BY <1>1, LogKept, OrderKept DEF RecordOnNode
<1>7. OtherType'
  BY <1>1, <1>3 DEF RecordOnNode, OtherType
<1>8. QED  BY <1>5, <1>6, <1>7 DEF Base

(* The first layer is kept by an event of a controller. *)
LEMMA BaseRecordOnController ==
    ASSUME Base, NEW c \in Controllers, RecordOnController(c)
    PROVE  Base'
<1>1. TypeOK /\ QueueType /\ LogType /\ OtherType /\ Numbers /\ Order
  BY TypeByParts DEF Base
<1>2. recorded' \in 0..MaxEvents /\ recorded + 1 \in Nat
  BY <1>1, Bounds DEF RecordOnController, OtherType
<1>3. <<recorded + 1>> \in Seq(Nat)
  BY <1>2
<1>4. Tee(c, <<recorded + 1>>)
  BY DEF RecordOnController
<1>5. mode' = mode /\ mode[c] # "down"
  BY DEF RecordOnController
<1>6. /\ QueueType' /\ LogType' /\ Numbers'
      /\ owed' \in [Controllers -> [Controllers -> SUBSET Nat]]
      /\ Order /\ mode[c] # "down" /\ mode' = mode => Order'
  BY <1>1, <1>3, <1>4, Teeing
<1>7. faults' \in 0..MaxFaults
  BY <1>1, FaultType DEF RecordOnController, OtherType
<1>8. OtherType'
  BY <1>1, <1>2, <1>6, <1>7 DEF RecordOnController, OtherType
<1>9. QED  BY <1>1, <1>5, <1>6, <1>8 DEF Base

(* The first layer is kept by the restart of an agent. *)
LEMMA BaseAgentRestarts ==
    ASSUME Base, NEW a \in Agents, AgentRestarts(a)
    PROVE  Base'
<1>1. TypeOK /\ QueueType /\ LogType /\ OtherType /\ Numbers /\ Order
  BY TypeByParts DEF Base
<1>2. LogType' /\ Order'
  BY <1>1, LogKept, OrderKept DEF AgentRestarts
<1>3. QueueType' /\ Numbers' /\ flush' \in [Forwarders -> Flushes]
  BY <1>1, StopsType, AgentsForward DEF AgentRestarts
<1>4. faults' \in 0..MaxFaults
  BY <1>1, FaultType DEF AgentRestarts, OtherType
<1>5. OtherType'
  BY <1>1, <1>3, <1>4 DEF AgentRestarts, OtherType
<1>6. QED  BY <1>2, <1>3, <1>5 DEF Base

(* The first layer is kept by the start of a Flush. *)
LEMMA BaseFlushStart ==
    ASSUME Base, NEW f \in Forwarders, FlushStart(f)
    PROVE  Base'
<1>1. TypeOK /\ QueueType /\ LogType /\ OtherType /\ Numbers /\ Order
  BY TypeByParts DEF Base
<1>2. LogType' /\ Order' /\ QueueType' /\ Numbers'
  BY <1>1, LogKept, OrderKept, QueueKept DEF FlushStart
<1> DEFINE n == IF Len(buf[f]) < MaxBatch THEN Len(buf[f]) ELSE MaxBatch
<1>3. PICK todo \in IF f \in Agents THEN {{c} : c \in Controllers} ELSE {Peers(f)} :
         flush' = [flush EXCEPT ![f] = [batch |-> [i \in 1..n |-> buf[f][i].ev],
                                        last |-> buf[f][n].seq, todo |-> todo]]
  BY DEF FlushStart
<1>4. todo \in SUBSET Controllers
  BY DEF Peers
<1>5. buf[f] \in Seq(QueueItems) /\ Len(buf[f]) \in Nat
  BY <1>1 DEF QueueType
<1>6. n \in 1..Len(buf[f])
  BY <1>5, Bounds DEF FlushStart
<1> HIDE DEF n
<1>7. \A i \in 1..n : buf[f][i] \in QueueItems
  <2>1. \A i \in 1..Len(buf[f]) : buf[f][i] \in QueueItems
    BY <1>5
  <2>2. QED  BY <2>1, <1>5, <1>6
<1>8. \A i \in 1..n : buf[f][i].ev \in Nat
  BY <1>7 DEF QueueItems
<1>9. buf[f][n].seq \in Nat
  <2>1. n \in 1..n
    BY <1>5, <1>6
  <2>2. QED  BY <2>1, <1>7 DEF QueueItems
<1>10. [i \in 1..n |-> buf[f][i].ev] \in Seq(Nat)
  <2>1. n \in Nat
    BY <1>5, <1>6
  <2>2. [i \in 1..n |-> buf[f][i].ev] \in [1..n -> Nat]
    BY <1>8
  <2>3. QED  BY <2>1, <2>2, IsASeq
<1>11. [batch |-> [i \in 1..n |-> buf[f][i].ev], last |-> buf[f][n].seq, todo |-> todo] \in Flushes
  BY <1>4, <1>9, <1>10 DEF Flushes
<1>12. flush' \in [Forwarders -> Flushes]
  BY <1>1, <1>3, <1>11 DEF OtherType
<1>13. OtherType'
  BY <1>1, <1>12 DEF FlushStart, OtherType
<1>14. QED  BY <1>2, <1>13 DEF Base

(* The first layer is kept by the end of a Flush. *)
LEMMA BaseFlushDone ==
    ASSUME Base, NEW f \in Forwarders, FlushDone(f)
    PROVE  Base'
<1>1. TypeOK /\ QueueType /\ LogType /\ OtherType /\ Numbers /\ Order
  BY TypeByParts DEF Base
<1>2. LogType' /\ Order'
  BY <1>1, LogKept, OrderKept DEF FlushDone
<1> DEFINE rest == Sent(buf[f], flush[f].last)
<1>3. flush[f].last \in Nat
  BY <1>1 DEF OtherType, Flushes
<1>4. /\ rest \in Seq(QueueItems) /\ Len(rest) <= BufferSize /\ Len(rest) <= nextSeq[f]
      /\ \A i \in DOMAIN rest : rest[i].seq = nextSeq[f] - Len(rest) + i
  BY <1>1, <1>3, SentItems
<1>5. buf' = [buf EXCEPT ![f] = rest] /\ nextSeq' = nextSeq /\ dropped' = dropped
  BY DEF FlushDone
<1> HIDE DEF rest
<1>6. QueueType' /\ Numbers'
  <2>1. QueueType'
    BY <1>1, <1>4, <1>5 DEF QueueType
  <2> SUFFICES ASSUME NEW g \in Forwarders
               PROVE  /\ Len(buf'[g]) <= nextSeq'[g]
                      /\ \A i \in DOMAIN buf'[g] : buf'[g][i].seq = nextSeq'[g] - Len(buf'[g]) + i
    BY <2>1 DEF Numbers
  <2>2. CASE g = f
    <3>1. buf'[g] = rest /\ nextSeq'[g] = nextSeq[f]
      BY <2>2, <1>1, <1>5 DEF QueueType
    <3>2. QED  BY <3>1, <1>4
  <2>3. CASE g # f
    <3>1. buf'[g] = buf[g] /\ nextSeq'[g] = nextSeq[g]
      BY <2>3, <1>1, <1>5 DEF QueueType
    <3>2. QED  BY <3>1, <1>1 DEF Numbers
  <2>4. QED  BY <2>2, <2>3
<1>7. flush' \in [Forwarders -> Flushes]
  BY <1>1, IdleType DEF FlushDone, OtherType
<1>8. OtherType'
  BY <1>1, <1>7 DEF FlushDone, OtherType
<1>9. QED  BY <1>2, <1>6, <1>8 DEF Base

(* The first layer is kept by a request that is handled. *)
LEMMA BaseDeliver ==
    ASSUME Base, NEW f \in Forwarders, NEW c \in Controllers, Deliver(f, c)
    PROVE  Base'
<1>1. TypeOK /\ QueueType /\ LogType /\ OtherType /\ Numbers /\ Order
  BY TypeByParts DEF Base
<1>2. flush[f].batch \in Seq(Nat)
  BY <1>1 DEF OtherType, Flushes
<1>3. Accepted(flush[f].batch) \in Seq(Nat)
  BY <1>2, AcceptedEvents
<1>4. Tee(c, Accepted(flush[f].batch)) /\ mode' = mode /\ mode[c] # "down"
  BY DEF Deliver, Ingest
<1>5. /\ QueueType' /\ LogType' /\ Numbers'
      /\ owed' \in [Controllers -> [Controllers -> SUBSET Nat]]
      /\ Order /\ mode[c] # "down" /\ mode' = mode => Order'
  BY <1>1, <1>3, <1>4, Teeing
<1>6. faults' \in 0..MaxFaults
  BY <1>1, FaultType DEF Deliver, OtherType
<1>7. flush' \in [Forwarders -> Flushes]
  <2>1. CASE Answered(f, c)
    BY <2>1, <1>1 DEF Answered, OtherType, Flushes
  <2>2. CASE GivesUp(f)
    BY <2>2, <1>1, IdleType DEF GivesUp, OtherType
  <2>3. QED  BY <2>1, <2>2 DEF Deliver
<1>8. repeats' \in BOOLEAN
  BY <1>1, Zenon DEF Deliver, OtherType
<1>9. OtherType'
  BY <1>1, <1>5, <1>6, <1>7, <1>8 DEF Deliver, OtherType
<1>10. QED  BY <1>1, <1>4, <1>5, <1>9 DEF Base

(* The first layer is kept by a request that never arrives. *)
LEMMA BaseDeliveryFails ==
    ASSUME Base, NEW f \in Forwarders, NEW c \in Controllers, DeliveryFails(f, c)
    PROVE  Base'
<1>1. TypeOK /\ QueueType /\ LogType /\ OtherType /\ Numbers /\ Order
  BY TypeByParts DEF Base
<1>2. LogType' /\ Order' /\ QueueType' /\ Numbers'
  BY <1>1, LogKept, OrderKept, QueueKept DEF DeliveryFails
<1>3. faults' \in 0..MaxFaults
  BY <1>1, FaultType DEF DeliveryFails, OtherType
<1>4. flush' \in [Forwarders -> Flushes]
  BY <1>1, IdleType DEF DeliveryFails, GivesUp, OtherType
<1>5. repeats' \in BOOLEAN
  BY <1>1, Zenon DEF DeliveryFails, OtherType
<1>6. OtherType'
  BY <1>1, <1>3, <1>4, <1>5 DEF DeliveryFails, OtherType
<1>7. QED  BY <1>2, <1>6 DEF Base

(* The first layer is kept by an election. *)
LEMMA BaseElect ==
    ASSUME Base, NEW c \in Controllers, Elect(c)
    PROVE  Base'
<1>1. TypeOK /\ QueueType /\ LogType /\ OtherType /\ Numbers /\ Order
  BY TypeByParts DEF Base
<1>2. LogType' /\ Order' /\ QueueType' /\ Numbers'
  BY <1>1, LogKept, OrderKept, QueueKept DEF Elect, forwarding
<1>3. elections' \in 0..MaxElections
  BY <1>1, Bounds DEF Elect, OtherType
<1>4. repeats' \in BOOLEAN
  BY <1>1, Zenon DEF Elect, OtherType
<1>5. OtherType'
  BY <1>1, <1>3, <1>4 DEF Elect, OtherType, forwarding
<1>6. QED  BY <1>2, <1>5 DEF Base

(* The first layer is kept by the end of a controller process. *)
LEMMA BaseControllerStops ==
    ASSUME Base, NEW c \in Controllers, ControllerStops(c)
    PROVE  Base'
<1>1. TypeOK /\ QueueType /\ LogType /\ OtherType /\ Numbers /\ Order
  BY TypeByParts DEF Base
<1>2. stored[c] \subseteq Nat
  BY <1>1 DEF LogType
<1>3. QueueType' /\ Numbers' /\ flush' \in [Forwarders -> Flushes]
  BY <1>1, <1>2, StopsType, ControllersForward DEF ControllerStops
<1>4. /\ broken' = broken \ {c}
      /\ \/ file' = file /\ misread' = misread
         \/ file' = [file EXCEPT ![c] = <<>>] /\ misread' = misread \ {c}
  BY DEF ControllerStops
<1>5. LogType'
  <2>1. ring' \in [Controllers -> Seq(Entries)] /\ \A d \in Controllers : Len(ring'[d]) <= MaxLen
    BY <1>1, Bounds DEF ControllerStops, LogType
  <2>2. file' \in [Controllers -> Seq(Entries)]
    <3>1. <<>> \in Seq(Entries) /\ file \in [Controllers -> Seq(Entries)]
      BY <1>1 DEF LogType
    <3>2. [file EXCEPT ![c] = <<>>] \in [Controllers -> Seq(Entries)]
      BY <3>1
    <3>3. file' = file \/ file' = [file EXCEPT ![c] = <<>>]
      BY <1>4
    <3>4. QED  BY <3>1, <3>2, <3>3
  <2>3. nextID' \in [Controllers -> Nat] /\ stored' \in [Controllers -> SUBSET Nat]
    BY <1>1 DEF ControllerStops, LogType
  <2>4. broken' \subseteq Controllers /\ misread' \subseteq Controllers
    BY <1>1, <1>4 DEF LogType
  <2>5. QED  BY <2>1, <2>2, <2>3, <2>4 DEF LogType
<1>6. Order'
  <2> SUFFICES ASSUME NEW d \in Controllers  PROVE Ordered(d)'
    BY DEF Order
  <2>1. Ordered(d)
    BY <1>1 DEF Order
  <2>2. CASE d = c
    <3>1. ring'[c] = <<>> /\ mode'[c] = "down"
      BY <1>1 DEF ControllerStops, LogType, OtherType
    <3>2. Increasing(<<>>)
      BY DEF Increasing
    <3>3. CASE file' = file /\ misread' = misread
      <4>1. FileSet(c)' = FileSet(c)
        BY <3>3 DEF FileSet
      <4>2. QED  BY <4>1, <3>1, <3>2, <3>3, <2>1, <2>2 DEF Ordered, Increasing
    <3>4. CASE file' = [file EXCEPT ![c] = <<>>]
      <4>1. file'[c] = <<>> /\ 0 \in Nat
        BY <3>4, <1>1 DEF LogType
      <4>2. FileSet(c)' = {}
        BY <4>1 DEF FileSet
      <4>3. QED  BY <4>1, <4>2, <3>1, <3>2, <2>2 DEF Ordered, Increasing
    <3>5. QED  BY <3>3, <3>4, <1>4
  <2>3. CASE d # c
    <3>1. /\ ring'[d] = ring[d] /\ file'[d] = file[d] /\ nextID'[d] = nextID[d] /\ mode'[d] = mode[d]
          /\ d \in misread' <=> d \in misread
      BY <1>1, <1>4, <2>3 DEF ControllerStops, LogType, OtherType
    <3>2. QED  BY <3>1, <2>1, OrderedKept
  <2>4. QED  BY <2>2, <2>3
<1>7. faults' \in 0..MaxFaults
  BY <1>1, FaultType DEF ControllerStops, OtherType
<1>8. OtherType'
  <2>1. mode' \in [Controllers -> {"down", "loaded", "backfilled", "up"}]
    BY <1>1 DEF ControllerStops, OtherType
  <2>2. owed' \in [Controllers -> [Controllers -> SUBSET Nat]]
    BY <1>1 DEF ControllerStops, OtherType
  <2>3. leader' \in Controllers \cup {NoOne}
    BY <1>1 DEF ControllerStops, OtherType
  <2>4. QED  BY <1>1, <1>3, <1>7, <2>1, <2>2, <2>3 DEF ControllerStops, OtherType
<1>9. QED  BY <1>3, <1>5, <1>6, <1>8 DEF Base

(* The first layer is kept by the start of a controller. *)
LEMMA BaseLoadFromFile ==
    ASSUME Base, NEW c \in Controllers, LoadFromFile(c)
    PROVE  Base'
<1>1. TypeOK /\ QueueType /\ LogType /\ OtherType /\ Numbers /\ Order
  BY TypeByParts DEF Base
<1>2. QueueType' /\ Numbers'
  BY <1>1, QueueKept DEF LoadFromFile, forwarding
<1>3. file[c] \in Seq(Entries) /\ Ordered(c)
  BY <1>1 DEF LogType, Order
<1>4. PICK n \in 0..Len(file[c]) :
         /\ ring' = [ring EXCEPT ![c] = Ring(SubSeq(file[c], 1, n))]
         /\ nextID' = [nextID EXCEPT ![c] = ResumeID(SubSeq(file[c], 1, n))]
         /\ stored' = [stored EXCEPT ![c] = {SubSeq(file[c], 1, n)[i].ev : i \in DOMAIN SubSeq(file[c], 1, n)}]
         /\ misread' = IF n = Len(file[c]) THEN misread ELSE misread \cup {c}
  BY DEF LoadFromFile
<1> DEFINE lines == SubSeq(file[c], 1, n)
<1>5. /\ lines \in Seq(Entries) /\ Elements(lines) \subseteq Elements(file[c])
      /\ Increasing(file[c]) => Increasing(lines)
      /\ n = Len(file[c]) => lines = file[c]
  BY <1>3, Prefix
<1>6. /\ ring' = [ring EXCEPT ![c] = Ring(lines)] /\ nextID' = [nextID EXCEPT ![c] = ResumeID(lines)]
      /\ file' = file /\ mode' = [mode EXCEPT ![c] = "loaded"]
      /\ stored' = [stored EXCEPT ![c] = {lines[i].ev : i \in DOMAIN lines}]
      /\ broken' \subseteq broken \cup {c}
  BY <1>4 DEF LoadFromFile
<1> HIDE DEF lines
<1>11. /\ Ring(lines) \in Seq(Entries) /\ Len(Ring(lines)) <= MaxLen
       /\ Elements(Ring(lines)) \subseteq Elements(lines)
       /\ Increasing(lines) => Increasing(Ring(lines))
  BY <1>5, RingEntries
<1>12. FileSet(c) = Elements(file[c])
  BY DEF FileSet, Elements
<1>13. ResumeID(lines) \in Nat /\ \A x \in Elements(lines) : x.id < ResumeID(lines)
  <2>1. PICK top \in Nat : \A x \in FileSet(c) : x.id < top
    BY <1>3 DEF Ordered
  <2>2. \A x \in Elements(lines) : x.id < top
    BY <2>1, <1>5, <1>12
  <2>3. QED  BY <2>2, <1>5, ResumesAfter
<1>7. LogType'
  <2>1. ring' \in [Controllers -> Seq(Entries)] /\ \A d \in Controllers : Len(ring'[d]) <= MaxLen
    BY <1>1, <1>6, <1>11 DEF LogType
  <2>2. \A i \in DOMAIN lines : lines[i].ev \in Nat
    <3>1. \A i \in DOMAIN lines : lines[i] \in Entries
      BY <1>5
    <3>2. QED  BY <3>1 DEF Entries
  <2>3. stored' \in [Controllers -> SUBSET Nat]
    BY <1>1, <1>6, <2>2 DEF LogType
  <2>4. broken' \subseteq Controllers /\ misread' \subseteq Controllers
    BY <1>1, <1>4, <1>6 DEF LogType
  <2>5. nextID' \in [Controllers -> Nat]
    BY <1>1, <1>6, <1>13 DEF LogType
  <2>6. QED  BY <2>1, <2>3, <2>4, <2>5, <1>1, <1>6 DEF LogType
<1>8. Order'
  <2> SUFFICES ASSUME NEW d \in Controllers  PROVE Ordered(d)'
    BY DEF Order
  <2>1. CASE d = c
    <3>1. /\ ring'[c] = Ring(lines) /\ mode'[c] = "loaded" /\ file'[c] = file[c]
          /\ nextID'[c] = ResumeID(lines)
      BY <1>1, <1>6 DEF LogType, OtherType
    <3>2. RingSet(c)' \subseteq Elements(lines) /\ FileSet(c)' = FileSet(c)
      BY <3>1, <1>11 DEF RingSet, FileSet, Elements
    <3>3. \A x \in RingSet(c)' : x.id < nextID'[c]
      BY <3>1, <3>2, <1>13
    <3>4. \E top \in Nat : \A x \in FileSet(c)' : x.id < top
      BY <3>2, <1>3 DEF Ordered
    <3>5. ASSUME c \notin misread'
          PROVE  /\ Increasing(file'[c]) /\ Increasing(ring'[c])
                 /\ \A x \in FileSet(c)' : x.id < nextID'[c]
      <4>1. n = Len(file[c]) /\ c \notin misread
        BY <3>5, <1>4
      <4>2. lines = file[c] /\ Increasing(file[c])
        BY <4>1, <1>3, <1>5 DEF Ordered
      <4>3. QED  BY <4>2, <3>1, <3>2, <1>11, <1>12, <1>13
    <3>6. QED  BY <3>1, <3>3, <3>4, <3>5, <2>1 DEF Ordered, Increasing
  <2>2. CASE d # c
    <3>1. /\ ring'[d] = ring[d] /\ file'[d] = file[d] /\ nextID'[d] = nextID[d] /\ mode'[d] = mode[d]
          /\ d \in misread' <=> d \in misread
      BY <1>1, <1>4, <1>6, <2>2 DEF LogType, OtherType
    <3>2. Ordered(d)
      BY <1>1 DEF Order
    <3>3. QED  BY <3>1, <3>2, OrderedKept
  <2>3. QED  BY <2>1, <2>2
<1>9. OtherType'
  <2>1. mode' \in [Controllers -> {"down", "loaded", "backfilled", "up"}]
    BY <1>1, <1>6 DEF OtherType
  <2>2. owed' \in [Controllers -> [Controllers -> SUBSET Nat]]
    BY <1>1 DEF LoadFromFile, OtherType
  <2>3. repeats' \in BOOLEAN
    BY <1>1, Zenon DEF LoadFromFile, OtherType
  <2>4. QED  BY <1>1, <2>1, <2>2, <2>3 DEF LoadFromFile, OtherType, forwarding
<1>10. QED  BY <1>2, <1>7, <1>8, <1>9 DEF Base

(* The first layer is kept by a backfill. *)
LEMMA BaseBackfill ==
    ASSUME Base, NEW c \in Controllers, Backfill(c)
    PROVE  Base'
<1>1. TypeOK /\ QueueType /\ LogType /\ OtherType /\ Numbers /\ Order
  BY TypeByParts DEF Base
<1>2. QueueType' /\ Numbers'
  BY <1>1, QueueKept DEF Backfill, forwarding
<1>3. mode' = [mode EXCEPT ![c] = "backfilled"] /\ mode[c] = "loaded"
  BY DEF Backfill
<1>4. mode[c] # "down" /\ mode'[c] # "down" /\ \A d \in Controllers \ {c} : mode'[d] = mode[d]
  BY <1>1, <1>3 DEF OtherType
<1>5. LogType' /\ Order'
  <2>1. ASSUME NEW d \in Controllers, Record(c, [i \in DOMAIN ring[d] |-> ring[d][i].ev])
        PROVE  LogType' /\ Order'
    <3> DEFINE evs == [i \in DOMAIN ring[d] |-> ring[d][i].ev]
    <3>1. evs \in Seq(Nat)
      BY <1>1, RingEvents
    <3> HIDE DEF evs
    <3>2. QED  BY <3>1, <2>1, <1>1, <1>4, Writing DEF evs
  <2>2. ASSUME UNCHANGED logs  PROVE LogType' /\ Order'
    <3>1. LogType'
      BY <2>2, <1>1, LogKept
    <3>2. Order'
      <4> SUFFICES ASSUME NEW d \in Controllers  PROVE Ordered(d)'
        BY DEF Order
      <4>1. ring' = ring /\ file' = file /\ nextID' = nextID /\ misread' = misread
        BY <2>2 DEF logs
      <4>2. mode'[d] = "down" <=> mode[d] = "down"
        BY <1>4
      <4>3. Ordered(d)
        BY <1>1 DEF Order
      <4>4. QED  BY <4>1, <4>2, <4>3, OrderedKept
    <3>3. QED  BY <3>1, <3>2
  <2>3. QED  BY <2>1, <2>2 DEF Backfill, Peers
<1>6. faults' \in 0..MaxFaults
  BY <1>1, FaultType DEF Backfill, OtherType
<1>7. repeats' \in BOOLEAN
  BY <1>1, Zenon DEF Backfill, OtherType
<1>8. OtherType'
  BY <1>1, <1>3, <1>6, <1>7 DEF Backfill, OtherType, forwarding
<1>9. QED  BY <1>2, <1>5, <1>8 DEF Base

(* The first layer is kept by a controller that starts to serve. *)
LEMMA BaseServe ==
    ASSUME Base, NEW c \in Controllers, Serve(c)
    PROVE  Base'
<1>1. TypeOK /\ QueueType /\ LogType /\ OtherType /\ Numbers /\ Order
  BY TypeByParts DEF Base
<1>2. LogType' /\ QueueType' /\ Numbers'
  BY <1>1, LogKept, QueueKept DEF Serve, forwarding
<1>3. \A d \in Controllers : mode'[d] = "down" <=> mode[d] = "down"
  BY <1>1 DEF Serve, OtherType
<1>4. Order'
  BY <1>1, <1>3, OrderedKept DEF Serve, Order, logs
<1>5. OtherType'
  BY <1>1 DEF Serve, OtherType, forwarding
<1>6. QED  BY <1>2, <1>4, <1>5 DEF Base

(* Every step keeps the first layer. *)
LEMMA BaseNext == Base /\ [Next]_vars => Base'
<1> SUFFICES ASSUME Base, [Next]_vars PROVE Base'
  OBVIOUS
<1>1. ASSUME UNCHANGED vars PROVE Base'
  <2>1. TypeOK /\ QueueType /\ LogType /\ OtherType /\ Numbers /\ Order
    BY TypeByParts DEF Base
  <2>2. LogType' /\ Order' /\ QueueType' /\ Numbers'
    BY <1>1, <2>1, LogKept, OrderKept, QueueKept DEF vars, forwarding
  <2>3. OtherType'
    BY <1>1, <2>1 DEF vars, forwarding, OtherType
  <2>4. QED  BY <2>2, <2>3 DEF Base
<1>2. QED
  BY <1>1, BaseRecordOnNode, BaseRecordOnController, BaseAgentRestarts, BaseFlushStart, BaseFlushDone,
     BaseDeliver, BaseDeliveryFails, BaseElect, BaseControllerStops, BaseLoadFromFile, BaseBackfill,
     BaseServe DEF Next

(* In every reachable state each queue holds consecutive numbers that end at *)
(* nextSeq, the next id of a log is above all ids of its ring whatever was   *)
(* read of its file, and a log whose file was always read to its end has     *)
(* increasing ids below nextID, in memory and in the file (Forwarder.Record, *)
(* Recorder.Record and loadFromFile number alike).                           *)
THEOREM BaseInvariant == Spec => []Base
  BY BaseInit, BaseNext, PTL DEF Spec

--------------------------------------------------------------------------------
(* The second layer: no event is lost. *)

(* A step in which S joins the queue of f, no log loses an event, and a      *)
(* Flush goes on, ends or has one target less, which then has the batch.     *)
Growing(f, S) ==
    /\ Joins(f, S)
    /\ \A g \in Forwarders :
          \/ flush'[g] = flush[g] \/ flush'[g] = Idle
          \/ /\ Sending(g)
             /\ \E t \in flush[g].todo : /\ flush'[g] = [flush[g] EXCEPT !.todo = flush[g].todo \ {t}]
                                         /\ Batch(g) \ Unwatched \subseteq stored'[t]
    /\ \A c \in Controllers : /\ stored[c] \subseteq stored'[c]
                              /\ mode'[c] = "down" => stored'[c] = {}
                              /\ mode'[c] # "down" => mode[c] # "down"
    /\ f \in Controllers => \A r \in S : r.ev \in stored'[f]
    /\ \A c, d \in Controllers :
          owed'[c][d] \subseteq owed[c][d] \cup (IF c = f THEN {r.ev : r \in S} ELSE {})
    /\ \A e \in 1..recorded' : \/ e \in 1..recorded
                               \/ \E r \in S : r.ev = e
                               \/ \E c \in Controllers : e \in stored'[c]

(* The second layer: where an event may be. *)
Carry == Flushing /\ Carried /\ Copied

(* The events on their way depend on the batch only. *)
LEMMA BatchKept ==
    ASSUME NEW g, flush'[g].batch = flush[g].batch
    PROVE  Batch(g)' = Batch(g) /\ (Sending(g)' <=> Sending(g))
  BY DEF Batch, Sending

(* What is stored or counted as dropped stays so. *)
LEMMA SafeKept ==
    ASSUME \A f \in Forwarders : dropped[f] \subseteq dropped'[f],
           \A c \in Controllers : stored[c] \subseteq stored'[c] \cup dropped'[c]
    PROVE  \A e : Safe(e) => Safe(e)'
  BY ControllersForward DEF Safe

(* Every growing step keeps the second layer. *)
LEMMA GrowingCarries ==
    ASSUME Base, Base', Carry, NEW f \in Forwarders, NEW S, Growing(f, S)
    PROVE  Carry'
<1>1. /\ QueueType /\ QueueType' /\ OtherType /\ OtherType' /\ Flushing /\ Carried /\ Copied
  BY DEF Base, Carry
<1>2. Joins(f, S)
  BY DEF Growing
<1>3. \A g \in Forwarders \ {f} : Items(g)' = Items(g)
  BY <1>2 DEF Joins, Items
<1>4. \A g \in Forwarders : nextSeq[g] \in Nat /\ nextSeq'[g] \in Nat /\ nextSeq[g] <= nextSeq'[g]
  BY <1>1, <1>2 DEF Joins, QueueType
<1>5. \A g \in Forwarders : dropped[g] \subseteq dropped'[g]
  BY <1>2 DEF Joins
<1>6. \A g \in Forwarders : \A r \in Items(g) : r \in Items(g)' \/ r.ev \in dropped'[g]
  BY <1>2, <1>3 DEF Joins
<1>7. \A g \in Forwarders : \A r \in Items(g)' : r \in Items(g) \/ (g = f /\ r \in S)
  BY <1>2, <1>3 DEF Joins
<1>8. \A r \in S : r.seq \in Nat /\ r.seq > nextSeq[f]
  BY <1>2 DEF Joins, QueueItems
<1>9. \A e : Safe(e) => Safe(e)'
  <2>1. \A c \in Controllers : stored[c] \subseteq stored'[c] \cup dropped'[c]
    BY DEF Growing
  <2>2. QED  BY <2>1, <1>5, SafeKept
<1>10. ASSUME NEW g \in Forwarders
       PROVE  \/ flush'[g] = flush[g]
              \/ flush'[g] = Idle /\ ~Sending(g)'
              \/ /\ Sending(g) /\ flush'[g].batch = flush[g].batch /\ flush'[g].last = flush[g].last
                 /\ \E t \in flush[g].todo : /\ flush'[g].todo = flush[g].todo \ {t}
                                             /\ Batch(g) \ Unwatched \subseteq stored'[t]
  <2>1. flush[g] \in Flushes
    BY <1>1 DEF OtherType
  <2>2. CASE flush'[g] = Idle
    BY <2>2 DEF Idle, Sending
  <2>3. CASE /\ Sending(g)
             /\ \E t \in flush[g].todo : /\ flush'[g] = [flush[g] EXCEPT !.todo = flush[g].todo \ {t}]
                                         /\ Batch(g) \ Unwatched \subseteq stored'[t]
    <3>1. PICK t \in flush[g].todo : /\ flush'[g] = [flush[g] EXCEPT !.todo = flush[g].todo \ {t}]
                                     /\ Batch(g) \ Unwatched \subseteq stored'[t]
      BY <2>3
    <3>2. flush'[g].batch = flush[g].batch /\ flush'[g].last = flush[g].last
          /\ flush'[g].todo = flush[g].todo \ {t}
      BY <3>1, <2>1 DEF Flushes
    <3>3. QED  BY <3>1, <3>2, <2>3
  <2>4. QED  BY <2>2, <2>3 DEF Growing
<1>11. ASSUME NEW g \in Forwarders, Sending(g)'
       PROVE  /\ Sending(g) /\ Batch(g)' = Batch(g) /\ flush'[g].last = flush[g].last
              /\ flush'[g].todo \subseteq flush[g].todo
              /\ flush[g].last \in Nat /\ flush[g].last <= nextSeq[g]
              /\ \A r \in Items(g)' : r.seq <= flush[g].last => r \in Items(g)
  <2>1. flush'[g].batch = flush[g].batch /\ flush'[g].last = flush[g].last
        /\ flush'[g].todo \subseteq flush[g].todo
    BY <1>10, <1>11
  <2>2. Sending(g) /\ Batch(g)' = Batch(g)
    BY <2>1, <1>11, BatchKept
  <2>3. flush[g].last \in Nat /\ flush[g].last <= nextSeq[g]
    BY <1>1, <2>2 DEF OtherType, Flushes, Flushing
  <2>4. ASSUME NEW r \in Items(g)', r.seq <= flush[g].last
        PROVE  r \in Items(g)
    <3>1. ASSUME g = f, r \in S  PROVE FALSE
      BY <3>1, <2>3, <2>4, <1>4, <1>8
    <3>2. QED  BY <3>1, <1>7
  <2>5. QED  BY <2>1, <2>2, <2>3, <2>4
<1>12. Flushing'
  <2> SUFFICES ASSUME NEW g \in Forwarders
               PROVE  /\ flush'[g] = Idle \/ Sending(g)'
                      /\ Sending(g)' => /\ flush'[g].last <= nextSeq'[g] /\ buf'[g] # <<>>
                                        /\ \A r \in Items(g)' : r.seq <= flush'[g].last => r.ev \in Batch(g)'
                                        /\ g \in Controllers => g \notin flush'[g].todo
    BY DEF Flushing
  <2>1. flush'[g] = Idle \/ Sending(g)'
    <3>1. flush[g] = Idle \/ Sending(g)
      BY <1>1 DEF Flushing
    <3>2. CASE flush'[g] = flush[g]
      BY <3>1, <3>2, BatchKept
    <3>3. CASE Sending(g) /\ flush'[g].batch = flush[g].batch
      BY <3>3, BatchKept
    <3>4. QED  BY <3>2, <3>3, <1>10
  <2>2. ASSUME Sending(g)'
        PROVE  /\ flush'[g].last <= nextSeq'[g] /\ buf'[g] # <<>>
               /\ \A r \in Items(g)' : r.seq <= flush'[g].last => r.ev \in Batch(g)'
               /\ g \in Controllers => g \notin flush'[g].todo
    <3>1. flush'[g].last <= nextSeq'[g]
      BY <2>2, <1>4, <1>11
    <3>2. buf[g] # <<>> /\ (\A r \in Items(g) : r.seq <= flush[g].last => r.ev \in Batch(g))
          /\ (g \in Controllers => g \notin flush[g].todo)
      BY <1>1, <1>11, <2>2 DEF Flushing
    <3>3. buf'[g] # <<>>
      BY <3>2, <1>2 DEF Joins
    <3>4. QED  BY <3>1, <3>2, <3>3, <1>11, <2>2
  <2>3. QED  BY <2>1, <2>2
<1>13. Carried'
  <2>1. ASSUME NEW c \in Controllers
        PROVE  /\ mode'[c] = "down" => stored'[c] = {}
               /\ \A r \in Items(c)' : r.ev \in stored'[c]
    <3>1. \A r \in Items(c) : r.ev \in stored'[c]
      BY <1>1 DEF Carried, Growing
    <3>2. ASSUME NEW r \in Items(c)'  PROVE r.ev \in stored'[c]
      BY <3>1, <1>7, ControllersForward DEF Growing
    <3>3. QED  BY <3>2 DEF Growing
  <2>2. ASSUME NEW a \in Agents, Sending(a)', flush'[a].todo = {}
        PROVE  \A e \in Batch(a)' : Safe(e)'
    <3>1. a \in Forwarders
      BY AgentsForward
    <3>2. Sending(a) /\ Batch(a)' = Batch(a)
      BY <3>1, <2>2, <1>11
    <3>3. CASE flush'[a] = flush[a]
      BY <3>2, <3>3, <2>2, <1>1, <1>9 DEF Carried
    <3>4. CASE \E t \in flush[a].todo : Batch(a) \ Unwatched \subseteq stored'[t]
      <4>1. flush[a].todo \subseteq Controllers
        BY <1>1, <3>1 DEF OtherType, Flushes
      <4>2. QED  BY <4>1, <3>2, <3>4 DEF Safe
    <3>5. QED  BY <3>1, <3>3, <3>4, <2>2, <1>10
  <2>3. ASSUME NEW e \in 1..recorded'
        PROVE  Safe(e)' \/ \E g \in Forwarders : \E r \in Items(g)' : r.ev = e
    <3>1. CASE e \in 1..recorded
      <4>1. CASE Safe(e)
        BY <4>1, <1>9
      <4>2. CASE \E g \in Forwarders : \E r \in Items(g) : r.ev = e
        <5>4. PICK g \in Forwarders : \E r \in Items(g) : r.ev = e
          BY <4>2
        <5>1. PICK r \in Items(g) : r.ev = e
          BY <5>4
        <5>2. CASE r.ev \in dropped'[g]
          BY <5>1, <5>2 DEF Safe
        <5>3. QED  BY <5>1, <5>2, <1>6
      <4>3. QED  BY <3>1, <4>1, <4>2, <1>1 DEF Carried
    <3>2. CASE \E r \in S : r.ev = e
      <4>1. PICK r \in S : r.ev = e
        BY <3>2
      <4>2. r \in Items(f)' \/ r.ev \in dropped'[f]
        BY <1>2 DEF Joins
      <4>3. CASE r.ev \in dropped'[f]
        BY <4>1, <4>3 DEF Safe
      <4>4. QED  BY <4>1, <4>2, <4>3
    <3>3. CASE \E c \in Controllers : e \in stored'[c]
      BY <3>3 DEF Safe
    <3>4. QED  BY <3>1, <3>2, <3>3 DEF Growing
  <2>4. QED  BY <2>1, <2>2, <2>3 DEF Carried
<1>14. Copied'
  <2> SUFFICES ASSUME NEW c \in Controllers, NEW d \in Controllers \ {c}, mode'[d] # "down",
                      NEW e \in owed'[c][d]
               PROVE  \/ e \in stored'[d] \cup dropped'[c] \cup Unwatched
                      \/ \E r \in Items(c)' : r.ev = e /\ Open(c, d, r)'
    BY DEF Copied
  <2>1. c \in Forwarders
    BY ControllersForward
  <2>2. CASE e \in owed[c][d]
    <3>1. mode[d] # "down" /\ stored[d] \subseteq stored'[d]
      BY DEF Growing
    <3>2. CASE e \in stored[d] \cup dropped[c] \cup Unwatched
      BY <3>1, <3>2, <2>1, <1>5
    <3>3. CASE \E r \in Items(c) : r.ev = e /\ Open(c, d, r)
      <4>1. PICK r \in Items(c) : r.ev = e /\ Open(c, d, r)
        BY <3>3
      <4>2. r \in Items(c)' \/ e \in dropped'[c]
        BY <4>1, <2>1, <1>6
      <4>3. ASSUME ~Open(c, d, r)'
            PROVE  e \in stored'[d] \cup Unwatched
        <5>1. Sending(c)' /\ d \notin flush'[c].todo /\ ~(r.seq > flush'[c].last)
          BY <4>3 DEF Open
        <5>2. Sending(c) /\ flush'[c].last = flush[c].last /\ flush[c].last \in Nat
          BY <5>1, <2>1, <1>11
        <5>3. r.seq \in Nat
          BY <2>1, <1>1, ItemsType DEF QueueItems
        <5>4. d \in flush[c].todo
          BY <5>1, <5>2, <4>1 DEF Open
        <5>5. Batch(c) \ Unwatched \subseteq stored'[d]
          BY <5>1, <5>4, <2>1, <1>10
        <5>6. r.ev \in Batch(c)
          BY <5>1, <5>2, <5>3, <2>1, <1>1 DEF Flushing
        <5>7. QED  BY <5>5, <5>6, <4>1
      <4>4. QED  BY <4>1, <4>2, <4>3
    <3>4. QED  BY <3>1, <3>2, <3>3, <2>2, <1>1 DEF Copied
  <2>3. CASE c = f /\ \E r \in S : r.ev = e
    <3>1. PICK r \in S : r.ev = e
      BY <2>3
    <3>2. r \in Items(f)' \/ r.ev \in dropped'[f]
      BY <1>2 DEF Joins
    <3>3. Open(c, d, r)'
      <4>1. ASSUME Sending(c)'  PROVE r.seq > flush'[c].last
        <5>1. flush'[c].last = flush[c].last /\ flush[c].last <= nextSeq[c] /\ flush[c].last \in Nat
          BY <4>1, <2>1, <1>11
        <5>2. r.seq \in Nat /\ r.seq > nextSeq[c] /\ nextSeq[c] \in Nat
          BY <2>1, <2>3, <1>4, <1>8
        <5>3. QED  BY <5>1, <5>2
      <4>2. QED  BY <4>1 DEF Open
    <3>4. QED  BY <3>1, <3>2, <3>3, <2>3
  <2>4. QED  BY <2>2, <2>3 DEF Growing
<1>15. QED  BY <1>12, <1>13, <1>14 DEF Carry

--------------------------------------------------------------------------------
(* Steps that grow. *)

(* A step that leaves the queues alone adds nothing to them. *)
LEMMA JoinsNothing ==
    ASSUME QueueType, UNCHANGED <<buf, nextSeq, dropped>>, NEW f \in Forwarders
    PROVE  Joins(f, {})
<1>1. Items(f)' = Items(f)
  BY DEF Items
<1>2. nextSeq[f] <= nextSeq'[f]
  BY DEF QueueType
<1>3. QED  BY <1>1, <1>2 DEF Joins

(* A sequence of one event. *)
LEMMA SingleRange == \A e \in Nat : <<e>> \in Seq(Nat) /\ Elements(<<e>>) = {e}
<1> SUFFICES ASSUME NEW e \in Nat PROVE <<e>> \in Seq(Nat) /\ Elements(<<e>>) = {e}
  OBVIOUS
<1>1. <<e>> \in Seq(Nat) /\ DOMAIN <<e>> = {1} /\ <<e>>[1] = e
  OBVIOUS
<1>2. QED  BY <1>1 DEF Elements

(* An event of a node is a growing step. *)
LEMMA RecordOnNodeGrows ==
    ASSUME Base, Carry, NEW a \in Agents, RecordOnNode(a)
    PROVE  Growing(a, Added(a, <<recorded + 1>>))
<1> DEFINE S == Added(a, <<recorded + 1>>)
<1>1. /\ TypeOK /\ OtherType /\ Numbers /\ Carried
  BY TypeByParts DEF Base, Carry
<1>2. recorded \in Nat /\ recorded' = recorded + 1 /\ recorded + 1 \in Nat
  BY <1>1 DEF OtherType, RecordOnNode
<1>3. Joins(a, S) /\ {r.ev : r \in S} = {recorded + 1}
  BY <1>1, <1>2, SingleRange, Queueing, AgentsForward DEF RecordOnNode
<1> HIDE DEF S
<1>4. a \notin Controllers
  BY EventLogAssumption
<1>5. \A e \in 1..recorded' : e \in 1..recorded \/ \E r \in S : r.ev = e
  <2>1. \A e \in 1..recorded' : e \in 1..recorded \/ e = recorded + 1
    BY <1>2
  <2>2. QED  BY <2>1, <1>3
<1>6. flush' = flush /\ stored' = stored /\ mode' = mode /\ owed' = owed
  BY DEF RecordOnNode, logs
<1>7. \A c \in Controllers : mode[c] = "down" => stored[c] = {}
  BY <1>1 DEF Carried
<1>8. Growing(a, S)
  BY <1>3, <1>4, <1>5, <1>6, <1>7 DEF Growing
<1>9. QED  BY <1>8 DEF S

(* An event of a controller is a growing step: the event is stored before it *)
(* is queued for the peers.                                                  *)
LEMMA RecordOnControllerGrows ==
    ASSUME Base, Carry, NEW c \in Controllers, RecordOnController(c)
    PROVE  \E S : Growing(c, S)
<1> DEFINE evs == <<recorded + 1>>
<1>1. TypeOK /\ OtherType /\ Numbers /\ Carried
  BY TypeByParts DEF Base, Carry
<1>2. recorded \in Nat /\ recorded' = recorded + 1 /\ recorded + 1 \in Nat
  BY <1>1 DEF OtherType, RecordOnController
<1>3. evs \in Seq(Nat) /\ Elements(evs) = {recorded + 1}
  BY <1>2, SingleRange
<1>4. Tee(c, evs)
  BY DEF RecordOnController
<1> HIDE DEF evs
<1>5. /\ Writes(c, NewEntries(c, evs)) /\ {x.ev : x \in NewEntries(c, evs)} = Elements(evs)
      /\ \E S : /\ Joins(c, S)
                /\ {r.ev : r \in S} = IF leader = c THEN Elements(evs) ELSE {}
                /\ \A d \in Controllers :
                      owed'[c][d] \subseteq owed[c][d] \cup (IF d \in Peers(c) THEN {r.ev : r \in S} ELSE {})
      /\ \A g \in Controllers \ {c} : owed'[g] = owed[g]
  BY <1>1, <1>3, <1>4, Teeing
<1>6. PICK S : /\ Joins(c, S)
               /\ {r.ev : r \in S} = IF leader = c THEN Elements(evs) ELSE {}
               /\ \A d \in Controllers :
                      owed'[c][d] \subseteq owed[c][d] \cup (IF d \in Peers(c) THEN {r.ev : r \in S} ELSE {})
  BY <1>5
<1>7. stored'[c] = stored[c] \cup {recorded + 1} /\ \A d \in Controllers \ {c} : stored'[d] = stored[d]
  BY <1>3, <1>5 DEF Writes
<1>8. \A r \in S : r.ev \in stored'[c]
  BY <1>3, <1>6, <1>7
<1>9. \A b, d \in Controllers :
          owed'[b][d] \subseteq owed[b][d] \cup (IF b = c THEN {r.ev : r \in S} ELSE {})
  BY <1>5, <1>6
<1>10. \A e \in 1..recorded' : e \in 1..recorded \/ e \in stored'[c]
  <2>1. \A e \in 1..recorded' : e \in 1..recorded \/ e = recorded + 1
    BY <1>2
  <2>2. QED  BY <2>1, <1>7
<1>11. flush' = flush /\ mode' = mode /\ mode[c] # "down"
  BY DEF RecordOnController
<1>12. \A d \in Controllers : /\ stored[d] \subseteq stored'[d]
                              /\ mode'[d] = "down" => stored'[d] = {}
  BY <1>1, <1>7, <1>11 DEF Carried
<1>13. Growing(c, S)
  BY <1>6, <1>8, <1>9, <1>10, <1>11, <1>12 DEF Growing
<1>14. QED  BY <1>13

(* A handled request is a growing step, answered or not: the target has the  *)
(* watched events of the batch.                                              *)
LEMMA DeliverGrows ==
    ASSUME Base, Carry, NEW f \in Forwarders, NEW c \in Controllers, Deliver(f, c)
    PROVE  \E S : Growing(c, S)
<1> DEFINE evs == Accepted(flush[f].batch)
<1>1. TypeOK /\ OtherType /\ Numbers /\ Carried /\ Flushing
  BY TypeByParts DEF Base, Carry
<1>2. flush[f].batch \in Seq(Nat) /\ flush[f] \in Flushes
  BY <1>1 DEF OtherType, Flushes
<1>3. evs \in Seq(Nat) /\ Elements(evs) = Batch(f) \ Unwatched
  BY <1>2, AcceptedEvents DEF Elements, Batch
<1>4. Tee(c, evs) /\ mode' = mode /\ mode[c] # "down" /\ recorded' = recorded
      /\ c \in flush[f].todo /\ flush[f] # Idle
  BY DEF Deliver, Ingest
<1> HIDE DEF evs
<1>5. /\ Writes(c, NewEntries(c, evs)) /\ {x.ev : x \in NewEntries(c, evs)} = Elements(evs)
      /\ \E S : /\ Joins(c, S)
                /\ {r.ev : r \in S} = IF leader = c THEN Elements(evs) ELSE {}
                /\ \A d \in Controllers :
                      owed'[c][d] \subseteq owed[c][d] \cup (IF d \in Peers(c) THEN {r.ev : r \in S} ELSE {})
      /\ \A g \in Controllers \ {c} : owed'[g] = owed[g]
  BY <1>1, <1>3, <1>4, Teeing
<1>6. PICK S : /\ Joins(c, S)
               /\ {r.ev : r \in S} = IF leader = c THEN Elements(evs) ELSE {}
               /\ \A d \in Controllers :
                      owed'[c][d] \subseteq owed[c][d] \cup (IF d \in Peers(c) THEN {r.ev : r \in S} ELSE {})
  BY <1>5
<1>7. stored'[c] = stored[c] \cup (Batch(f) \ Unwatched) /\ \A d \in Controllers \ {c} : stored'[d] = stored[d]
  BY <1>3, <1>5 DEF Writes
<1>8. \A r \in S : r.ev \in stored'[c]
  BY <1>3, <1>6, <1>7
<1>9. \A b, d \in Controllers :
          owed'[b][d] \subseteq owed[b][d] \cup (IF b = c THEN {r.ev : r \in S} ELSE {})
  BY <1>5, <1>6
<1>10. \A d \in Controllers : /\ stored[d] \subseteq stored'[d]
                              /\ mode'[d] = "down" => stored'[d] = {}
  BY <1>1, <1>4, <1>7 DEF Carried
<1>11. ASSUME NEW g \in Forwarders
       PROVE  \/ flush'[g] = flush[g] \/ flush'[g] = Idle
              \/ /\ Sending(g)
                 /\ \E t \in flush[g].todo : /\ flush'[g] = [flush[g] EXCEPT !.todo = flush[g].todo \ {t}]
                                             /\ Batch(g) \ Unwatched \subseteq stored'[t]
  <2>1. CASE Answered(f, c)
    <3>1. flush' = [flush EXCEPT ![f] = [flush[f] EXCEPT !.todo = flush[f].todo \ {c}]]
      BY <2>1, <1>1, <1>2 DEF Answered, OtherType, Flushes
    <3>2. CASE g = f
      <4>1. flush'[g] = [flush[g] EXCEPT !.todo = flush[g].todo \ {c}]
        BY <3>1, <3>2, <1>1 DEF OtherType
      <4>2. Sending(g)
        BY <3>2, <1>1, <1>4 DEF Flushing
      <4>3. QED  BY <4>1, <4>2, <3>2, <1>4, <1>7
    <3>3. CASE g # f
      BY <3>1, <3>3, <1>1 DEF OtherType
    <3>4. QED  BY <3>2, <3>3
  <2>2. CASE GivesUp(f)
    BY <2>2, <1>1 DEF GivesUp, OtherType
  <2>3. QED  BY <2>1, <2>2 DEF Deliver
<1>12. Growing(c, S)
  BY <1>4, <1>6, <1>8, <1>9, <1>10, <1>11 DEF Growing
<1>13. QED  BY <1>12

(* So is a step that changes neither queues nor, but for more events, logs,  *)
(* and in which a Flush may give up.                                         *)
LEMMA QuietGrows ==
    ASSUME Base, Carry, NEW f \in Forwarders,
           UNCHANGED <<buf, nextSeq, dropped, owed, recorded>>,
           flush' = flush \/ \E g \in Forwarders : GivesUp(g),
           \A c \in Controllers : /\ stored[c] \subseteq stored'[c]
                                  /\ mode[c] = "down" => stored'[c] = stored[c]
                                  /\ mode'[c] = "down" <=> mode[c] = "down"
    PROVE  Growing(f, {})
<1>1. QueueType /\ OtherType /\ Carried
  BY DEF Base, Carry
<1>2. Joins(f, {})
  BY <1>1, JoinsNothing
<1>3. \A g \in Forwarders : flush'[g] = flush[g] \/ flush'[g] = Idle
  BY <1>1 DEF GivesUp, OtherType
<1>4. \A c \in Controllers : mode'[c] = "down" => stored'[c] = {}
  BY <1>1 DEF Carried
<1>5. QED  BY <1>2, <1>3, <1>4 DEF Growing

(* The second layer holds initially. *)
LEMMA CarryInit == Init => Carry
<1> SUFFICES ASSUME Init PROVE Carry
  OBVIOUS
<1>1. \A f \in Forwarders : flush[f] = Idle /\ ~Sending(f) /\ Items(f) = {}
  BY DEF Init, Sending, Idle, Items
<1>2. Flushing
  BY <1>1 DEF Flushing
<1>3. 1..recorded = {}
  BY DEF Init
<1>4. Carried
  BY <1>1, <1>3, AgentsForward, ControllersForward DEF Carried, Init
<1>5. Copied
  BY DEF Copied, Init
<1>6. QED  BY <1>2, <1>4, <1>5 DEF Carry

--------------------------------------------------------------------------------
(* Flushes, ends and starts. *)

(* FlushStart copies the events with numbers up to last, and no event twice  *)
(* when the queue holds none twice.                                          *)
LEMMA Starting ==
    ASSUME Base, NEW f \in Forwarders, FlushStart(f)
    PROVE  /\ \A g \in Forwarders \ {f} : flush'[g] = flush[g]
           /\ flush[f] = Idle /\ Sending(f)' /\ flush'[f].last <= nextSeq[f] /\ buf[f] # <<>>
           /\ Batch(f)' = {r.ev : r \in {r \in Items(f) : r.seq <= flush'[f].last}}
           /\ f \in Controllers => flush'[f].todo = Peers(f)
           /\ f \in Agents => \E c \in Controllers : flush'[f].todo = {c}
           /\ OneEach(Items(f)) => IsInjective(flush'[f].batch)
<1> DEFINE b == buf[f]
           n == IF Len(b) < MaxBatch THEN Len(b) ELSE MaxBatch
           low == nextSeq[f] - Len(b)
           batch == [i \in 1..n |-> b[i].ev]
<1>1. QueueType /\ OtherType /\ Numbers
  BY DEF Base
<1>2. PICK todo \in IF f \in Agents THEN {{c} : c \in Controllers} ELSE {Peers(f)} :
         flush' = [flush EXCEPT ![f] = [batch |-> batch, last |-> b[n].seq, todo |-> todo]]
  BY DEF FlushStart
<1>3. flush'[f] = [batch |-> batch, last |-> b[n].seq, todo |-> todo]
      /\ \A g \in Forwarders \ {f} : flush'[g] = flush[g]
  BY <1>1, <1>2 DEF OtherType
<1>4. flush'[f].batch = batch /\ flush'[f].last = b[n].seq /\ flush'[f].todo = todo
  BY <1>3
<1>5. b \in Seq(QueueItems) /\ Len(b) \in Nat
  BY <1>1 DEF QueueType
<1>6. DOMAIN b = 1..Len(b) /\ Items(f) = {b[i] : i \in 1..Len(b)}
  BY <1>5 DEF Items
<1>7. nextSeq[f] \in Nat /\ Len(b) <= nextSeq[f] /\ \A i \in 1..Len(b) : b[i].seq = low + i
  BY <1>1, <1>6 DEF Numbers, QueueType
<1>8. n \in 1..Len(b) /\ flush[f] = Idle
  BY <1>5, Bounds DEF FlushStart
<1>9. b # <<>>
  BY <1>5, <1>8
<1> HIDE DEF n
<1>10. DOMAIN batch = 1..n /\ \A i \in 1..n : batch[i] = b[i].ev
  OBVIOUS
<1> HIDE DEF batch, b
<1>11. n \in Nat /\ n >= 1 /\ n <= Len(b)
  BY <1>5, <1>8
<1>12. flush'[f].last = low + n
  BY <1>4, <1>7, <1>8
<1>13. low \in Nat /\ low + n <= nextSeq[f]
  BY <1>5, <1>7, <1>11
<1>14. batch # <<>>
  <2>1. 1 \in DOMAIN batch
    BY <1>10, <1>11
  <2>2. QED  BY <2>1
<1>15. Batch(f)' = {batch[i] : i \in 1..n}
  BY <1>4, <1>10 DEF Batch
<1>16. ASSUME NEW i \in 1..Len(b)
       PROVE  b[i].seq <= low + n <=> i \in 1..n
  <2>1. b[i].seq = low + i
    BY <1>7
  <2>2. QED  BY <2>1, <1>5, <1>11, <1>13
<1>17. \A i \in 1..n : i \in 1..Len(b)
  BY <1>5, <1>11
<1> HIDE DEF low
<1>18. Batch(f)' = {r.ev : r \in {r \in Items(f) : r.seq <= flush'[f].last}}
  <2>1. ASSUME NEW i \in 1..n  PROVE batch[i] \in {r.ev : r \in {r \in Items(f) : r.seq <= flush'[f].last}}
    <3>1. b[i] \in Items(f) /\ b[i].seq <= flush'[f].last
      BY <1>6, <1>12, <1>16, <1>17
    <3>2. QED  BY <3>1, <1>10
  <2>2. ASSUME NEW i \in 1..Len(b), b[i].seq <= flush'[f].last  PROVE b[i].ev \in {batch[j] : j \in 1..n}
    <3>1. i \in 1..n
      BY <2>2, <1>12, <1>16
    <3>2. QED  BY <3>1, <1>10
  <2>3. QED  BY <2>1, <2>2, <1>6, <1>15
<1>19. ASSUME OneEach(Items(f))  PROVE IsInjective(batch)
  <2> SUFFICES ASSUME NEW i \in 1..n, NEW j \in 1..n, batch[i] = batch[j]
               PROVE  i = j
    BY <1>10 DEF IsInjective
  <2>1. b[i] \in Items(f) /\ b[j] \in Items(f) /\ b[i].ev = b[j].ev
    BY <1>6, <1>10, <1>17
  <2>2. b[i] = b[j]
    BY <2>1, <1>19 DEF OneEach
  <2>3. low + i = low + j
    BY <2>2, <1>7, <1>17
  <2>4. QED  BY <2>3, <1>11, <1>13
<1>20. Sending(f)'
  BY <1>4, <1>14 DEF Sending
<1>21. f \in Controllers => flush'[f].todo = Peers(f)
  BY <1>2, <1>4, EventLogAssumption
<1>22. f \in Agents => \E c \in Controllers : flush'[f].todo = {c}
  BY <1>2, <1>4
<1>23. QED  BY <1>3, <1>4, <1>8, <1>9, <1>12, <1>13, <1>18, <1>19, <1>20, <1>21, <1>22 DEF b

(* The start of a Flush keeps the second layer: all of the listed peers are  *)
(* still to be served.                                                       *)
LEMMA CarryFlushStart ==
    ASSUME Base, Carry, NEW f \in Forwarders, FlushStart(f)
    PROVE  Carry'
<1>1. /\ QueueType /\ OtherType /\ Flushing /\ Carried /\ Copied
  BY DEF Base, Carry
<1>2. /\ \A g \in Forwarders \ {f} : flush'[g] = flush[g]
      /\ flush[f] = Idle /\ Sending(f)' /\ flush'[f].last <= nextSeq[f] /\ buf[f] # <<>>
      /\ Batch(f)' = {r.ev : r \in {r \in Items(f) : r.seq <= flush'[f].last}}
      /\ f \in Controllers => flush'[f].todo = Peers(f)
      /\ f \in Agents => \E c \in Controllers : flush'[f].todo = {c}
  BY Starting
<1>3. /\ buf' = buf /\ nextSeq' = nextSeq /\ mode' = mode /\ stored' = stored /\ dropped' = dropped
      /\ owed' = owed /\ recorded' = recorded
  BY DEF FlushStart, logs
<1>4. \A g : Items(g)' = Items(g)
  BY <1>3 DEF Items
<1>5. \A g \in Forwarders \ {f} : Batch(g)' = Batch(g) /\ (Sending(g)' <=> Sending(g))
  BY <1>2, BatchKept
<1>6. Flushing'
  <2> SUFFICES ASSUME NEW g \in Forwarders
               PROVE  /\ flush'[g] = Idle \/ Sending(g)'
                      /\ Sending(g)' => /\ flush'[g].last <= nextSeq'[g] /\ buf'[g] # <<>>
                                        /\ \A r \in Items(g)' : r.seq <= flush'[g].last => r.ev \in Batch(g)'
                                        /\ g \in Controllers => g \notin flush'[g].todo
    BY DEF Flushing
  <2>1. CASE g = f
    BY <2>1, <1>2, <1>3, <1>4 DEF Peers
  <2>2. CASE g # f
    BY <2>2, <1>1, <1>2, <1>3, <1>4, <1>5 DEF Flushing
  <2>3. QED  BY <2>1, <2>2
<1>7. \A e : Safe(e)' <=> Safe(e)
  BY <1>3 DEF Safe
<1>8. Carried'
  <2>1. ASSUME NEW a \in Agents, Sending(a)', flush'[a].todo = {}
        PROVE  \A e \in Batch(a)' : Safe(e)'
    <3>1. a # f
      BY <2>1, <1>2
    <3>2. QED  BY <3>1, <2>1, <1>1, <1>2, <1>5, <1>7, AgentsForward DEF Carried
  <2>2. QED  BY <2>1, <1>1, <1>3, <1>4, <1>7 DEF Carried
<1>9. Copied'
  <2> SUFFICES ASSUME NEW c \in Controllers, NEW d \in Controllers \ {c}, mode[d] # "down",
                      NEW e \in owed[c][d]
               PROVE  \/ e \in stored[d] \cup dropped[c] \cup Unwatched
                      \/ \E r \in Items(c) : r.ev = e /\ Open(c, d, r)'
    BY <1>3, <1>4 DEF Copied
  <2>1. ASSUME NEW r \in Items(c), Open(c, d, r)  PROVE Open(c, d, r)'
    <3>1. CASE c = f
      <4>1. d \in flush'[c].todo
        BY <3>1, <1>2 DEF Peers
      <4>2. QED  BY <4>1 DEF Open
    <3>2. CASE c # f
      BY <3>2, <2>1, <1>2, <1>5, ControllersForward DEF Open
    <3>3. QED  BY <3>1, <3>2
  <2>2. QED  BY <2>1, <1>1 DEF Copied
<1>10. QED  BY <1>6, <1>8, <1>9 DEF Carry

(* FlushDone leaves the events after the last one sent. *)
LEMMA Finishing ==
    ASSUME Base, NEW f \in Forwarders, FlushDone(f)
    PROVE  /\ \A g \in Forwarders \ {f} : flush'[g] = flush[g] /\ buf'[g] = buf[g]
           /\ flush[f] # Idle /\ flush[f].todo = {} /\ flush'[f] = Idle /\ ~Sending(f)'
           /\ Items(f)' = {r \in Items(f) : r.seq > flush[f].last}
<1>1. QueueType /\ OtherType /\ Numbers /\ TypeOK
  BY TypeByParts DEF Base
<1> DEFINE rest == Sent(buf[f], flush[f].last)
<1>2. flush[f].last \in Nat
  BY <1>1 DEF OtherType, Flushes
<1>3. {rest[i] : i \in DOMAIN rest} = {r \in Items(f) : r.seq > flush[f].last}
  BY <1>1, <1>2, SentItems
<1>4. /\ flush[f] # Idle /\ flush[f].todo = {}
      /\ buf' = [buf EXCEPT ![f] = rest] /\ flush' = [flush EXCEPT ![f] = Idle]
  BY DEF FlushDone
<1> HIDE DEF rest
<1>5. buf'[f] = rest /\ flush'[f] = Idle
      /\ \A g \in Forwarders \ {f} : flush'[g] = flush[g] /\ buf'[g] = buf[g]
  BY <1>1, <1>4 DEF QueueType, OtherType
<1>6. Items(f)' = {rest[i] : i \in DOMAIN rest}
  BY <1>5 DEF Items
<1>7. ~Sending(f)'
  BY <1>5 DEF Sending, Idle
<1>8. QED  BY <1>3, <1>4, <1>5, <1>6, <1>7

(* The end of a Flush keeps the second layer: it forgets only what every     *)
(* target took.                                                              *)
LEMMA CarryFlushDone ==
    ASSUME Base, Carry, NEW f \in Forwarders, FlushDone(f)
    PROVE  Carry'
<1>1. /\ QueueType /\ OtherType /\ Flushing /\ Carried /\ Copied
  BY DEF Base, Carry
<1>2. /\ \A g \in Forwarders \ {f} : flush'[g] = flush[g] /\ buf'[g] = buf[g]
      /\ flush[f] # Idle /\ flush[f].todo = {} /\ flush'[f] = Idle /\ ~Sending(f)'
      /\ Items(f)' = {r \in Items(f) : r.seq > flush[f].last}
  BY Finishing
<1>3. /\ nextSeq' = nextSeq /\ mode' = mode /\ stored' = stored /\ dropped' = dropped
      /\ owed' = owed /\ recorded' = recorded
  BY DEF FlushDone, logs
<1>4. \A g \in Forwarders \ {f} : Items(g)' = Items(g) /\ Batch(g)' = Batch(g) /\ (Sending(g)' <=> Sending(g))
  BY <1>2, BatchKept DEF Items
<1>5. Sending(f) /\ \A r \in Items(f) : r.seq <= flush[f].last => r.ev \in Batch(f)
  BY <1>1, <1>2 DEF Flushing
<1>6. flush[f].last \in Nat /\ \A r \in Items(f) : r.seq \in Nat
  BY <1>1, ItemsType DEF OtherType, Flushes, QueueItems
<1>7. \A r \in Items(f) : r \in Items(f)' \/ r.ev \in Batch(f)
  BY <1>2, <1>5, <1>6
<1>8. Flushing'
  <2> SUFFICES ASSUME NEW g \in Forwarders
               PROVE  /\ flush'[g] = Idle \/ Sending(g)'
                      /\ Sending(g)' => /\ flush'[g].last <= nextSeq'[g] /\ buf'[g] # <<>>
                                        /\ \A r \in Items(g)' : r.seq <= flush'[g].last => r.ev \in Batch(g)'
                                        /\ g \in Controllers => g \notin flush'[g].todo
    BY DEF Flushing
  <2>1. CASE g = f
    BY <2>1, <1>2
  <2>2. CASE g # f
    BY <2>2, <1>1, <1>2, <1>3, <1>4 DEF Flushing
  <2>3. QED  BY <2>1, <2>2
<1>9. \A e : Safe(e)' <=> Safe(e)
  BY <1>3 DEF Safe
<1>10. Carried'
  <2>1. ASSUME NEW c \in Controllers
        PROVE  /\ mode'[c] = "down" => stored'[c] = {}
               /\ \A r \in Items(c)' : r.ev \in stored'[c]
    BY <1>1, <1>2, <1>3, <1>4, ControllersForward DEF Carried
  <2>2. ASSUME NEW a \in Agents, Sending(a)', flush'[a].todo = {}
        PROVE  \A e \in Batch(a)' : Safe(e)'
    <3>1. a # f
      BY <2>2, <1>2
    <3>2. QED  BY <3>1, <2>2, <1>1, <1>2, <1>4, <1>9, AgentsForward DEF Carried
  <2>3. ASSUME NEW e \in 1..recorded'
        PROVE  Safe(e)' \/ \E g \in Forwarders : \E r \in Items(g)' : r.ev = e
    <3>1. CASE Safe(e)
      BY <3>1, <1>9
    <3>2. CASE \E g \in Forwarders : \E r \in Items(g) : r.ev = e
      <4>1. PICK g \in Forwarders : \E r \in Items(g) : r.ev = e
        BY <3>2
      <4>2. PICK r \in Items(g) : r.ev = e
        BY <4>1
      <4>3. CASE g # f
        BY <4>2, <4>3, <1>4
      <4>4. CASE g = f /\ r.ev \in Batch(f)
        <5>1. CASE f \in Agents
          BY <5>1, <4>2, <4>4, <1>1, <1>2, <1>5, <1>9 DEF Carried
        <5>2. CASE f \in Controllers
          <6>1. r.ev \in stored[f]
            BY <5>2, <4>2, <4>4, <1>1 DEF Carried
          <6>2. QED  BY <6>1, <5>2, <4>2, <1>9 DEF Safe
        <5>3. QED  BY <5>1, <5>2 DEF Forwarders
      <4>5. QED  BY <4>2, <4>3, <4>4, <1>7
    <3>3. QED  BY <3>1, <3>2, <1>1, <1>3 DEF Carried
  <2>4. QED  BY <2>1, <2>2, <2>3 DEF Carried
<1>11. Copied'
  <2> SUFFICES ASSUME NEW c \in Controllers, NEW d \in Controllers \ {c}, mode[d] # "down",
                      NEW e \in owed[c][d]
               PROVE  \/ e \in stored[d] \cup dropped[c] \cup Unwatched
                      \/ \E r \in Items(c)' : r.ev = e /\ Open(c, d, r)'
    BY <1>3 DEF Copied
  <2>1. ASSUME NEW r \in Items(c), Open(c, d, r)  PROVE r \in Items(c)' /\ Open(c, d, r)'
    <3>1. CASE c = f
      <4>1. r.seq > flush[f].last
        BY <3>1, <2>1, <1>2, <1>5 DEF Open
      <4>2. QED  BY <4>1, <3>1, <1>2 DEF Open
    <3>2. CASE c # f
      BY <3>2, <2>1, <1>2, <1>4, ControllersForward DEF Open
    <3>3. QED  BY <3>1, <3>2
  <2>2. QED  BY <2>1, <1>1 DEF Copied
<1>12. QED  BY <1>8, <1>10, <1>11 DEF Carry

(* A process that ends counts its queue as dropped. *)
LEMMA Stopping ==
    ASSUME Base, NEW f \in Forwarders, NEW log, Stops(f, log)
    PROVE  /\ \A g \in Forwarders \ {f} : /\ flush'[g] = flush[g] /\ buf'[g] = buf[g]
                                          /\ nextSeq'[g] = nextSeq[g] /\ dropped'[g] = dropped[g]
                                          /\ Items(g)' = Items(g) /\ Batch(g)' = Batch(g)
                                          /\ Sending(g)' <=> Sending(g)
           /\ flush'[f] = Idle /\ ~Sending(f)' /\ Items(f)' = {} /\ Batch(f)' = {} /\ buf'[f] = <<>>
           /\ dropped'[f] = dropped[f] \cup log \cup {r.ev : r \in Items(f)}
<1>1. QueueType /\ OtherType
  BY DEF Base
<1>2. /\ buf' = [buf EXCEPT ![f] = <<>>] /\ nextSeq' = [nextSeq EXCEPT ![f] = 0]
      /\ flush' = [flush EXCEPT ![f] = Idle]
      /\ dropped' = [dropped EXCEPT ![f] = dropped[f] \cup log \cup {r.ev : r \in Items(f)}]
  BY DEF Stops, Items
<1>3. \A g \in Forwarders \ {f} : /\ flush'[g] = flush[g] /\ buf'[g] = buf[g]
                                  /\ nextSeq'[g] = nextSeq[g] /\ dropped'[g] = dropped[g]
  BY <1>1, <1>2 DEF QueueType, OtherType
<1>4. /\ flush'[f] = Idle /\ buf'[f] = <<>>
      /\ dropped'[f] = dropped[f] \cup log \cup {r.ev : r \in Items(f)}
  BY <1>1, <1>2 DEF QueueType, OtherType
<1>5. \A g \in Forwarders \ {f} : Items(g)' = Items(g) /\ Batch(g)' = Batch(g) /\ (Sending(g)' <=> Sending(g))
  BY <1>3, BatchKept DEF Items
<1>6. ~Sending(f)' /\ Batch(f)' = {} /\ Items(f)' = {}
  BY <1>4 DEF Sending, Idle, Batch, Items
<1>7. QED  BY <1>3, <1>4, <1>5, <1>6

(* The restart of an agent keeps the second layer. *)
LEMMA CarryAgentRestarts ==
    ASSUME Base, Carry, NEW a \in Agents, AgentRestarts(a)
    PROVE  Carry'
<1>1. QueueType /\ OtherType /\ Flushing /\ Carried /\ Copied /\ a \in Forwarders /\ a \notin Controllers
  BY AgentsForward, EventLogAssumption DEF Base, Carry
<1>2. /\ \A g \in Forwarders \ {a} : /\ flush'[g] = flush[g] /\ buf'[g] = buf[g]
                                     /\ nextSeq'[g] = nextSeq[g] /\ dropped'[g] = dropped[g]
                                     /\ Items(g)' = Items(g) /\ Batch(g)' = Batch(g)
                                     /\ Sending(g)' <=> Sending(g)
      /\ flush'[a] = Idle /\ ~Sending(a)' /\ Items(a)' = {}
      /\ dropped'[a] = dropped[a] \cup {} \cup {r.ev : r \in Items(a)}
  BY <1>1, Stopping DEF AgentRestarts
<1>3. mode' = mode /\ stored' = stored /\ owed' = owed /\ recorded' = recorded
  BY DEF AgentRestarts, logs
<1>4. \A e : Safe(e) => Safe(e)'
  <2>1. \A f \in Forwarders : dropped[f] \subseteq dropped'[f]
    BY <1>2
  <2>2. QED  BY <2>1, <1>3, SafeKept
<1>5. Flushing'
  BY <1>1, <1>2 DEF Flushing
<1>6. Carried'
  <2>1. ASSUME NEW c \in Controllers
        PROVE  /\ mode'[c] = "down" => stored'[c] = {}
               /\ \A r \in Items(c)' : r.ev \in stored'[c]
    BY <1>1, <1>2, <1>3, ControllersForward DEF Carried
  <2>2. ASSUME NEW b \in Agents, Sending(b)', flush'[b].todo = {}
        PROVE  \A e \in Batch(b)' : Safe(e)'
    <3>1. b # a
      BY <2>2, <1>2
    <3>2. QED  BY <3>1, <2>2, <1>1, <1>2, <1>4, AgentsForward DEF Carried
  <2>3. ASSUME NEW e \in 1..recorded'
        PROVE  Safe(e)' \/ \E g \in Forwarders : \E r \in Items(g)' : r.ev = e
    <3>1. CASE Safe(e)
      BY <3>1, <1>4
    <3>2. CASE \E g \in Forwarders : \E r \in Items(g) : r.ev = e
      <4>1. PICK g \in Forwarders : \E r \in Items(g) : r.ev = e
        BY <3>2
      <4>2. CASE g # a
        BY <4>1, <4>2, <1>2
      <4>3. CASE g = a
        <5>1. e \in dropped'[a]
          BY <4>1, <4>3, <1>2
        <5>2. QED  BY <5>1, <1>1 DEF Safe
      <4>4. QED  BY <4>2, <4>3
    <3>3. QED  BY <3>1, <3>2, <1>1, <1>3 DEF Carried
  <2>4. QED  BY <2>1, <2>2, <2>3 DEF Carried
<1>7. Copied'
  <2> SUFFICES ASSUME NEW c \in Controllers, NEW d \in Controllers \ {c}, mode[d] # "down",
                      NEW e \in owed[c][d]
               PROVE  \/ e \in stored[d] \cup dropped'[c] \cup Unwatched
                      \/ \E r \in Items(c)' : r.ev = e /\ Open(c, d, r)'
    BY <1>3 DEF Copied
  <2>1. c \in Forwarders \ {a}
    BY <1>1, ControllersForward
  <2>2. \A r : Open(c, d, r) => Open(c, d, r)'
    BY <2>1, <1>2 DEF Open
  <2>3. QED  BY <2>1, <2>2, <1>1, <1>2 DEF Copied
<1>8. QED  BY <1>5, <1>6, <1>7 DEF Carry

(* The end of a controller process keeps the second layer: its log and its   *)
(* queue are counted as dropped, and its peers owe it nothing more.          *)
LEMMA CarryControllerStops ==
    ASSUME Base, Carry, NEW c \in Controllers, ControllerStops(c)
    PROVE  Carry'
<1>1. QueueType /\ LogType /\ OtherType /\ Flushing /\ Carried /\ Copied /\ c \in Forwarders
  BY ControllersForward DEF Base, Carry
<1>2. /\ \A g \in Forwarders \ {c} : /\ flush'[g] = flush[g] /\ buf'[g] = buf[g]
                                     /\ nextSeq'[g] = nextSeq[g] /\ dropped'[g] = dropped[g]
                                     /\ Items(g)' = Items(g) /\ Batch(g)' = Batch(g)
                                     /\ Sending(g)' <=> Sending(g)
      /\ flush'[c] = Idle /\ ~Sending(c)' /\ Items(c)' = {}
      /\ dropped'[c] = dropped[c] \cup stored[c] \cup {r.ev : r \in Items(c)}
  BY <1>1, Stopping DEF ControllerStops
<1>3. /\ mode' = [mode EXCEPT ![c] = "down"] /\ stored' = [stored EXCEPT ![c] = {}]
      /\ owed' = [owed EXCEPT ![c] = [d \in Controllers |-> {}]] /\ recorded' = recorded
  BY DEF ControllerStops
<1>4. /\ mode'[c] = "down" /\ stored'[c] = {} /\ \A d \in Controllers : owed'[c][d] = {}
      /\ \A d \in Controllers \ {c} : mode'[d] = mode[d] /\ stored'[d] = stored[d] /\ owed'[d] = owed[d]
  BY <1>1, <1>3 DEF LogType, OtherType
<1>5. \A e : Safe(e) => Safe(e)'
  <2>1. \A f \in Forwarders : dropped[f] \subseteq dropped'[f]
    BY <1>2
  <2>2. \A d \in Controllers : stored[d] \subseteq stored'[d] \cup dropped'[d]
    BY <1>2, <1>4
  <2>3. QED  BY <2>1, <2>2, SafeKept
<1>6. Flushing'
  BY <1>1, <1>2 DEF Flushing
<1>7. Carried'
  <2>1. ASSUME NEW d \in Controllers
        PROVE  /\ mode'[d] = "down" => stored'[d] = {}
               /\ \A r \in Items(d)' : r.ev \in stored'[d]
    BY <1>1, <1>2, <1>4, ControllersForward DEF Carried
  <2>2. ASSUME NEW b \in Agents, Sending(b)', flush'[b].todo = {}
        PROVE  \A e \in Batch(b)' : Safe(e)'
    <3>1. b # c
      BY <2>2, <1>2
    <3>2. QED  BY <3>1, <2>2, <1>1, <1>2, <1>5, AgentsForward DEF Carried
  <2>3. ASSUME NEW e \in 1..recorded'
        PROVE  Safe(e)' \/ \E g \in Forwarders : \E r \in Items(g)' : r.ev = e
    <3>1. CASE Safe(e)
      BY <3>1, <1>5
    <3>2. CASE \E g \in Forwarders : \E r \in Items(g) : r.ev = e
      <4>1. PICK g \in Forwarders : \E r \in Items(g) : r.ev = e
        BY <3>2
      <4>2. CASE g # c
        BY <4>1, <4>2, <1>2
      <4>3. CASE g = c
        <5>1. e \in dropped'[c]
          BY <4>1, <4>3, <1>2
        <5>2. QED  BY <5>1, <1>1 DEF Safe
      <4>4. QED  BY <4>2, <4>3
    <3>3. QED  BY <3>1, <3>2, <1>1, <1>3 DEF Carried
  <2>4. QED  BY <2>1, <2>2, <2>3 DEF Carried
<1>8. Copied'
  <2> SUFFICES ASSUME NEW b \in Controllers, NEW d \in Controllers \ {b}, mode'[d] # "down",
                      NEW e \in owed'[b][d]
               PROVE  \/ e \in stored'[d] \cup dropped'[b] \cup Unwatched
                      \/ \E r \in Items(b)' : r.ev = e /\ Open(b, d, r)'
    BY DEF Copied
  <2>1. b # c /\ d # c
    BY <1>4
  <2>2. e \in owed[b][d] /\ mode[d] # "down" /\ stored'[d] = stored[d] /\ b \in Forwarders \ {c}
    BY <2>1, <1>4, ControllersForward
  <2>3. \A r : Open(b, d, r) => Open(b, d, r)'
    BY <2>2, <1>2 DEF Open
  <2>4. QED  BY <2>2, <2>3, <1>1, <1>2 DEF Copied
<1>9. QED  BY <1>6, <1>7, <1>8 DEF Carry

(* A controller that starts again keeps the second layer. *)
LEMMA CarryLoadFromFile ==
    ASSUME Base, Carry, NEW c \in Controllers, LoadFromFile(c)
    PROVE  Carry'
<1>1. QueueType /\ LogType /\ OtherType /\ Flushing /\ Carried /\ Copied /\ c \in Forwarders
  BY ControllersForward DEF Base, Carry
<1>2. buf' = buf /\ nextSeq' = nextSeq /\ flush' = flush /\ dropped' = dropped /\ recorded' = recorded
  BY DEF LoadFromFile, forwarding
<1>3. \A g : Items(g)' = Items(g) /\ Batch(g)' = Batch(g) /\ (Sending(g)' <=> Sending(g))
  BY <1>2 DEF Items, Batch, Sending
<1>4. /\ mode[c] = "down" /\ mode'[c] = "loaded" /\ stored[c] = {}
      /\ \A d \in Controllers \ {c} : mode'[d] = mode[d] /\ stored'[d] = stored[d]
      /\ \A b \in Controllers : owed'[b][c] = {} /\ \A d \in Controllers \ {c} : owed'[b][d] = owed[b][d]
  <2>1. \A d \in Controllers \ {c} : stored'[d] = stored[d]
    BY <1>1 DEF LoadFromFile, LogType
  <2>2. QED  BY <2>1, <1>1 DEF LoadFromFile, OtherType, Carried
<1>5. \A e : Safe(e) => Safe(e)'
  BY <1>2, <1>4, SafeKept
<1>6. Flushing'
  BY <1>1, <1>2, <1>3 DEF Flushing
<1>7. Carried'
  <2>1. ASSUME NEW d \in Controllers
        PROVE  /\ mode'[d] = "down" => stored'[d] = {}
               /\ \A r \in Items(d)' : r.ev \in stored'[d]
    BY <1>1, <1>3, <1>4 DEF Carried
  <2>2. QED  BY <2>1, <1>1, <1>2, <1>3, <1>5 DEF Carried
<1>8. Copied'
  <2> SUFFICES ASSUME NEW b \in Controllers, NEW d \in Controllers \ {b}, mode'[d] # "down",
                      NEW e \in owed'[b][d]
               PROVE  \/ e \in stored'[d] \cup dropped'[b] \cup Unwatched
                      \/ \E r \in Items(b)' : r.ev = e /\ Open(b, d, r)'
    BY DEF Copied
  <2>1. d # c
    BY <1>4
  <2>2. e \in owed[b][d] /\ mode[d] # "down" /\ stored'[d] = stored[d]
    BY <2>1, <1>4
  <2>3. \A r : Open(b, d, r) => Open(b, d, r)'
    BY <1>2, <1>3 DEF Open
  <2>4. QED  BY <2>2, <2>3, <1>1, <1>2, <1>3 DEF Copied
<1>9. QED  BY <1>6, <1>7, <1>8 DEF Carry

(* Every step keeps the second layer. *)
LEMMA CarryNext == Base /\ Base' /\ Carry /\ [Next]_vars => Carry'
<1> SUFFICES ASSUME Base, Base', Carry, [Next]_vars PROVE Carry'
  OBVIOUS
<1> USE DEF Next
<1>1. ASSUME NEW a \in Agents, RecordOnNode(a)  PROVE Carry'
  BY <1>1, RecordOnNodeGrows, GrowingCarries, AgentsForward
<1>2. ASSUME NEW c \in Controllers, RecordOnController(c)  PROVE Carry'
  <2>1. PICK S : Growing(c, S)
    BY <1>2, RecordOnControllerGrows
  <2>2. QED  BY <2>1, GrowingCarries, ControllersForward
<1>3. ASSUME NEW f \in Forwarders, NEW c \in Controllers, Deliver(f, c)  PROVE Carry'
  <2>1. PICK S : Growing(c, S)
    BY <1>3, DeliverGrows
  <2>2. QED  BY <2>1, GrowingCarries, ControllersForward
<1>4. ASSUME NEW f \in Forwarders, NEW c \in Controllers, DeliveryFails(f, c)  PROVE Carry'
  <2>1. Growing(f, {})
    BY <1>4, QuietGrows DEF DeliveryFails, logs, Base, LogType
  <2>2. QED  BY <2>1, GrowingCarries
<1>5. ASSUME NEW c \in Controllers, Elect(c)  PROVE Carry'
  <2>1. Growing(c, {})
    BY <1>5, QuietGrows, ControllersForward DEF Elect, logs, forwarding
  <2>2. QED  BY <2>1, GrowingCarries, ControllersForward
<1>6. ASSUME NEW c \in Controllers, Serve(c)  PROVE Carry'
  <2>1. \A d \in Controllers : mode'[d] = "down" <=> mode[d] = "down"
    BY <1>6 DEF Serve, Base, OtherType
  <2>2. Growing(c, {})
    BY <1>6, <2>1, QuietGrows, ControllersForward DEF Serve, logs, forwarding
  <2>3. QED  BY <2>2, GrowingCarries, ControllersForward
<1>7. ASSUME NEW c \in Controllers, Backfill(c)  PROVE Carry'
  <2>1. /\ UNCHANGED <<buf, nextSeq, dropped, owed, recorded>> /\ flush' = flush /\ mode[c] = "loaded"
        /\ mode' = [mode EXCEPT ![c] = "backfilled"]
    BY <1>7 DEF Backfill, forwarding
  <2>2. \A d \in Controllers : mode'[d] = "down" <=> mode[d] = "down"
    BY <2>1 DEF Base, OtherType
  <2>3. stored' = stored \/ \E evs : stored' = [stored EXCEPT ![c] = stored[c] \cup evs]
    BY <1>7 DEF Backfill, Record, logs
  <2>4. \A d \in Controllers : /\ stored[d] \subseteq stored'[d]
                               /\ mode[d] = "down" => stored'[d] = stored[d]
    BY <2>1, <2>3 DEF Base, LogType
  <2>5. Growing(c, {})
    BY <2>1, <2>2, <2>4, QuietGrows, ControllersForward
  <2>6. QED  BY <2>5, GrowingCarries, ControllersForward
<1>8. ASSUME UNCHANGED vars PROVE Carry'
  <2>1. \A g : Items(g)' = Items(g) /\ Batch(g)' = Batch(g) /\ (Sending(g)' <=> Sending(g))
    BY <1>8 DEF Items, Batch, Sending, vars, forwarding
  <2>2. \A e : Safe(e)' <=> Safe(e)
    BY <1>8 DEF Safe, vars, logs
  <2>3. \A c, d, r : Open(c, d, r)' <=> Open(c, d, r)
    BY <1>8, <2>1 DEF Open, vars, forwarding
  <2>4. Flushing'
    BY <1>8, <2>1 DEF Flushing, Carry, vars, forwarding
  <2>5. Carried'
    BY <1>8, <2>1, <2>2 DEF Carried, Carry, vars, logs, forwarding
  <2>6. Copied'
    BY <1>8, <2>1, <2>3 DEF Copied, Carry, vars, logs
  <2>7. QED  BY <2>4, <2>5, <2>6 DEF Carry
<1>9. QED
  BY <1>1, <1>2, <1>3, <1>4, <1>5, <1>6, <1>7, <1>8, CarryFlushStart, CarryFlushDone,
     CarryAgentRestarts, CarryControllerStops, CarryLoadFromFile

(* The second layer says where every event is. *)
LEMMA CarryGivesEventsArrive == Base /\ Carry => EventsArrive
<1> SUFFICES ASSUME Base, Carry PROVE EventsArrive
  OBVIOUS
<1>1. \A f : Pending(f) = {r.ev : r \in Items(f)}
  BY DEF Pending, Items
<1>2. NothingLost
  BY <1>1 DEF NothingLost, Carry, Carried, Safe
<1>3. CopiesArrive
  BY <1>1 DEF CopiesArrive, Carry, Copied
<1>4. QED  BY <1>2, <1>3 DEF EventsArrive

(* No event is lost on its way, for any number of agents and controllers and *)
(* any sizes of batch, buffer and ring: until it is counted as dropped or is *)
(* of no watched namespace, it is queued or stored (NothingLost), and what a *)
(* running peer misses of the leader's events is still queued for it         *)
(* (CopiesArrive).                                                           *)
THEOREM EveryEventArrives == Spec => []EventsArrive
<1>1. Spec => [](Base /\ Carry)
  BY BaseInit, CarryInit, BaseNext, CarryNext, PTL DEF Spec
<1>2. QED  BY <1>1, CarryGivesEventsArrive, PTL

--------------------------------------------------------------------------------
(* The third layer: no event twice. *)

(* The events of a set of queued events or of entries. *)
EventsIn(S) == {x.ev : x \in S}

(* No agent is a controller. *)
LEMMA ControllersNotAgents == \A a \in Agents : a \notin Controllers
  BY EventLogAssumption

(* Events are numbers. *)
LEMMA EventTypes ==
    ASSUME Base
    PROVE  /\ \A f \in Forwarders : EventsIn(Items(f)) \subseteq Nat /\ Batch(f) \subseteq Nat
           /\ \A c \in Controllers : Held(c) \subseteq Nat
<1>1. QueueType /\ LogType /\ OtherType
  BY DEF Base
<1>2. \A f \in Forwarders : EventsIn(Items(f)) \subseteq Nat
  BY <1>1, ItemsType DEF EventsIn, QueueItems
<1>3. ASSUME NEW f \in Forwarders  PROVE Batch(f) \subseteq Nat
  <2>1. flush[f].batch \in Seq(Nat)
    BY <1>1 DEF OtherType, Flushes
  <2>2. \A i \in DOMAIN flush[f].batch : flush[f].batch[i] \in Nat
    BY <2>1
  <2>3. QED  BY <2>2 DEF Batch
<1>4. ASSUME NEW c \in Controllers  PROVE Held(c) \subseteq Nat
  <2>1. ring[c] \in Seq(Entries) /\ file[c] \in Seq(Entries)
    BY <1>1 DEF LogType
  <2>2. (\A i \in DOMAIN ring[c] : ring[c][i] \in Entries) /\ (\A i \in DOMAIN file[c] : file[c][i] \in Entries)
    BY <2>1
  <2>3. \A x \in RingSet(c) \cup FileSet(c) : x \in Entries
    BY <2>2 DEF RingSet, FileSet
  <2>4. QED  BY <2>3 DEF Held, Entries
<1>5. QED  BY <1>2, <1>3, <1>4

(* A step that brings only events that are recorded by then keeps Fresh. *)
LEMMA FreshKept ==
    ASSUME Base, Base', Fresh, recorded <= recorded', NEW E, \A e \in E : e <= recorded',
           \A f \in Forwarders : /\ EventsIn(Items(f)') \subseteq EventsIn(Items(f)) \cup E
                                 /\ Batch(f)' \subseteq Batch(f) \cup EventsIn(Items(f)),
           \A c \in Controllers : Held(c)' \subseteq Held(c) \cup E
    PROVE  Fresh'
<1>1. recorded \in Nat /\ recorded' \in Nat
  BY DEF Base, OtherType
<1>2. \A f \in Forwarders : EventsIn(Items(f)) \subseteq Nat /\ Batch(f) \subseteq Nat
  BY EventTypes
<1>3. \A c \in Controllers : Held(c) \subseteq Nat
  BY EventTypes
<1>4. \A f \in Forwarders : /\ \A e \in EventsIn(Items(f)) : e <= recorded'
                            /\ \A e \in Batch(f) : e <= recorded'
  <2>1. \A f \in Forwarders : \A e \in EventsIn(Items(f)) : e <= recorded
    BY DEF Fresh, EventsIn
  <2>2. \A f \in Forwarders : \A e \in Batch(f) : e <= recorded
    BY DEF Fresh
  <2>3. QED  BY <2>1, <2>2, <1>1, <1>2
<1>5. \A c \in Controllers : \A e \in Held(c) : e <= recorded'
  BY <1>1, <1>3 DEF Fresh
<1>6. \A f \in Forwarders : \A r \in Items(f)' : r.ev \in EventsIn(Items(f)')
  BY DEF EventsIn
<1>7. QED  BY <1>4, <1>5, <1>6 DEF Fresh

(* A step that adds no event to any log or queue keeps Once, when a Flush    *)
(* asks no peer that already has its batch.                                  *)
LEMMA OnceShrinks ==
    ASSUME Once,
           \A c \in Controllers : /\ OneEach(RingSet(c)') /\ OneEach(FileSet(c)')
                                  /\ Held(c)' \subseteq Held(c),
           \A f \in Forwarders : /\ Items(f)' \subseteq Items(f)
                                 /\ IsInjective(flush'[f].batch)
                                 /\ Sending(f)' => \A r \in Items(f)' : r.seq > flush'[f].last => r.ev \notin Batch(f)',
           \A c \in Controllers : buf'[c] # <<>> => leader' = c,
           \A a \in Agents : Waiting(a)' \subseteq Waiting(a),
           \A c \in Controllers : Batch(c)' \subseteq Batch(c) \cup EventsIn(Items(c)),
           \A c \in Controllers : \A d \in Controllers \ {c} :
               /\ \A r \in Items(c)' : Open(c, d, r)' => Open(c, d, r)
               /\ d \in flush'[c].todo => \/ d \in flush[c].todo /\ Batch(c)' \subseteq Batch(c)
                                          \/ /\ Batch(c)' \subseteq EventsIn(Items(c))
                                             /\ \A r \in Items(c) : Open(c, d, r)
    PROVE  Once'
<1>1. \A f \in Forwarders : OneEach(Items(f)')
  BY DEF Once, OneEach
<1>2. \A a, b \in Agents : a # b => Waiting(a)' \cap Waiting(b)' = {}
  BY DEF Once
<1>3. ASSUME NEW a \in Agents, NEW c \in Controllers
      PROVE  /\ Waiting(a)' \cap Held(c)' = {} /\ Waiting(a)' \cap Batch(c)' = {}
             /\ \A r \in Items(c)' : r.ev \notin Waiting(a)'
  <2>1. Waiting(a)' \subseteq Waiting(a) /\ Held(c)' \subseteq Held(c) /\ Items(c)' \subseteq Items(c)
        /\ Batch(c)' \subseteq Batch(c) \cup EventsIn(Items(c))
    BY ControllersForward
  <2>2. /\ Waiting(a) \cap Held(c) = {} /\ Waiting(a) \cap Batch(c) = {}
        /\ \A r \in Items(c) : r.ev \notin Waiting(a)
    BY DEF Once
  <2>3. QED  BY <2>1, <2>2 DEF EventsIn
<1>4. ASSUME NEW c \in Controllers, NEW d \in Controllers \ {c}
      PROVE  /\ \A r \in Items(c)' : Open(c, d, r)' => r.ev \notin Held(d)'
             /\ d \in flush'[c].todo => Batch(c)' \cap Held(d)' = {}
  <2>1. /\ \A r \in Items(c) : Open(c, d, r) => r.ev \notin Held(d)
        /\ d \in flush[c].todo => Batch(c) \cap Held(d) = {}
    BY DEF Once
  <2>2. Items(c)' \subseteq Items(c) /\ Held(d)' \subseteq Held(d)
    BY ControllersForward
  <2>3. \A r \in Items(c)' : Open(c, d, r)' => r.ev \notin Held(d)'
    BY <2>1, <2>2
  <2>4. ASSUME d \in flush'[c].todo  PROVE Batch(c)' \cap Held(d)' = {}
    <3>1. CASE d \in flush[c].todo /\ Batch(c)' \subseteq Batch(c)
      BY <3>1, <2>1, <2>2
    <3>2. CASE Batch(c)' \subseteq EventsIn(Items(c)) /\ \A r \in Items(c) : Open(c, d, r)
      BY <3>2, <2>1, <2>2 DEF EventsIn
    <3>3. QED  BY <3>1, <3>2, <2>4
  <2>5. QED  BY <2>3, <2>4
<1>5. QED  BY <1>1, <1>2, <1>3, <1>4 DEF Once

(* Adding events that are not there repeats none. *)
LEMMA JoinOneEach ==
    ASSUME NEW S, NEW N, NEW T, OneEach(S), OneEach(N), \A x \in S, y \in N : x.ev # y.ev,
           T \subseteq S \cup N
    PROVE  OneEach(T)
  BY DEF OneEach

(* A step that brings to the log of c, and to its queue if it leads, events  *)
(* that no controller has and no agent has left to send, keeps Once.         *)
LEMMA OnceNew ==
    ASSUME Base, Once, Carry, NEW c \in Controllers, NEW N, NEW S,
           Writes(c, N), OneEach(N), Joins(c, S), OneEach(S), EventsIn(S) \subseteq EventsIn(N),
           S # {} => leader = c, leader' = leader,
           \A g \in Controllers : flush'[g] = flush[g],
           \A a \in Agents : /\ flush'[a].batch = flush[a].batch /\ flush'[a].last = flush[a].last
                             /\ Waiting(a)' \subseteq Waiting(a) \ EventsIn(N),
           \A g \in Controllers : /\ EventsIn(N) \cap Held(g) = {} /\ EventsIn(N) \cap Batch(g) = {}
                                  /\ EventsIn(N) \cap EventsIn(Items(g)) = {}
    PROVE  Once'
<1>1. c \in Forwarders
  BY ControllersForward
<1>2. \A g \in Forwarders : Batch(g)' = Batch(g) /\ (Sending(g)' <=> Sending(g))
      /\ flush'[g].batch = flush[g].batch /\ flush'[g].last = flush[g].last
  BY BatchKept DEF Forwarders
<1>3. \A g \in Forwarders \ {c} : Items(g)' = Items(g) /\ buf'[g] = buf[g]
  BY DEF Joins, Items
<1>4. Items(c)' \subseteq Items(c) \cup S
  BY DEF Joins
<1>5. \A d \in Controllers \ {c} : RingSet(d)' = RingSet(d) /\ FileSet(d)' = FileSet(d)
  BY DEF Writes, RingSet, FileSet
<1>6. \A d \in Controllers \ {c} : Held(d)' = Held(d)
  BY <1>5 DEF Held
<1>7. RingSet(c)' \subseteq RingSet(c) \cup N /\ FileSet(c)' \subseteq FileSet(c) \cup N
  BY DEF Writes
<1>8. Held(c)' \subseteq Held(c) \cup EventsIn(N)
  BY <1>7 DEF Held, EventsIn
<1>9. OneEach(RingSet(c)') /\ OneEach(FileSet(c)')
  <2>1. OneEach(RingSet(c)) /\ OneEach(FileSet(c))
    BY DEF Once
  <2>2. \A y \in N : y.ev \notin Held(c)
    BY DEF EventsIn
  <2>3. (\A x \in RingSet(c), y \in N : x.ev # y.ev) /\ (\A x \in FileSet(c), y \in N : x.ev # y.ev)
    BY <2>2 DEF Held
  <2>4. OneEach(RingSet(c)')
    BY <2>1, <2>3, <1>7, JoinOneEach
  <2>5. OneEach(FileSet(c)')
    BY <2>1, <2>3, <1>7, JoinOneEach
  <2>6. QED  BY <2>4, <2>5
<1>10. \A r \in S : r.ev \in EventsIn(N)
  BY DEF EventsIn
<1>11. OneEach(Items(c)')
  <2>1. OneEach(Items(c))
    BY <1>1 DEF Once
  <2>2. \A x \in Items(c), y \in S : x.ev # y.ev
    BY <1>10 DEF EventsIn
  <2>3. QED  BY <2>1, <2>2, <1>4, JoinOneEach
<1>12. ASSUME NEW f \in Forwarders
       PROVE  /\ OneEach(Items(f)') /\ IsInjective(flush'[f].batch)
              /\ Sending(f)' => \A r \in Items(f)' : r.seq > flush'[f].last => r.ev \notin Batch(f)'
  <2>1. /\ OneEach(Items(f)) /\ IsInjective(flush[f].batch)
        /\ Sending(f) => \A r \in Items(f) : r.seq > flush[f].last => r.ev \notin Batch(f)
    BY DEF Once
  <2>2. CASE f # c
    BY <2>1, <2>2, <1>2, <1>3
  <2>3. CASE f = c
    <3>1. \A r \in S : r.ev \notin Batch(c)
      BY <1>10
    <3>2. QED  BY <2>1, <2>3, <3>1, <1>2, <1>4, <1>11
  <2>4. QED  BY <2>2, <2>3
<1>13. \A g \in Controllers : buf'[g] # <<>> => leader' = g
  <2>1. \A g \in Controllers : buf[g] # <<>> => leader = g
    BY DEF Once
  <2>2. buf'[c] # <<>> => leader = c
    BY <2>1 DEF Joins
  <2>3. QED  BY <2>1, <2>2, <1>3, ControllersForward
<1>14. \A a, b \in Agents : a # b => Waiting(a)' \cap Waiting(b)' = {}
  <2>1. \A a, b \in Agents : a # b => Waiting(a) \cap Waiting(b) = {}
    BY DEF Once
  <2>2. \A a \in Agents : Waiting(a)' \subseteq Waiting(a)
    OBVIOUS
  <2>3. QED  BY <2>1, <2>2
<1>15. ASSUME NEW a \in Agents, NEW g \in Controllers
       PROVE  /\ Waiting(a)' \cap Held(g)' = {} /\ Waiting(a)' \cap Batch(g)' = {}
              /\ \A r \in Items(g)' : r.ev \notin Waiting(a)'
  <2>1. /\ Waiting(a) \cap Held(g) = {} /\ Waiting(a) \cap Batch(g) = {}
        /\ \A r \in Items(g) : r.ev \notin Waiting(a)
    BY DEF Once
  <2>2. Waiting(a)' \subseteq Waiting(a) \ EventsIn(N)
    OBVIOUS
  <2>3. Waiting(a)' \cap Held(g)' = {}
    BY <2>1, <2>2, <1>6, <1>8
  <2>4. Batch(g)' = Batch(g)
    BY <1>2, ControllersForward
  <2>5. Items(g)' \subseteq Items(g) \/ (g = c /\ Items(g)' \subseteq Items(g) \cup S)
    BY <1>3, <1>4, ControllersForward
  <2>6. \A r \in Items(g)' : r.ev \notin Waiting(a)'
    BY <2>1, <2>2, <2>5, <1>10
  <2>7. QED  BY <2>1, <2>2, <2>3, <2>4, <2>6
<1>16. ASSUME NEW g \in Controllers, NEW d \in Controllers \ {g}
       PROVE  /\ \A r \in Items(g)' : Open(g, d, r)' => r.ev \notin Held(d)'
              /\ d \in flush'[g].todo => Batch(g)' \cap Held(d)' = {}
  <2>1. /\ \A r \in Items(g) : Open(g, d, r) => r.ev \notin Held(d)
        /\ d \in flush[g].todo => Batch(g) \cap Held(d) = {}
    BY DEF Once
  <2>2. Batch(g)' = Batch(g) /\ (Sending(g)' <=> Sending(g)) /\ flush'[g] = flush[g]
    BY <1>2, ControllersForward
  <2>3. \A r : Open(g, d, r)' <=> Open(g, d, r)
    BY <2>2 DEF Open
  <2>4. Held(d)' \subseteq Held(d) \cup EventsIn(N) /\ (d # c => Held(d)' = Held(d))
    BY <1>6, <1>8
  <2>5. EventsIn(N) \cap Batch(g) = {} /\ EventsIn(N) \cap EventsIn(Items(g)) = {}
        /\ EventsIn(N) \cap Held(d) = {}
    OBVIOUS
  <2>6. ASSUME NEW r \in Items(g)', Open(g, d, r)'  PROVE r.ev \notin Held(d)'
    <3>1. CASE r \in Items(g)
      <4>1. r.ev \in EventsIn(Items(g))
        BY <3>1 DEF EventsIn
      <4>2. QED  BY <4>1, <3>1, <2>1, <2>3, <2>4, <2>5, <2>6
    <3>2. CASE g = c /\ r \in S
      <4>1. r.ev \in EventsIn(N) /\ d # c
        BY <3>2, <1>10
      <4>2. QED  BY <4>1, <2>4, <2>5
    <3>3. QED  BY <3>1, <3>2, <1>3, <1>4, <2>6, ControllersForward
  <2>7. QED  BY <2>1, <2>2, <2>4, <2>5, <2>6
<1>17. \A d \in Controllers : OneEach(RingSet(d)') /\ OneEach(FileSet(d)')
  BY <1>5, <1>9 DEF Once
<1>18. QED  BY <1>12, <1>13, <1>14, <1>15, <1>16, <1>17 DEF Once

--------------------------------------------------------------------------------
(* New events. *)

(* New entries repeat an event only if their sequence does. *)
LEMMA NewOneEach ==
    ASSUME Base, NEW c \in Controllers, NEW evs \in Seq(Nat), IsInjective(evs)
    PROVE  OneEach(NewEntries(c, evs)) /\ OneEach(Added(c, evs))
<1>1. OneEach(NewEntries(c, evs))
  BY DEF OneEach, NewEntries, IsInjective
<1>2. OneEach(Added(c, evs))
  BY DEF OneEach, Added, IsInjective
<1>3. QED  BY <1>1, <1>2

(* Nothing repeats no event. *)
LEMMA EmptyOneEach == OneEach({}) /\ EventsIn({}) = {}
  BY DEF OneEach, EventsIn

(* A Forwarder with an empty queue has no Flush under way. *)
LEMMA NoFlushNoItems ==
    ASSUME Base, Carry, NEW g \in Forwarders, buf[g] = <<>>
    PROVE  Items(g) = {} /\ ~Sending(g) /\ flush[g] = Idle /\ Batch(g) = {} /\ flush[g].todo = {}
<1>1. Items(g) = {}
  BY DEF Items
<1>2. ~Sending(g) /\ flush[g] = Idle
  BY DEF Carry, Flushing
<1>3. QED  BY <1>1, <1>2 DEF Idle, Batch

(* What an agent has left to send depends on its queue and its Flush only. *)
LEMMA WaitingSame ==
    ASSUME NEW a, flush'[a] = flush[a], Items(a)' = Items(a)
    PROVE  Waiting(a)' = Waiting(a)
  BY DEF Waiting, Sending, Batch

(* Without a Flush, an agent has its queue left to send. *)
LEMMA WaitingIdle ==
    ASSUME NEW a, flush[a] = Idle
    PROVE  Waiting(a) = EventsIn(Items(a))
<1>1. ~Sending(a) /\ flush[a].todo = {}
  BY DEF Sending, Idle
<1>2. QED  BY <1>1 DEF Waiting, EventsIn

(* An event of a node is a new one. *)
LEMMA OnceRecordOnNode ==
    ASSUME Base, Base', Carry, Plain, NEW a \in Agents, RecordOnNode(a)
    PROVE  Plain' /\ (Once => Once')
<1> DEFINE e == recorded + 1
           S == Added(a, <<e>>)
<1>1. TypeOK /\ OtherType /\ Numbers /\ a \in Forwarders /\ a \notin Controllers
  BY TypeByParts, AgentsForward, ControllersNotAgents DEF Base
<1>2. recorded \in Nat /\ recorded' = e /\ e \in Nat
  BY <1>1 DEF OtherType, RecordOnNode
<1>3. Joins(a, S) /\ EventsIn(S) = {e}
  BY <1>1, <1>2, SingleRange, Queueing DEF RecordOnNode, EventsIn
<1>4. OneEach(S)
  BY DEF OneEach, Added
<1>5. \A x \in S : x.ev = e
  BY <1>3 DEF EventsIn
<1> HIDE DEF S
<1>6. \A g \in Forwarders \ {a} : Items(g)' = Items(g) /\ buf'[g] = buf[g]
  BY <1>3 DEF Joins, Items
<1>7. Items(a)' \subseteq Items(a) \cup S
  BY <1>3 DEF Joins
<1>8. /\ flush' = flush /\ leader' = leader /\ mode' = mode /\ ring' = ring /\ file' = file
      /\ misread' = misread
  BY DEF RecordOnNode, logs
<1>9. \A c : RingSet(c)' = RingSet(c) /\ FileSet(c)' = FileSet(c) /\ Held(c)' = Held(c)
  BY <1>8 DEF RingSet, FileSet, Held
<1>10. \A g : Batch(g)' = Batch(g) /\ (Sending(g)' <=> Sending(g))
  BY <1>8 DEF Batch, Sending
<1>11. \A f \in Forwarders : EventsIn(Items(f)') \subseteq EventsIn(Items(f)) \cup {e}
  BY <1>5, <1>6, <1>7 DEF EventsIn
<1>12. Plain'
  <2>1. \A x \in {e} : x <= recorded'
    BY <1>2
  <2>2. recorded <= recorded'
    BY <1>2
  <2>3. Fresh'
    BY <2>1, <2>2, <1>9, <1>10, <1>11, FreshKept DEF Plain
  <2>4. LoadedIsFile' /\ Targets'
    BY <1>8 DEF Plain, LoadedIsFile, Targets
  <2>5. QED  BY <2>3, <2>4 DEF Plain
<1>13. /\ \A f \in Forwarders : e \notin EventsIn(Items(f)) /\ e \notin Batch(f)
       /\ \A c \in Controllers : e \notin Held(c)
  <2>1. Fresh
    BY DEF Plain
  <2>2. ~(e <= recorded)
    BY <1>2
  <2>3. QED  BY <2>1, <2>2 DEF Fresh, EventsIn
<1>14. \A b \in Agents : e \notin Waiting(b)
  BY <1>13, AgentsForward DEF Waiting, EventsIn
<1>15. \A b \in Agents \ {a} : Waiting(b)' = Waiting(b)
  BY <1>6, <1>8, WaitingSame, AgentsForward
<1>16. Waiting(a)' \subseteq Waiting(a) \cup {e}
  BY <1>5, <1>7, <1>8, <1>10 DEF Waiting
<1>17. ASSUME Once  PROVE Once'
  <2>1. OneEach(Items(a)')
    <3>1. OneEach(Items(a)) /\ \A x \in Items(a), y \in S : x.ev # y.ev
      BY <1>1, <1>5, <1>13, <1>17 DEF Once, EventsIn
    <3>2. QED  BY <3>1, <1>4, <1>7, JoinOneEach
  <2>2. ASSUME NEW f \in Forwarders
        PROVE  /\ OneEach(Items(f)') /\ IsInjective(flush'[f].batch)
               /\ Sending(f)' => \A r \in Items(f)' : r.seq > flush'[f].last => r.ev \notin Batch(f)'
    <3>1. /\ OneEach(Items(f)) /\ IsInjective(flush[f].batch)
          /\ Sending(f) => \A r \in Items(f) : r.seq > flush[f].last => r.ev \notin Batch(f)
      BY <1>17 DEF Once
    <3>2. CASE f # a
      BY <3>1, <3>2, <1>6, <1>8, <1>10
    <3>3. CASE f = a
      <4>1. \A r \in S : r.ev \notin Batch(f)
        BY <1>5, <1>13
      <4>2. QED  BY <3>1, <3>3, <4>1, <2>1, <1>7, <1>8, <1>10
    <3>4. QED  BY <3>2, <3>3
  <2>3. \A c \in Controllers : Items(c)' = Items(c) /\ buf'[c] = buf[c]
    BY <1>1, <1>6, ControllersForward
  <2>4. ASSUME NEW b \in Agents, NEW d \in Agents, b # d
        PROVE  Waiting(b)' \cap Waiting(d)' = {}
    BY <2>4, <1>14, <1>15, <1>16, <1>17 DEF Once
  <2>5. ASSUME NEW b \in Agents, NEW c \in Controllers
        PROVE  /\ Waiting(b)' \cap Held(c)' = {} /\ Waiting(b)' \cap Batch(c)' = {}
               /\ \A r \in Items(c)' : r.ev \notin Waiting(b)'
    <3>1. Waiting(b)' \subseteq Waiting(b) \cup {e}
      BY <1>15, <1>16
    <3>2. /\ Waiting(b) \cap Held(c) = {} /\ Waiting(b) \cap Batch(c) = {}
          /\ \A r \in Items(c) : r.ev \notin Waiting(b)
      BY <1>17 DEF Once
    <3>3. e \notin Held(c) /\ e \notin Batch(c) /\ e \notin EventsIn(Items(c))
      BY <1>13, ControllersForward
    <3>4. QED  BY <3>1, <3>2, <3>3, <2>3, <1>9, <1>10 DEF EventsIn
  <2>6. \A c, d, r : Open(c, d, r)' <=> Open(c, d, r)
    BY <1>8, <1>10 DEF Open
  <2>7. ASSUME NEW c \in Controllers, NEW d \in Controllers \ {c}
        PROVE  /\ \A r \in Items(c)' : Open(c, d, r)' => r.ev \notin Held(d)'
               /\ d \in flush'[c].todo => Batch(c)' \cap Held(d)' = {}
    BY <2>3, <2>6, <1>8, <1>9, <1>10, <1>17 DEF Once
  <2>8. \A c \in Controllers : /\ OneEach(RingSet(c)') /\ OneEach(FileSet(c)')
                               /\ buf'[c] # <<>> => leader' = c
    BY <2>3, <1>8, <1>9, <1>17 DEF Once
  <2>9. QED  BY <2>2, <2>4, <2>5, <2>7, <2>8 DEF Once
<1>18. QED  BY <1>12, <1>17

(* A log that grows is not that of a controller about to backfill. *)
LEMMA LoadedKept ==
    ASSUME LoadedIsFile, NEW c \in Controllers, NEW N, Writes(c, N), mode'[c] # "loaded",
           \A d \in Controllers \ {c} : mode'[d] = mode[d]
    PROVE  LoadedIsFile'
  BY DEF LoadedIsFile, Writes

(* The events of the logs after a Record. *)
LEMMA WritesHeld ==
    ASSUME NEW c \in Controllers, NEW N, Writes(c, N)
    PROVE  \A d \in Controllers : Held(d)' \subseteq Held(d) \cup (IF d = c THEN EventsIn(N) ELSE {})
<1>1. \A d \in Controllers \ {c} : RingSet(d)' = RingSet(d) /\ FileSet(d)' = FileSet(d)
  BY DEF Writes, RingSet, FileSet
<1>2. RingSet(c)' \subseteq RingSet(c) \cup N /\ FileSet(c)' \subseteq FileSet(c) \cup N
  BY DEF Writes
<1>3. QED  BY <1>1, <1>2 DEF Held, EventsIn

(* The events of the queues after an Enqueue. *)
LEMMA JoinsEvents ==
    ASSUME NEW c \in Forwarders, NEW S, Joins(c, S)
    PROVE  \A f \in Forwarders :
              EventsIn(Items(f)') \subseteq EventsIn(Items(f)) \cup (IF f = c THEN EventsIn(S) ELSE {})
<1>1. \A g \in Forwarders \ {c} : Items(g)' = Items(g)
  BY DEF Joins, Items
<1>2. Items(c)' \subseteq Items(c) \cup S
  BY DEF Joins
<1>3. QED  BY <1>1, <1>2 DEF EventsIn

(* An event of a controller is a new one. *)
LEMMA OnceRecordOnController ==
    ASSUME Base, Base', Carry, Plain, NEW c \in Controllers, RecordOnController(c)
    PROVE  Plain' /\ (Once => Once')
<1> DEFINE e == recorded + 1
           evs == <<e>>
           N == NewEntries(c, evs)
<1>1. TypeOK /\ OtherType /\ Numbers /\ c \in Forwarders
  BY TypeByParts, ControllersForward DEF Base
<1>2. recorded \in Nat /\ recorded' = e /\ e \in Nat
  BY <1>1 DEF OtherType, RecordOnController
<1>3. evs \in Seq(Nat) /\ Elements(evs) = {e} /\ IsInjective(evs)
  <2>1. evs \in Seq(Nat) /\ Elements(evs) = {e}
    BY <1>2, SingleRange
  <2>2. DOMAIN evs = {1}
    OBVIOUS
  <2>3. IsInjective(evs)
    BY <2>2 DEF IsInjective
  <2>4. QED  BY <2>1, <2>3
<1>4. Tee(c, evs)
  BY DEF RecordOnController
<1> HIDE DEF evs
<1>5. /\ Writes(c, N) /\ {x.ev : x \in N} = Elements(evs)
      /\ \E S : /\ Joins(c, S)
                /\ S = IF leader = c THEN Added(c, evs) ELSE {}
                /\ {r.ev : r \in S} = IF leader = c THEN Elements(evs) ELSE {}
  BY <1>1, <1>3, <1>4, Teeing
<1>6. PICK S : /\ Joins(c, S)
               /\ S = IF leader = c THEN Added(c, evs) ELSE {}
               /\ {r.ev : r \in S} = IF leader = c THEN Elements(evs) ELSE {}
  BY <1>5
<1>7. OneEach(N) /\ OneEach(S)
  BY <1>3, <1>6, NewOneEach, EmptyOneEach
<1>8. EventsIn(N) = {e} /\ EventsIn(S) \subseteq {e} /\ (S # {} => leader = c)
  BY <1>3, <1>5, <1>6 DEF EventsIn
<1> HIDE DEF N
<1>9. flush' = flush /\ leader' = leader /\ mode' = mode /\ mode[c] # "loaded"
  BY DEF RecordOnController
<1>10. \A g : Batch(g)' = Batch(g)
  BY <1>9 DEF Batch
<1>11. /\ \A f \in Forwarders : e \notin EventsIn(Items(f)) /\ e \notin Batch(f)
       /\ \A d \in Controllers : e \notin Held(d)
  <2>1. Fresh /\ ~(e <= recorded)
    BY <1>2 DEF Plain
  <2>2. QED  BY <2>1 DEF Fresh, EventsIn
<1>12. Plain'
  <2>1. (\A x \in {e} : x <= recorded') /\ recorded <= recorded'
    BY <1>2
  <2>2. \A f \in Forwarders : EventsIn(Items(f)') \subseteq EventsIn(Items(f)) \cup {e}
    BY <1>1, <1>6, <1>8, JoinsEvents
  <2>3. \A d \in Controllers : Held(d)' \subseteq Held(d) \cup {e}
    BY <1>5, <1>8, WritesHeld
  <2>4. Fresh'
    BY <2>1, <2>2, <2>3, <1>10, FreshKept DEF Plain
  <2>5. LoadedIsFile'
    BY <1>5, <1>9, LoadedKept DEF Plain
  <2>6. Targets'
    BY <1>9 DEF Plain, Targets
  <2>7. QED  BY <2>4, <2>5, <2>6 DEF Plain
<1>13. ASSUME Once  PROVE Once'
  <2>1. \A a \in Agents : Waiting(a)' = Waiting(a) /\ e \notin Waiting(a)
    <3>1. ASSUME NEW a \in Agents  PROVE Waiting(a)' = Waiting(a) /\ e \notin Waiting(a)
      <4>1. a \in Forwarders \ {c}
        BY AgentsForward, ControllersNotAgents
      <4>2. Items(a)' = Items(a)
        BY <4>1, <1>6 DEF Joins, Items
      <4>3. Waiting(a)' = Waiting(a)
        BY <4>2, <1>9, WaitingSame
      <4>4. e \notin Waiting(a)
        BY <4>1, <1>11 DEF Waiting, EventsIn
      <4>5. QED  BY <4>3, <4>4
    <3>2. QED  BY <3>1
  <2>2. \A g \in Controllers : /\ EventsIn(N) \cap Held(g) = {} /\ EventsIn(N) \cap Batch(g) = {}
                               /\ EventsIn(N) \cap EventsIn(Items(g)) = {}
    BY <1>8, <1>11, ControllersForward
  <2>3. \A a \in Agents : /\ flush'[a].batch = flush[a].batch /\ flush'[a].last = flush[a].last
                          /\ Waiting(a)' \subseteq Waiting(a) \ EventsIn(N)
    BY <2>1, <1>8, <1>9
  <2>4. QED  BY <2>2, <2>3, <1>5, <1>6, <1>7, <1>8, <1>9, <1>13, OnceNew
<1>14. QED  BY <1>12, <1>13

--------------------------------------------------------------------------------
(* Requests. *)

(* An answer takes one target off the Flush. *)
LEMMA AnsweredFlush ==
    ASSUME OtherType, NEW f \in Forwarders, NEW c, Answered(f, c)
    PROVE  /\ \A g \in Forwarders \ {f} : flush'[g] = flush[g]
           /\ flush'[f].batch = flush[f].batch /\ flush'[f].last = flush[f].last
           /\ flush'[f].todo = flush[f].todo \ {c}
<1>1. flush \in [Forwarders -> Flushes] /\ flush[f] \in Flushes
  BY DEF OtherType
<1>2. flush' = [flush EXCEPT ![f] = [flush[f] EXCEPT !.todo = flush[f].todo \ {c}]]
  BY <1>1 DEF Answered, Flushes
<1>3. flush'[f] = [flush[f] EXCEPT !.todo = flush[f].todo \ {c}]
  BY <1>1, <1>2
<1>4. \A g \in Forwarders \ {f} : flush'[g] = flush[g]
  BY <1>1, <1>2
<1>5. QED  BY <1>1, <1>3, <1>4 DEF Flushes

(* A Flush that gives up leaves no batch. *)
LEMMA GivenUpFlush ==
    ASSUME OtherType, NEW f \in Forwarders, GivesUp(f)
    PROVE  /\ \A g \in Forwarders \ {f} : flush'[g] = flush[g]
           /\ flush'[f] = Idle /\ Batch(f)' = {} /\ ~Sending(f)' /\ flush'[f].todo = {}
<1>1. flush'[f] = Idle /\ \A g \in Forwarders \ {f} : flush'[g] = flush[g]
  BY DEF OtherType, GivesUp
<1>2. QED  BY <1>1 DEF Batch, Sending, Idle

(* A handled request brings the watched events of the batch to the log of c, *)
(* and to its queue if it leads; a batch is never sent to its own sender.    *)
LEMMA Delivering ==
    ASSUME Base, Carry, NEW f \in Forwarders, NEW c \in Controllers, Deliver(f, c)
    PROVE  /\ Sending(f) /\ c \in flush[f].todo /\ f # c /\ flush[f].batch \in Seq(Nat)
           /\ mode' = mode /\ mode[c] = "up" /\ leader' = leader /\ recorded' = recorded
           /\ \E N, S : /\ Writes(c, N) /\ EventsIn(N) = Batch(f) \ Unwatched
                        /\ Joins(c, S) /\ EventsIn(S) \subseteq EventsIn(N)
                        /\ S # {} => leader = c
                        /\ IsInjective(flush[f].batch) => OneEach(N) /\ OneEach(S)
<1> DEFINE evs == Accepted(flush[f].batch)
           N == NewEntries(c, evs)
<1>1. TypeOK /\ OtherType /\ Numbers /\ Flushing
  BY TypeByParts DEF Base, Carry
<1>2. flush[f].batch \in Seq(Nat) /\ flush[f] \in Flushes
  BY <1>1 DEF OtherType, Flushes
<1>3. /\ evs \in Seq(Nat) /\ Elements(evs) = Batch(f) \ Unwatched
      /\ IsInjective(flush[f].batch) => IsInjective(evs)
  BY <1>2, AcceptedEvents DEF Elements, Batch
<1>4. /\ Tee(c, evs) /\ mode' = mode /\ mode[c] = "up" /\ recorded' = recorded
      /\ c \in flush[f].todo /\ flush[f] # Idle /\ leader' = leader
  BY DEF Deliver, Ingest
<1>5. Sending(f) /\ f # c
  BY <1>1, <1>4 DEF Flushing
<1> HIDE DEF evs
<1>6. /\ Writes(c, N) /\ {x.ev : x \in N} = Elements(evs)
      /\ \E S : /\ Joins(c, S)
                /\ S = IF leader = c THEN Added(c, evs) ELSE {}
                /\ {r.ev : r \in S} = IF leader = c THEN Elements(evs) ELSE {}
  BY <1>1, <1>3, <1>4, Teeing
<1>7. PICK S : /\ Joins(c, S)
               /\ S = IF leader = c THEN Added(c, evs) ELSE {}
               /\ {r.ev : r \in S} = IF leader = c THEN Elements(evs) ELSE {}
  BY <1>6
<1>8. IsInjective(flush[f].batch) => OneEach(N) /\ OneEach(S)
  BY <1>3, <1>7, NewOneEach, EmptyOneEach
<1>9. EventsIn(N) = Batch(f) \ Unwatched /\ EventsIn(S) \subseteq EventsIn(N) /\ (S # {} => leader = c)
  BY <1>3, <1>6, <1>7 DEF EventsIn
<1> HIDE DEF N
<1>10. QED  BY <1>2, <1>4, <1>5, <1>6, <1>7, <1>8, <1>9

(* A handled request brings no event that is not recorded. *)
LEMMA PlainDeliver ==
    ASSUME Base, Base', Carry, Plain, NEW f \in Forwarders, NEW c \in Controllers, Deliver(f, c)
    PROVE  Plain'
<1>1. OtherType /\ LoadedIsFile /\ Fresh /\ Targets /\ c \in Forwarders
  BY ControllersForward DEF Base, Plain
<1>2. mode' = mode /\ mode[c] = "up" /\ recorded' = recorded
  BY Delivering
<1>3. PICK N, S : /\ Writes(c, N) /\ EventsIn(N) = Batch(f) \ Unwatched
                  /\ Joins(c, S) /\ EventsIn(S) \subseteq EventsIn(N)
  BY Delivering
<1>4. recorded \in Nat /\ recorded' <= recorded' /\ recorded <= recorded'
  BY <1>1, <1>2 DEF OtherType
<1>5. \A e \in EventsIn(N) : e <= recorded'
  BY <1>1, <1>2, <1>3 DEF Fresh
<1>6. \A d \in Controllers : Held(d)' \subseteq Held(d) \cup EventsIn(N)
  BY <1>3, WritesHeld
<1>7. \A g \in Forwarders : EventsIn(Items(g)') \subseteq EventsIn(Items(g)) \cup EventsIn(N)
  BY <1>1, <1>3, JoinsEvents
<1>8. \A g \in Forwarders : Batch(g)' \subseteq Batch(g) /\ flush'[g].todo \subseteq flush[g].todo
  <2>1. CASE Answered(f, c)
    BY <2>1, <1>1, AnsweredFlush, BatchKept
  <2>2. CASE GivesUp(f)
    BY <2>2, <1>1, GivenUpFlush, BatchKept
  <2>3. QED  BY <2>1, <2>2 DEF Deliver
<1>9. Fresh'
  BY <1>1, <1>4, <1>5, <1>6, <1>7, <1>8, FreshKept
<1>10. LoadedIsFile'
  BY <1>1, <1>2, <1>3, LoadedKept
<1>11. Targets'
  BY <1>1, <1>8, AgentsForward DEF Targets
<1>12. QED  BY <1>9, <1>10, <1>11 DEF Plain

(* An answered request of an agent: the events it was waiting to send leave  *)
(* its hands when they reach the one controller it asks.                     *)
LEMMA OnceFromAgent ==
    ASSUME Base, Carry, Plain, Once, NEW f \in Agents, NEW c \in Controllers,
           Deliver(f, c), Answered(f, c)
    PROVE  Once'
<1>1. OtherType /\ Targets /\ c \in Forwarders /\ f \in Forwarders
  BY ControllersForward, AgentsForward DEF Base, Plain
<1>2. Sending(f) /\ c \in flush[f].todo /\ f # c /\ leader' = leader
  BY <1>1, Delivering
<1>3. IsInjective(flush[f].batch)
  BY <1>1 DEF Once
<1>4. PICK N, S : /\ Writes(c, N) /\ EventsIn(N) = Batch(f) \ Unwatched
                  /\ Joins(c, S) /\ EventsIn(S) \subseteq EventsIn(N)
                  /\ S # {} => leader = c
                  /\ OneEach(N) /\ OneEach(S)
  BY <1>1, <1>3, Delivering
<1>5. /\ \A g \in Forwarders \ {f} : flush'[g] = flush[g]
      /\ flush'[f].batch = flush[f].batch /\ flush'[f].last = flush[f].last
      /\ flush'[f].todo = flush[f].todo \ {c}
  BY <1>1, AnsweredFlush
<1>6. flush[f].todo = {c} /\ flush'[f].todo = {}
  <2>1. \A x \in flush[f].todo : x = c
    BY <1>1, <1>2 DEF Targets
  <2>2. QED  BY <2>1, <1>2, <1>5
<1>7. \A a \in Agents : Items(a)' = Items(a)
  BY <1>4, AgentsForward, ControllersNotAgents DEF Joins, Items
<1>8. EventsIn(N) \subseteq Waiting(f)
  BY <1>4, <1>6 DEF Waiting
<1>9. \A a \in Agents \ {f} : Waiting(a)' \subseteq Waiting(a) \ EventsIn(N)
  <2>1. \A a \in Agents \ {f} : Waiting(a)' = Waiting(a)
    BY <1>5, <1>7, WaitingSame, AgentsForward
  <2>2. \A a \in Agents \ {f} : Waiting(a) \cap Waiting(f) = {}
    BY DEF Once
  <2>3. QED  BY <2>1, <2>2, <1>8
<1>10. Waiting(f)' \subseteq Waiting(f) \ EventsIn(N)
  <2>1. Batch(f)' = Batch(f) /\ (Sending(f)' <=> Sending(f))
    BY <1>5, BatchKept
  <2>2. Waiting(f)' = {r.ev : r \in {r \in Items(f) : r.seq > flush[f].last}}
    BY <2>1, <1>2, <1>5, <1>6, <1>7 DEF Waiting
  <2>3. \A r \in Items(f) : r.ev \in Waiting(f)
    BY <1>6 DEF Waiting
  <2>4. \A r \in Items(f) : r.seq > flush[f].last => r.ev \notin Batch(f)
    BY <1>1, <1>2 DEF Once
  <2>5. QED  BY <2>2, <2>3, <2>4, <1>4
<1>11. \A a \in Agents : /\ flush'[a].batch = flush[a].batch /\ flush'[a].last = flush[a].last
                         /\ Waiting(a)' \subseteq Waiting(a) \ EventsIn(N)
  BY <1>5, <1>9, <1>10, AgentsForward
<1>12. \A g \in Controllers : flush'[g] = flush[g]
  BY <1>5, ControllersForward, ControllersNotAgents
<1>13. \A g \in Controllers : /\ EventsIn(N) \cap Held(g) = {} /\ EventsIn(N) \cap Batch(g) = {}
                              /\ EventsIn(N) \cap EventsIn(Items(g)) = {}
  BY <1>8 DEF Once, EventsIn
<1>14. QED  BY <1>2, <1>4, <1>11, <1>12, <1>13, OnceNew

(* An answered request of a controller, which then leads: the receiver does  *)
(* not, so it queues nothing, and it had nothing of the batch.               *)
LEMMA OnceFromController ==
    ASSUME Base, Carry, Once, NEW f \in Controllers, NEW c \in Controllers,
           Deliver(f, c), Answered(f, c)
    PROVE  Once'
<1>1. OtherType /\ c \in Forwarders /\ f \in Forwarders
  BY ControllersForward DEF Base
<1>2. Sending(f) /\ c \in flush[f].todo /\ f # c /\ leader' = leader
  BY <1>1, Delivering
<1>3. leader = f
  BY <1>1, <1>2 DEF Carry, Flushing, Once
<1>4. IsInjective(flush[f].batch)
  BY <1>1 DEF Once
<1>5. PICK N, S : /\ Writes(c, N) /\ EventsIn(N) = Batch(f) \ Unwatched
                  /\ Joins(c, S) /\ (S # {} => leader = c) /\ OneEach(N)
  BY <1>1, <1>4, Delivering
<1>6. S = {}
  BY <1>2, <1>3, <1>5
<1>7. /\ \A g \in Forwarders \ {f} : flush'[g] = flush[g]
      /\ flush'[f].batch = flush[f].batch /\ flush'[f].last = flush[f].last
      /\ flush'[f].todo = flush[f].todo \ {c}
  BY <1>1, AnsweredFlush
<1>8. \A g \in Controllers \ {f} : buf[g] = <<>>
  BY <1>3 DEF Once
<1>9. \A g \in Controllers \ {f} : Items(g) = {} /\ ~Sending(g) /\ Batch(g) = {} /\ flush[g].todo = {}
  BY <1>8, NoFlushNoItems, ControllersForward
<1>10. \A g \in Forwarders \ {c} : buf'[g] = buf[g] /\ Items(g)' = Items(g)
  BY <1>5 DEF Joins, Items
<1>11. buf'[c] = <<>> /\ Items(c)' = {} /\ Items(c) = {}
  <2>1. buf[c] = <<>> /\ Items(c) = {}
    BY <1>2, <1>8, <1>9
  <2>2. buf'[c] = <<>> /\ Items(c)' \subseteq Items(c)
    BY <2>1, <1>5, <1>6 DEF Joins
  <2>3. QED  BY <2>1, <2>2
<1>12. \A g \in Forwarders : /\ Items(g)' = Items(g)
                             /\ flush'[g].batch = flush[g].batch /\ flush'[g].last = flush[g].last
                             /\ Batch(g)' = Batch(g) /\ (Sending(g)' <=> Sending(g))
  <2>1. \A g \in Forwarders : Items(g)' = Items(g) /\ flush'[g].batch = flush[g].batch
                              /\ flush'[g].last = flush[g].last
    BY <1>7, <1>10, <1>11
  <2>2. QED  BY <2>1, BatchKept
<1>13. \A a \in Agents : Waiting(a)' = Waiting(a)
  BY <1>7, <1>12, WaitingSame, AgentsForward, ControllersNotAgents
<1>14. \A d \in Controllers : Held(d)' \subseteq Held(d) \cup (IF d = c THEN Batch(f) ELSE {})
  <2>1. \A d \in Controllers : Held(d)' \subseteq Held(d) \cup (IF d = c THEN EventsIn(N) ELSE {})
    BY <1>5, WritesHeld
  <2>2. QED  BY <2>1, <1>5
<1>15. Batch(f) \cap Held(c) = {}
  BY <1>2 DEF Once
<1>16. ASSUME NEW d \in Controllers  PROVE OneEach(RingSet(d)') /\ OneEach(FileSet(d)')
  <2>1. OneEach(RingSet(d)) /\ OneEach(FileSet(d))
    BY DEF Once
  <2>2. CASE d # c
    <3>1. ring'[d] = ring[d] /\ file'[d] = file[d]
      BY <2>2, <1>5 DEF Writes
    <3>2. RingSet(d)' = RingSet(d) /\ FileSet(d)' = FileSet(d)
      BY <3>1 DEF RingSet, FileSet
    <3>3. QED  BY <2>1, <3>2
  <2>3. CASE d = c
    <3>1. \A y \in N : y.ev \notin Held(c)
      BY <1>5, <1>15 DEF EventsIn
    <3>2. (\A x \in RingSet(c), y \in N : x.ev # y.ev) /\ (\A x \in FileSet(c), y \in N : x.ev # y.ev)
      BY <3>1 DEF Held
    <3>3. RingSet(c)' \subseteq RingSet(c) \cup N /\ FileSet(c)' \subseteq FileSet(c) \cup N
      BY <1>5 DEF Writes
    <3>4. OneEach(RingSet(c)')
      BY <2>1, <2>3, <3>2, <3>3, <1>5, JoinOneEach
    <3>5. OneEach(FileSet(c)')
      BY <2>1, <2>3, <3>2, <3>3, <1>5, JoinOneEach
    <3>6. QED  BY <2>3, <3>4, <3>5
  <2>4. QED  BY <2>2, <2>3
<1>17. \A g \in Forwarders :
          /\ OneEach(Items(g)') /\ IsInjective(flush'[g].batch)
          /\ Sending(g)' => \A r \in Items(g)' : r.seq > flush'[g].last => r.ev \notin Batch(g)'
  BY <1>12 DEF Once
<1>18. \A g \in Controllers : buf'[g] # <<>> => leader' = g
  BY <1>2, <1>3, <1>8, <1>10, <1>11, ControllersForward
<1>19. \A a, b \in Agents : a # b => Waiting(a)' \cap Waiting(b)' = {}
  BY <1>13 DEF Once
<1>20. ASSUME NEW a \in Agents, NEW d \in Controllers
       PROVE  /\ Waiting(a)' \cap Held(d)' = {} /\ Waiting(a)' \cap Batch(d)' = {}
              /\ \A r \in Items(d)' : r.ev \notin Waiting(a)'
  <2>1. /\ Waiting(a) \cap Held(d) = {} /\ Waiting(a) \cap Batch(d) = {} /\ Waiting(a) \cap Batch(f) = {}
        /\ \A r \in Items(d) : r.ev \notin Waiting(a)
    BY DEF Once
  <2>2. Waiting(a)' \cap Held(d)' = {}
    BY <2>1, <1>13, <1>14
  <2>3. QED  BY <2>1, <2>2, <1>12, <1>13, ControllersForward
<1>21. ASSUME NEW g \in Controllers, NEW d \in Controllers \ {g}
       PROVE  /\ \A r \in Items(g)' : Open(g, d, r)' => r.ev \notin Held(d)'
              /\ d \in flush'[g].todo => Batch(g)' \cap Held(d)' = {}
  <2>1. CASE g # f
    BY <2>1, <1>7, <1>9, <1>12, ControllersForward
  <2>2. CASE g = f
    <3>1. /\ \A r \in Items(f) : Open(f, d, r) => r.ev \notin Held(d)
          /\ d \in flush[f].todo => Batch(f) \cap Held(d) = {}
      BY <2>2 DEF Once
    <3>2. Items(f)' = Items(f) /\ Batch(f)' = Batch(f) /\ flush'[f].last = flush[f].last
          /\ Sending(f)' /\ flush'[f].todo = flush[f].todo \ {c}
      BY <1>1, <1>2, <1>7, <1>12
    <3>3. CASE d # c
      <4>1. Held(d)' \subseteq Held(d)
        BY <3>3, <1>14
      <4>2. \A r : Open(f, d, r)' => Open(f, d, r)
        BY <3>2, <3>3 DEF Open
      <4>3. QED  BY <2>2, <3>1, <3>2, <4>1, <4>2
    <3>4. CASE d = c
      <4>1. Held(c)' \subseteq Held(c) \cup Batch(f)
        BY <1>14
      <4>2. \A r \in Items(f) : Open(f, c, r)
        BY <1>2 DEF Open
      <4>3. \A r \in Items(f) : Open(f, c, r)' => r.ev \notin Batch(f)
        BY <1>1, <1>2, <3>2 DEF Open, Once
      <4>4. c \notin flush'[f].todo
        BY <3>2
      <4>5. QED  BY <2>2, <3>1, <3>2, <3>4, <4>1, <4>2, <4>3, <4>4
    <3>5. QED  BY <3>3, <3>4
  <2>3. QED  BY <2>1, <2>2
<1>22. QED  BY <1>16, <1>17, <1>18, <1>19, <1>20, <1>21 DEF Once

(* A handled request: when its answer is lost, the log may repeat the batch, *)
(* which repeats tells.                                                      *)
LEMMA OnceDeliver ==
    ASSUME Base, Base', Carry, Plain, NEW f \in Forwarders, NEW c \in Controllers, Deliver(f, c)
    PROVE  Plain' /\ (Once /\ ~repeats' => Once')
<1>1. Plain'
  BY PlainDeliver
<1>2. ASSUME Once, ~repeats'  PROVE Once'
  <2>1. Answered(f, c)
    BY <1>2 DEF Deliver
  <2>2. CASE f \in Agents
    BY <1>2, <2>1, <2>2, OnceFromAgent
  <2>3. CASE f \in Controllers
    BY <1>2, <2>1, <2>3, OnceFromController
  <2>4. QED  BY <2>2, <2>3 DEF Forwarders
<1>3. QED  BY <1>1, <1>2

(* Without a third controller, a controller has one peer. *)
LEMMA AtMostTwo ==
    ASSUME NEW f \in Controllers, NEW c \in Controllers, NEW d \in Controllers, f # c, d # f,
           ~(Cardinality(Controllers) > 2)
    PROVE  d = c
<1> SUFFICES ASSUME d # c PROVE FALSE
  OBVIOUS
<1>1. IsFiniteSet(Controllers) /\ Cardinality(Controllers) \in Nat
  BY EventLogAssumption, FS_CardinalityType
<1>2. IsFiniteSet({f}) /\ Cardinality({f}) = 1
  BY FS_Singleton
<1>3. IsFiniteSet({f} \cup {c}) /\ Cardinality({f} \cup {c}) = 2
  BY <1>2, FS_AddElement
<1>4. Cardinality(({f} \cup {c}) \cup {d}) = 3
  BY <1>3, FS_AddElement
<1>5. ({f} \cup {c}) \cup {d} \subseteq Controllers
  OBVIOUS
<1>6. Cardinality(({f} \cup {c}) \cup {d}) <= Cardinality(Controllers)
  BY <1>1, <1>5, FS_Subset
<1>7. QED  BY <1>1, <1>4, <1>6

--------------------------------------------------------------------------------
(* Failed requests and flushes. *)

(* A step that adds no event keeps Fresh. *)
LEMMA FreshShrinks ==
    ASSUME Base, Base', Fresh, recorded' = recorded,
           \A f \in Forwarders : /\ Items(f)' \subseteq Items(f)
                                 /\ Batch(f)' \subseteq Batch(f) \cup EventsIn(Items(f)),
           \A c \in Controllers : Held(c)' \subseteq Held(c)
    PROVE  Fresh'
<1>1. recorded \in Nat /\ recorded <= recorded'
  BY DEF Base, OtherType
<1>2. \A f \in Forwarders : EventsIn(Items(f)') \subseteq EventsIn(Items(f)) \cup {}
  BY DEF EventsIn
<1>3. \A c \in Controllers : Held(c)' \subseteq Held(c) \cup {}
  OBVIOUS
<1>4. \A e \in {} : e <= recorded'
  OBVIOUS
<1>5. QED  BY <1>1, <1>2, <1>3, <1>4, FreshKept

(* The sets of entries depend on the logs only. *)
LEMMA SameLogs ==
    ASSUME ring' = ring, file' = file
    PROVE  \A c : RingSet(c)' = RingSet(c) /\ FileSet(c)' = FileSet(c) /\ Held(c)' = Held(c)
<1>1. \A c : RingSet(c)' = RingSet(c) /\ FileSet(c)' = FileSet(c)
  BY DEF RingSet, FileSet
<1>2. QED  BY <1>1 DEF Held

(* An empty batch repeats no event. *)
LEMMA NoBatch == IsInjective(Idle.batch)
  BY DEF Idle, IsInjective

(* A step that changes no queue and no log: another leader is safe as long   *)
(* as no controller has events to copy.                                      *)
LEMMA OnceStill ==
    ASSUME Base, Base', Plain, recorded' = recorded,
           buf' = buf, flush' = flush, ring' = ring, file' = file, misread' = misread,
           \A c \in Controllers : mode'[c] = "loaded" => mode[c] = "loaded"
    PROVE  Plain' /\ (Once /\ (leader' = leader \/ ~Copying) => Once')
<1>1. \A c : RingSet(c)' = RingSet(c) /\ FileSet(c)' = FileSet(c) /\ Held(c)' = Held(c)
  BY SameLogs
<1>2. \A f : Items(f)' = Items(f) /\ Batch(f)' = Batch(f) /\ (Sending(f)' <=> Sending(f))
  BY DEF Items, Batch, Sending
<1>3. Plain'
  <2>1. Fresh'
    BY <1>1, <1>2, FreshShrinks DEF Plain
  <2>2. LoadedIsFile' /\ Targets'
    BY DEF Plain, LoadedIsFile, Targets
  <2>3. QED  BY <2>1, <2>2 DEF Plain
<1>4. ASSUME Once, leader' = leader \/ ~Copying  PROVE Once'
  <2>1. \A a \in Agents : Waiting(a)' \subseteq Waiting(a)
    BY <1>2, WaitingSame
  <2>2. \A c, d, r : Open(c, d, r)' <=> Open(c, d, r)
    BY <1>2 DEF Open
  <2>3. \A c \in Controllers : buf'[c] # <<>> => leader' = c
    BY <1>4 DEF Once, Copying
  <2>4. \A c \in Controllers : OneEach(RingSet(c)') /\ OneEach(FileSet(c)') /\ Held(c)' \subseteq Held(c)
    BY <1>1, <1>4 DEF Once
  <2>5. \A f \in Forwarders :
            /\ Items(f)' \subseteq Items(f) /\ IsInjective(flush'[f].batch)
            /\ Sending(f)' => \A r \in Items(f)' : r.seq > flush'[f].last => r.ev \notin Batch(f)'
    BY <1>2, <1>4 DEF Once
  <2>6. \A c \in Controllers : Batch(c)' \subseteq Batch(c) \cup EventsIn(Items(c))
    BY <1>2
  <2>7. \A c \in Controllers : \A d \in Controllers \ {c} :
            /\ \A r \in Items(c)' : Open(c, d, r)' => Open(c, d, r)
            /\ d \in flush'[c].todo => d \in flush[c].todo /\ Batch(c)' \subseteq Batch(c)
    BY <1>2, <2>2
  <2>8. QED  BY <1>4, <2>1, <2>3, <2>4, <2>5, <2>6, <2>7, OnceShrinks
<1>5. QED  BY <1>3, <1>4

(* A request that never arrives leaves the batch queued for every target:    *)
(* only with a second peer, which may have it, is it sent twice.             *)
LEMMA OnceDeliveryFails ==
    ASSUME Base, Base', Carry, Plain, NEW f \in Forwarders, NEW c \in Controllers, DeliveryFails(f, c)
    PROVE  Plain' /\ (Once /\ ~repeats' => Once')
<1>1. OtherType /\ Flushing
  BY DEF Base, Carry
<1>2. /\ buf' = buf /\ ring' = ring /\ file' = file /\ leader' = leader /\ mode' = mode
      /\ recorded' = recorded /\ GivesUp(f) /\ flush[f] # Idle /\ c \in flush[f].todo
      /\ misread' = misread
  BY DEF DeliveryFails, logs
<1>3. Sending(f) /\ f # c
  BY <1>1, <1>2 DEF Flushing
<1>4. /\ \A g \in Forwarders \ {f} : flush'[g] = flush[g]
      /\ flush'[f] = Idle /\ Batch(f)' = {} /\ ~Sending(f)' /\ flush'[f].todo = {}
  BY <1>1, <1>2, GivenUpFlush
<1>5. \A d : RingSet(d)' = RingSet(d) /\ FileSet(d)' = FileSet(d) /\ Held(d)' = Held(d)
  BY <1>2, SameLogs
<1>6. \A g : Items(g)' = Items(g)
  BY <1>2 DEF Items
<1>7. \A g \in Forwarders \ {f} : Batch(g)' = Batch(g) /\ (Sending(g)' <=> Sending(g))
  BY <1>4, BatchKept
<1>8. \A g \in Forwarders : Batch(g)' \subseteq Batch(g) /\ flush'[g].todo \subseteq flush[g].todo
  BY <1>4, <1>7
<1>9. Plain'
  <2>1. Fresh'
    BY <1>2, <1>5, <1>6, <1>8, FreshShrinks DEF Plain
  <2>2. LoadedIsFile'
    BY <1>2 DEF Plain, LoadedIsFile
  <2>3. Targets'
    BY <1>8, AgentsForward DEF Plain, Targets
  <2>4. QED  BY <2>1, <2>2, <2>3 DEF Plain
<1>10. ASSUME Once, ~repeats'  PROVE Once'
  <2>1. ~(Cardinality(Controllers) > 2)
    BY <1>10 DEF DeliveryFails
  <2>2. ASSUME NEW a \in Agents  PROVE Waiting(a)' \subseteq Waiting(a)
    <3>1. CASE a # f
      BY <3>1, <1>4, <1>6, WaitingSame, AgentsForward
    <3>2. CASE a = f
      <4>1. Waiting(f)' = {r.ev : r \in Items(f)}
        BY <1>4, <1>6 DEF Waiting
      <4>2. \A r \in Items(f) : r.ev \in Waiting(f)
        BY <1>2 DEF Waiting
      <4>3. QED  BY <3>2, <4>1, <4>2
    <3>3. QED  BY <3>1, <3>2
  <2>3. ASSUME NEW g \in Controllers, NEW d \in Controllers \ {g}
        PROVE  /\ \A r \in Items(g)' : Open(g, d, r)' => Open(g, d, r)
               /\ d \in flush'[g].todo => d \in flush[g].todo /\ Batch(g)' \subseteq Batch(g)
    <3>1. CASE g # f
      BY <3>1, <1>4, <1>7, ControllersForward DEF Open
    <3>2. CASE g = f
      <4>1. d = c
        BY <2>1, <3>2, <1>3, AtMostTwo
      <4>2. QED  BY <3>2, <4>1, <1>2, <1>4 DEF Open
    <3>3. QED  BY <3>1, <3>2
  <2>4. ASSUME NEW g \in Forwarders
        PROVE  /\ Items(g)' \subseteq Items(g) /\ IsInjective(flush'[g].batch)
               /\ Sending(g)' => \A r \in Items(g)' : r.seq > flush'[g].last => r.ev \notin Batch(g)'
    <3>1. CASE g # f
      BY <3>1, <1>4, <1>6, <1>7, <1>10 DEF Once
    <3>2. CASE g = f
      BY <3>2, <1>4, <1>6, NoBatch
    <3>3. QED  BY <3>1, <3>2
  <2>5. \A d \in Controllers : /\ OneEach(RingSet(d)') /\ OneEach(FileSet(d)') /\ Held(d)' \subseteq Held(d)
                               /\ buf'[d] # <<>> => leader' = d
                               /\ Batch(d)' \subseteq Batch(d) \cup EventsIn(Items(d))
    BY <1>2, <1>5, <1>8, <1>10, ControllersForward DEF Once
  <2>6. QED  BY <1>10, <2>2, <2>3, <2>4, <2>5, OnceShrinks
<1>11. QED  BY <1>9, <1>10

(* The start of a Flush: no peer has any event of the batch. *)
LEMMA OnceFlushStart ==
    ASSUME Base, Base', Carry, Plain, NEW f \in Forwarders, FlushStart(f)
    PROVE  Plain' /\ (Once => Once')
<1>1. QueueType /\ OtherType
  BY DEF Base
<1>2. /\ buf' = buf /\ ring' = ring /\ file' = file /\ leader' = leader /\ mode' = mode
      /\ recorded' = recorded /\ misread' = misread
  BY DEF FlushStart, logs
<1>3. /\ \A g \in Forwarders \ {f} : flush'[g] = flush[g]
      /\ flush[f] = Idle /\ Sending(f)'
      /\ Batch(f)' = {r.ev : r \in {r \in Items(f) : r.seq <= flush'[f].last}}
      /\ f \in Agents => \E c \in Controllers : flush'[f].todo = {c}
      /\ OneEach(Items(f)) => IsInjective(flush'[f].batch)
  BY Starting
<1>4. \A d : RingSet(d)' = RingSet(d) /\ FileSet(d)' = FileSet(d) /\ Held(d)' = Held(d)
  BY <1>2, SameLogs
<1>5. \A g : Items(g)' = Items(g)
  BY <1>2 DEF Items
<1>6. \A g \in Forwarders \ {f} : Batch(g)' = Batch(g) /\ (Sending(g)' <=> Sending(g))
  BY <1>3, BatchKept
<1>7. Batch(f)' \subseteq EventsIn(Items(f)) /\ ~Sending(f)
  BY <1>3 DEF EventsIn, Sending, Idle
<1>8. Plain'
  <2>1. Fresh'
    BY <1>2, <1>4, <1>5, <1>6, <1>7, FreshShrinks DEF Plain
  <2>2. LoadedIsFile'
    BY <1>2 DEF Plain, LoadedIsFile
  <2>3. Targets'
    BY <1>3, AgentsForward DEF Plain, Targets
  <2>4. QED  BY <2>1, <2>2, <2>3 DEF Plain
<1>9. ASSUME Once  PROVE Once'
  <2>1. ASSUME NEW a \in Agents  PROVE Waiting(a)' \subseteq Waiting(a)
    <3>1. CASE a # f
      BY <3>1, <1>3, <1>5, WaitingSame, AgentsForward
    <3>2. CASE a = f
      <4>1. Waiting(f)' \subseteq EventsIn(Items(f))
        BY <1>5, <1>7 DEF Waiting, EventsIn
      <4>2. Waiting(f) = EventsIn(Items(f))
        BY <1>3, WaitingIdle
      <4>3. QED  BY <3>2, <4>1, <4>2
    <3>3. QED  BY <3>1, <3>2
  <2>2. ASSUME NEW r \in Items(f), r.seq > flush'[f].last  PROVE r.ev \notin Batch(f)'
    <3>1. OneEach(Items(f))
      BY <1>9 DEF Once
    <3>2. flush'[f].last \in Nat /\ r.seq \in Nat
      <4>1. OtherType'
        BY DEF Base
      <4>2. QED  BY <4>1, <1>1, ItemsType DEF OtherType, Flushes, QueueItems
    <3>3. ASSUME NEW q \in Items(f), q.seq <= flush'[f].last, q.ev = r.ev  PROVE FALSE
      <4>1. q = r
        BY <3>1, <3>3 DEF OneEach
      <4>2. QED  BY <4>1, <3>2, <3>3, <2>2
    <3>4. QED  BY <3>3, <1>3
  <2>3. ASSUME NEW g \in Forwarders
        PROVE  /\ Items(g)' \subseteq Items(g) /\ IsInjective(flush'[g].batch)
               /\ Sending(g)' => \A r \in Items(g)' : r.seq > flush'[g].last => r.ev \notin Batch(g)'
    <3>1. CASE g # f
      BY <3>1, <1>3, <1>5, <1>6, <1>9 DEF Once
    <3>2. CASE g = f
      <4>1. OneEach(Items(f))
        BY <1>9 DEF Once
      <4>2. IsInjective(flush'[f].batch)
        BY <4>1, <1>3
      <4>3. QED  BY <3>2, <4>2, <2>2, <1>5
    <3>3. QED  BY <3>1, <3>2
  <2>4. ASSUME NEW g \in Controllers, NEW d \in Controllers \ {g}
        PROVE  /\ \A r \in Items(g)' : Open(g, d, r)' => Open(g, d, r)
               /\ d \in flush'[g].todo => \/ d \in flush[g].todo /\ Batch(g)' \subseteq Batch(g)
                                          \/ /\ Batch(g)' \subseteq EventsIn(Items(g))
                                             /\ \A r \in Items(g) : Open(g, d, r)
    <3>1. CASE g # f
      BY <3>1, <1>3, <1>6, ControllersForward DEF Open
    <3>2. CASE g = f
      BY <3>2, <1>7 DEF Open
    <3>3. QED  BY <3>1, <3>2
  <2>5. \A d \in Controllers : /\ OneEach(RingSet(d)') /\ OneEach(FileSet(d)') /\ Held(d)' \subseteq Held(d)
                               /\ buf'[d] # <<>> => leader' = d
                               /\ Batch(d)' \subseteq Batch(d) \cup EventsIn(Items(d))
    BY <1>2, <1>4, <1>6, <1>7, <1>9, ControllersForward DEF Once
  <2>6. QED  BY <1>9, <2>1, <2>3, <2>4, <2>5, OnceShrinks
<1>10. QED  BY <1>8, <1>9

--------------------------------------------------------------------------------
(* Ends and starts of processes. *)

(* The end of a Flush: what stays queued is what the targets do not have. *)
LEMMA OnceFlushDone ==
    ASSUME Base, Base', Carry, Plain, NEW f \in Forwarders, FlushDone(f)
    PROVE  Plain' /\ (Once => Once')
<1>1. Flushing
  BY DEF Carry
<1>2. /\ ring' = ring /\ file' = file /\ leader' = leader /\ mode' = mode /\ recorded' = recorded
      /\ misread' = misread
  BY DEF FlushDone, logs
<1>3. /\ \A g \in Forwarders \ {f} : flush'[g] = flush[g] /\ buf'[g] = buf[g]
      /\ flush[f] # Idle /\ flush[f].todo = {} /\ flush'[f] = Idle /\ ~Sending(f)'
      /\ Items(f)' = {r \in Items(f) : r.seq > flush[f].last}
  BY Finishing
<1>4. Sending(f) /\ buf[f] # <<>>
  BY <1>1, <1>3 DEF Flushing
<1>5. \A d : RingSet(d)' = RingSet(d) /\ FileSet(d)' = FileSet(d) /\ Held(d)' = Held(d)
  BY <1>2, SameLogs
<1>6. \A g \in Forwarders \ {f} : Items(g)' = Items(g) /\ Batch(g)' = Batch(g) /\ (Sending(g)' <=> Sending(g))
  BY <1>3, BatchKept DEF Items
<1>7. Batch(f)' = {} /\ flush'[f].todo = {}
  BY <1>3 DEF Batch, Idle
<1>8. \A g \in Forwarders : /\ Items(g)' \subseteq Items(g) /\ Batch(g)' \subseteq Batch(g)
                            /\ flush'[g].todo \subseteq flush[g].todo
  BY <1>3, <1>6, <1>7
<1>9. Plain'
  <2>1. Fresh'
    BY <1>2, <1>5, <1>8, FreshShrinks DEF Plain
  <2>2. LoadedIsFile'
    BY <1>2 DEF Plain, LoadedIsFile
  <2>3. Targets'
    BY <1>8, AgentsForward DEF Plain, Targets
  <2>4. QED  BY <2>1, <2>2, <2>3 DEF Plain
<1>10. ASSUME Once  PROVE Once'
  <2>1. ASSUME NEW a \in Agents  PROVE Waiting(a)' \subseteq Waiting(a)
    <3>1. CASE a # f
      BY <3>1, <1>3, <1>6, WaitingSame, AgentsForward
    <3>2. CASE a = f
      <4>1. Waiting(f)' = {r.ev : r \in {r \in Items(f) : r.seq > flush[f].last}}
        BY <1>3, <1>7 DEF Waiting
      <4>2. \A r \in Items(f) : r.seq > flush[f].last => r.ev \in Waiting(f)
        BY DEF Waiting
      <4>3. QED  BY <3>2, <4>1, <4>2
    <3>3. QED  BY <3>1, <3>2
  <2>2. ASSUME NEW g \in Forwarders
        PROVE  /\ Items(g)' \subseteq Items(g) /\ IsInjective(flush'[g].batch)
               /\ Sending(g)' => \A r \in Items(g)' : r.seq > flush'[g].last => r.ev \notin Batch(g)'
    <3>1. CASE g # f
      BY <3>1, <1>3, <1>6, <1>10 DEF Once
    <3>2. CASE g = f
      BY <3>2, <1>3, <1>8, NoBatch
    <3>3. QED  BY <3>1, <3>2
  <2>3. ASSUME NEW g \in Controllers, NEW d \in Controllers \ {g}
        PROVE  /\ \A r \in Items(g)' : Open(g, d, r)' => Open(g, d, r)
               /\ d \in flush'[g].todo => d \in flush[g].todo /\ Batch(g)' \subseteq Batch(g)
    <3>1. CASE g # f
      BY <3>1, <1>3, <1>6, ControllersForward DEF Open
    <3>2. CASE g = f
      BY <3>2, <1>3, <1>7 DEF Open
    <3>3. QED  BY <3>1, <3>2
  <2>4. \A d \in Controllers : buf'[d] # <<>> => leader' = d
    BY <1>2, <1>3, <1>4, <1>10, ControllersForward DEF Once
  <2>5. \A d \in Controllers : /\ OneEach(RingSet(d)') /\ OneEach(FileSet(d)') /\ Held(d)' \subseteq Held(d)
                               /\ Batch(d)' \subseteq Batch(d) \cup EventsIn(Items(d))
    BY <1>5, <1>8, <1>10, ControllersForward DEF Once
  <2>6. QED  BY <1>10, <2>1, <2>2, <2>3, <2>4, <2>5, OnceShrinks
<1>11. QED  BY <1>9, <1>10

(* A process that ends adds nothing. *)
LEMMA OnceStops ==
    ASSUME Base, Base', Plain, NEW f \in Forwarders, NEW log, Stops(f, log), recorded' = recorded,
           \A c \in Controllers : /\ OneEach(RingSet(c)) => OneEach(RingSet(c)')
                                  /\ OneEach(FileSet(c)) => OneEach(FileSet(c)')
                                  /\ Held(c)' \subseteq Held(c),
           \A c \in Controllers \ {f} : leader = c => leader' = c
    PROVE  Fresh' /\ Targets' /\ (Once => Once')
<1>1. /\ \A g \in Forwarders \ {f} : /\ flush'[g] = flush[g] /\ buf'[g] = buf[g]
                                     /\ Items(g)' = Items(g) /\ Batch(g)' = Batch(g)
                                     /\ Sending(g)' <=> Sending(g)
      /\ flush'[f] = Idle /\ ~Sending(f)' /\ Items(f)' = {} /\ Batch(f)' = {} /\ buf'[f] = <<>>
  BY Stopping
<1>2. \A g \in Forwarders : /\ Items(g)' \subseteq Items(g) /\ Batch(g)' \subseteq Batch(g)
                            /\ flush'[g].todo \subseteq flush[g].todo
  BY <1>1 DEF Idle
<1>3. Fresh'
  BY <1>2, FreshShrinks DEF Plain
<1>4. Targets'
  BY <1>2, AgentsForward DEF Plain, Targets
<1>5. ASSUME Once  PROVE Once'
  <2>1. ASSUME NEW a \in Agents  PROVE Waiting(a)' \subseteq Waiting(a)
    <3>1. CASE a # f
      BY <3>1, <1>1, WaitingSame, AgentsForward
    <3>2. CASE a = f
      BY <3>2, <1>1 DEF Waiting
    <3>3. QED  BY <3>1, <3>2
  <2>2. ASSUME NEW g \in Forwarders
        PROVE  /\ Items(g)' \subseteq Items(g) /\ IsInjective(flush'[g].batch)
               /\ Sending(g)' => \A r \in Items(g)' : r.seq > flush'[g].last => r.ev \notin Batch(g)'
    <3>1. CASE g # f
      BY <3>1, <1>1, <1>5 DEF Once
    <3>2. CASE g = f
      BY <3>2, <1>1, NoBatch
    <3>3. QED  BY <3>1, <3>2
  <2>3. ASSUME NEW g \in Controllers, NEW d \in Controllers \ {g}
        PROVE  /\ \A r \in Items(g)' : Open(g, d, r)' => Open(g, d, r)
               /\ d \in flush'[g].todo => d \in flush[g].todo /\ Batch(g)' \subseteq Batch(g)
    <3>1. CASE g # f
      BY <3>1, <1>1, ControllersForward DEF Open
    <3>2. CASE g = f
      BY <3>2, <1>1 DEF Idle
    <3>3. QED  BY <3>1, <3>2
  <2>4. \A d \in Controllers : buf'[d] # <<>> => leader' = d
    BY <1>1, <1>5, ControllersForward DEF Once
  <2>5. \A d \in Controllers : /\ OneEach(RingSet(d)') /\ OneEach(FileSet(d)') /\ Held(d)' \subseteq Held(d)
                               /\ Batch(d)' \subseteq Batch(d) \cup EventsIn(Items(d))
    BY <1>2, <1>5, ControllersForward DEF Once
  <2>6. QED  BY <1>5, <2>1, <2>2, <2>3, <2>4, <2>5, OnceShrinks
<1>6. QED  BY <1>3, <1>4, <1>5

(* The restart of an agent repeats no event. *)
LEMMA OnceAgentRestarts ==
    ASSUME Base, Base', Plain, NEW a \in Agents, AgentRestarts(a)
    PROVE  Plain' /\ (Once => Once')
<1>1. /\ a \in Forwarders /\ Stops(a, {}) /\ recorded' = recorded /\ leader' = leader
      /\ ring' = ring /\ file' = file /\ mode' = mode /\ misread' = misread
  BY AgentsForward DEF AgentRestarts, logs
<1>2. \A c : RingSet(c)' = RingSet(c) /\ FileSet(c)' = FileSet(c) /\ Held(c)' = Held(c)
  BY <1>1, SameLogs
<1>3. Fresh' /\ Targets' /\ (Once => Once')
  BY <1>1, <1>2, OnceStops
<1>4. LoadedIsFile'
  BY <1>1 DEF Plain, LoadedIsFile
<1>5. QED  BY <1>3, <1>4 DEF Plain

(* The end of a controller process repeats no event. *)
LEMMA OnceControllerStops ==
    ASSUME Base, Base', Plain, NEW c \in Controllers, ControllerStops(c)
    PROVE  Plain' /\ (Once => Once')
<1>1. LogType /\ OtherType /\ c \in Forwarders
  BY ControllersForward DEF Base
<1>2. /\ Stops(c, stored[c]) /\ recorded' = recorded /\ mode' = [mode EXCEPT ![c] = "down"]
      /\ ring' = [ring EXCEPT ![c] = <<>>]
      /\ leader' = IF leader = c THEN NoOne ELSE leader
      /\ file' = file \/ file' = [file EXCEPT ![c] = <<>>]
      /\ \A d \in Controllers \ {c} : d \in misread' <=> d \in misread
  BY DEF ControllerStops
<1>3. /\ ring'[c] = <<>> /\ (file'[c] = file[c] \/ file'[c] = <<>>) /\ mode'[c] = "down"
      /\ \A d \in Controllers \ {c} : ring'[d] = ring[d] /\ file'[d] = file[d] /\ mode'[d] = mode[d]
  BY <1>1, <1>2 DEF LogType, OtherType
<1>4. RingSet(c)' = {} /\ (FileSet(c)' = FileSet(c) \/ FileSet(c)' = {})
  BY <1>3 DEF RingSet, FileSet
<1>5. \A d \in Controllers \ {c} : RingSet(d)' = RingSet(d) /\ FileSet(d)' = FileSet(d)
  BY <1>3 DEF RingSet, FileSet
<1>6. \A d \in Controllers : /\ OneEach(RingSet(d)) => OneEach(RingSet(d)')
                             /\ OneEach(FileSet(d)) => OneEach(FileSet(d)')
                             /\ RingSet(d)' \subseteq RingSet(d) /\ FileSet(d)' \subseteq FileSet(d)
  BY <1>4, <1>5, EmptyOneEach
<1>7. \A d \in Controllers : Held(d)' \subseteq Held(d)
  BY <1>6 DEF Held
<1>8. Fresh' /\ Targets' /\ (Once => Once')
  BY <1>1, <1>2, <1>6, <1>7, OnceStops
<1>9. LoadedIsFile'
  BY <1>2, <1>3 DEF Plain, LoadedIsFile
<1>10. QED  BY <1>8, <1>9 DEF Plain

(* The ring that a controller starts with is the end of its file. *)
LEMMA OnceLoadFromFile ==
    ASSUME Base, Base', Plain, NEW c \in Controllers, LoadFromFile(c)
    PROVE  Plain' /\ (Once => Once')
<1>1. LogType /\ OtherType /\ c \in Forwarders
  BY ControllersForward DEF Base
<1>2. /\ buf' = buf /\ flush' = flush /\ file' = file /\ leader' = leader /\ recorded' = recorded
      /\ mode' = [mode EXCEPT ![c] = "loaded"]
  BY DEF LoadFromFile, forwarding
<1>14. PICK n \in 0..Len(file[c]) :
          /\ ring' = [ring EXCEPT ![c] = Ring(SubSeq(file[c], 1, n))]
          /\ misread' = IF n = Len(file[c]) THEN misread ELSE misread \cup {c}
  BY DEF LoadFromFile
<1> DEFINE lines == SubSeq(file[c], 1, n)
<1>3. /\ ring'[c] = Ring(lines)
      /\ \A d \in Controllers \ {c} : ring'[d] = ring[d] /\ mode'[d] = mode[d]
  BY <1>1, <1>2, <1>14 DEF LogType, OtherType
<1>4. file[c] \in Seq(Entries)
  BY <1>1 DEF LogType
<1>15. /\ lines \in Seq(Entries) /\ Elements(lines) \subseteq Elements(file[c])
       /\ n = Len(file[c]) => lines = file[c]
  BY <1>4, Prefix
<1> HIDE DEF lines
<1>5. /\ Elements(Ring(lines)) \subseteq Elements(file[c])
      /\ n = Len(file[c]) /\ Ring(lines) = <<>> => file[c] = <<>>
  BY <1>15, RingEntries
<1>16. \A d \in Controllers : /\ d \notin misread' => d \notin misread
                              /\ c \notin misread' => n = Len(file[c])
  BY <1>14
<1>6. RingSet(c)' \subseteq FileSet(c)
  BY <1>3, <1>5 DEF RingSet, FileSet, Elements
<1>7. \A d \in Controllers : FileSet(d)' = FileSet(d)
  BY <1>2 DEF FileSet
<1>8. \A d \in Controllers \ {c} : RingSet(d)' = RingSet(d)
  BY <1>3 DEF RingSet
<1>9. \A d \in Controllers : Held(d)' \subseteq Held(d)
  <2>1. \A d \in Controllers : RingSet(d)' \cup FileSet(d)' \subseteq RingSet(d) \cup FileSet(d)
    BY <1>6, <1>7, <1>8
  <2>2. QED  BY <2>1 DEF Held
<1>10. \A f : Items(f)' = Items(f) /\ Batch(f)' = Batch(f) /\ (Sending(f)' <=> Sending(f))
  BY <1>2 DEF Items, Batch, Sending
<1>11. Plain'
  <2>1. Fresh'
    BY <1>2, <1>9, <1>10, FreshShrinks DEF Plain
  <2>2. LoadedIsFile'
    BY <1>2, <1>3, <1>5, <1>16 DEF Plain, LoadedIsFile
  <2>3. Targets'
    BY <1>2 DEF Plain, Targets
  <2>4. QED  BY <2>1, <2>2, <2>3 DEF Plain
<1>12. ASSUME Once  PROVE Once'
  <2>1. \A a \in Agents : Waiting(a)' \subseteq Waiting(a)
    BY <1>2, <1>10, WaitingSame
  <2>2. \A b, d, r : Open(b, d, r)' <=> Open(b, d, r)
    BY <1>2, <1>10 DEF Open
  <2>3. \A d \in Controllers : OneEach(RingSet(d)') /\ OneEach(FileSet(d)')
    BY <1>6, <1>7, <1>8, <1>12 DEF Once, OneEach
  <2>4. \A f \in Forwarders :
            /\ Items(f)' \subseteq Items(f) /\ IsInjective(flush'[f].batch)
            /\ Sending(f)' => \A r \in Items(f)' : r.seq > flush'[f].last => r.ev \notin Batch(f)'
    BY <1>2, <1>10, <1>12 DEF Once
  <2>5. \A d \in Controllers : /\ buf'[d] # <<>> => leader' = d
                               /\ Batch(d)' \subseteq Batch(d) \cup EventsIn(Items(d))
    BY <1>2, <1>10, <1>12 DEF Once
  <2>6. \A b \in Controllers : \A d \in Controllers \ {b} :
            /\ \A r \in Items(b)' : Open(b, d, r)' => Open(b, d, r)
            /\ d \in flush'[b].todo => d \in flush[b].todo /\ Batch(b)' \subseteq Batch(b)
    BY <1>2, <1>10, <2>2
  <2>7. QED  BY <1>9, <1>12, <2>1, <2>3, <2>4, <2>5, <2>6, OnceShrinks
<1>13. QED  BY <1>11, <1>12

--------------------------------------------------------------------------------
(* Backfill, elections, and the theorems. *)

(* A log that holds no event twice, with increasing ids, is an injective     *)
(* sequence of events.                                                       *)
LEMMA RingInjective ==
    ASSUME Base, NEW d \in Controllers, d \notin misread, OneEach(RingSet(d))
    PROVE  IsInjective([i \in DOMAIN ring[d] |-> ring[d][i].ev])
<1>1. Increasing(ring[d]) /\ ring[d] \in Seq(Entries)
  BY DEF Base, Order, Ordered, LogType
<1> SUFFICES ASSUME NEW i \in DOMAIN ring[d], NEW j \in DOMAIN ring[d], ring[d][i].ev = ring[d][j].ev
             PROVE  i = j
  BY DEF IsInjective
<1>2. ring[d][i] = ring[d][j]
  BY DEF OneEach, RingSet
<1>3. i \in Nat /\ j \in Nat /\ ring[d][i].id \in Nat
  <2>1. i \in Nat /\ j \in Nat /\ ring[d][i] \in Entries
    BY <1>1
  <2>2. QED  BY <2>1 DEF Entries
<1>4. ~(i < j) /\ ~(j < i)
  <2>1. i < j => ring[d][i].id < ring[d][j].id
    BY <1>1 DEF Increasing
  <2>2. j < i => ring[d][j].id < ring[d][i].id
    BY <1>1 DEF Increasing
  <2>3. QED  BY <2>1, <2>2, <1>2, <1>3
<1>5. QED  BY <1>3, <1>4

(* Backfill into an empty log copies a log that holds no event twice, and no *)
(* peer is about to send the same events as long as nothing is queued to be  *)
(* copied.                                                                   *)
LEMMA OnceCopy ==
    ASSUME Base, Base', Carry, Plain, NEW c \in Controllers, NEW d \in Controllers,
           mode[c] = "loaded", mode' = [mode EXCEPT ![c] = "backfilled"], ring[c] = <<>>,
           Record(c, [i \in DOMAIN ring[d] |-> ring[d][i].ev]),
           UNCHANGED <<forwarding, leader, recorded>>
    PROVE  Plain' /\ (Once /\ ~Copying /\ misread = {} => Once')
<1> DEFINE evs == [i \in DOMAIN ring[d] |-> ring[d][i].ev]
           N == NewEntries(c, evs)
<1>1. TypeOK /\ LogType /\ OtherType
  BY TypeByParts DEF Base
<1>2. evs \in Seq(Nat) /\ Elements(evs) \subseteq Held(d)
      /\ (OneEach(RingSet(d)) /\ d \notin misread => IsInjective(evs))
  <2>1. evs \in Seq(Nat)
    BY <1>1, RingEvents
  <2>2. \A i \in DOMAIN evs : evs[i] \in Held(d)
    BY DEF Held, RingSet
  <2>3. QED  BY <2>1, <2>2, RingInjective DEF Elements
<1>3. buf' = buf /\ flush' = flush /\ leader' = leader /\ recorded' = recorded
  BY DEF forwarding
<1>4. Record(c, evs)
  OBVIOUS
<1> HIDE DEF evs
<1>5. Writes(c, N) /\ EventsIn(N) = Elements(evs)
  BY <1>1, <1>2, <1>4, Writing DEF EventsIn
<1>6. OneEach(RingSet(d)) /\ d \notin misread => OneEach(N)
  BY <1>2, NewOneEach
<1> HIDE DEF N
<1>7. mode'[c] = "backfilled" /\ \A b \in Controllers \ {c} : mode'[b] = mode[b]
  BY <1>1 DEF OtherType
<1>8. \A f : Items(f)' = Items(f) /\ Batch(f)' = Batch(f) /\ (Sending(f)' <=> Sending(f))
  BY <1>3 DEF Items, Batch, Sending
<1>9. \A b \in Controllers : Held(b)' \subseteq Held(b) \cup (IF b = c THEN EventsIn(N) ELSE {})
  BY <1>5, WritesHeld
<1>10. EventsIn(N) \subseteq Held(d)
  BY <1>2, <1>5
<1>11. Plain'
  <2>1. recorded \in Nat /\ recorded <= recorded'
    BY <1>1, <1>3 DEF OtherType
  <2>2. \A e \in EventsIn(N) : e <= recorded'
    BY <1>3, <1>10 DEF Plain, Fresh
  <2>3. \A f \in Forwarders : EventsIn(Items(f)') \subseteq EventsIn(Items(f)) \cup EventsIn(N)
    BY <1>8
  <2>4. \A b \in Controllers : Held(b)' \subseteq Held(b) \cup EventsIn(N)
    BY <1>9
  <2>5. Fresh'
    BY <2>1, <2>2, <2>3, <2>4, <1>8, FreshKept DEF Plain
  <2>6. LoadedIsFile'
    BY <1>5, <1>7, LoadedKept DEF Plain
  <2>7. Targets'
    BY <1>3 DEF Plain, Targets
  <2>8. QED  BY <2>5, <2>6, <2>7 DEF Plain
<1>12. ASSUME Once, ~Copying, misread = {}  PROVE Once'
  <2>1. \A g \in Controllers : buf[g] = <<>>
    BY <1>12 DEF Copying
  <2>2. \A g \in Controllers : Items(g) = {} /\ Batch(g) = {} /\ flush[g].todo = {}
    BY <2>1, NoFlushNoItems, ControllersForward
  <2>3. RingSet(c) = {} /\ FileSet(c) = {}
    BY <1>12 DEF Plain, LoadedIsFile, RingSet, FileSet
  <2>4. ASSUME NEW b \in Controllers  PROVE OneEach(RingSet(b)') /\ OneEach(FileSet(b)')
    <3>1. CASE b # c
      <4>1. ring'[b] = ring[b] /\ file'[b] = file[b]
        BY <3>1, <1>5 DEF Writes
      <4>2. RingSet(b)' = RingSet(b) /\ FileSet(b)' = FileSet(b)
        BY <4>1 DEF RingSet, FileSet
      <4>3. QED  BY <4>2, <1>12 DEF Once
    <3>2. CASE b = c
      <4>1. OneEach(N)
        BY <1>6, <1>12 DEF Once
      <4>2. RingSet(c)' \subseteq N /\ FileSet(c)' \subseteq N
        BY <2>3, <1>5 DEF Writes
      <4>3. QED  BY <3>2, <4>1, <4>2 DEF OneEach
    <3>3. QED  BY <3>1, <3>2
  <2>5. \A a \in Agents : Waiting(a)' = Waiting(a)
    BY <1>3, <1>8, WaitingSame
  <2>6. \A f \in Forwarders :
            /\ OneEach(Items(f)') /\ IsInjective(flush'[f].batch)
            /\ Sending(f)' => \A r \in Items(f)' : r.seq > flush'[f].last => r.ev \notin Batch(f)'
    BY <1>3, <1>8, <1>12 DEF Once
  <2>7. \A a, b \in Agents : a # b => Waiting(a)' \cap Waiting(b)' = {}
    BY <2>5, <1>12 DEF Once
  <2>8. ASSUME NEW a \in Agents, NEW b \in Controllers
        PROVE  /\ Waiting(a)' \cap Held(b)' = {} /\ Waiting(a)' \cap Batch(b)' = {}
               /\ \A r \in Items(b)' : r.ev \notin Waiting(a)'
    <3>1. Waiting(a) \cap Held(b) = {} /\ Waiting(a) \cap Held(d) = {}
      BY <1>12 DEF Once
    <3>2. Held(b)' \subseteq Held(b) \cup Held(d)
      BY <1>9, <1>10
    <3>3. QED  BY <3>1, <3>2, <2>2, <2>5, <1>8
  <2>9. \A g \in Controllers : /\ buf'[g] = <<>> /\ Items(g)' = {} /\ flush'[g].todo = {}
    BY <2>1, <2>2, <1>3, <1>8
  <2>10. QED  BY <2>4, <2>6, <2>7, <2>8, <2>9 DEF Once
<1>13. QED  BY <1>11, <1>12

(* A backfill repeats no event, or repeats tells. *)
LEMMA OnceBackfill ==
    ASSUME Base, Base', Carry, Plain, Told, NEW c \in Controllers, Backfill(c)
    PROVE  Plain' /\ (Once /\ ~repeats' => Once')
<1>1. /\ mode[c] = "loaded" /\ mode' = [mode EXCEPT ![c] = "backfilled"]
      /\ UNCHANGED <<forwarding, leader, recorded>>
  BY DEF Backfill
<1>2. ASSUME NEW d \in Controllers, ring[c] = <<>>, repeats' = (repeats \/ Copying),
             Record(c, [i \in DOMAIN ring[d] |-> ring[d][i].ev])
      PROVE  Plain' /\ (Once /\ ~repeats' => Once')
  <2>1. Plain' /\ (Once /\ ~Copying /\ misread = {} => Once')
    BY <1>1, <1>2, OnceCopy
  <2>2. ~repeats' => ~Copying /\ misread = {}
    BY <1>2, Zenon DEF Told
  <2>3. QED  BY <2>1, <2>2
<1>3. ASSUME UNCHANGED logs
      PROVE  Plain' /\ (Once => Once')
  <2>1. /\ ring' = ring /\ file' = file /\ buf' = buf /\ flush' = flush /\ leader' = leader
        /\ recorded' = recorded /\ misread' = misread
    BY <1>1, <1>3 DEF logs, forwarding
  <2>2. \A d \in Controllers : mode'[d] = "loaded" => mode[d] = "loaded"
    BY <1>1 DEF Base, OtherType
  <2>3. QED  BY <2>1, <2>2, OnceStill
<1>4. QED  BY <1>2, <1>3 DEF Backfill, EmptyLog, Peers

(* An election repeats no event, or repeats tells. *)
LEMMA OnceElect ==
    ASSUME Base, Base', Plain, NEW c \in Controllers, Elect(c)
    PROVE  Plain' /\ (Once /\ ~repeats' => Once')
<1>1. /\ ring' = ring /\ file' = file /\ buf' = buf /\ flush' = flush /\ recorded' = recorded
      /\ mode' = mode /\ misread' = misread
  BY DEF Elect, logs, forwarding
<1>2. Plain' /\ (Once /\ ~Copying => Once')
  BY <1>1, OnceStill
<1>3. ~repeats' => ~Copying
  BY Zenon DEF Elect
<1>4. QED  BY <1>2, <1>3

(* A controller that starts to serve repeats no event. *)
LEMMA OnceServe ==
    ASSUME Base, Base', Plain, NEW c \in Controllers, Serve(c)
    PROVE  Plain' /\ (Once => Once')
<1>1. /\ ring' = ring /\ file' = file /\ buf' = buf /\ flush' = flush /\ recorded' = recorded
      /\ leader' = leader /\ misread' = misread
  BY DEF Serve, logs, forwarding
<1>2. \A d \in Controllers : mode'[d] = "loaded" => mode[d] = "loaded"
  BY DEF Serve, Base, OtherType
<1>3. QED  BY <1>1, <1>2, OnceStill

(* The third layer holds initially. *)
LEMMA OnceInit == Init => OnceInv
<1> SUFFICES ASSUME Init PROVE OnceInv
  OBVIOUS
<1>1. \A f \in Forwarders : flush[f] = Idle /\ ~Sending(f) /\ Items(f) = {} /\ Batch(f) = {}
                            /\ flush[f].todo = {} /\ buf[f] = <<>>
  BY DEF Init, Sending, Idle, Items, Batch
<1>2. \A c \in Controllers : RingSet(c) = {} /\ FileSet(c) = {}
  BY DEF Init, RingSet, FileSet
<1>3. \A c \in Controllers : Held(c) = {}
  BY <1>2 DEF Held
<1>4. \A a \in Agents : Waiting(a) = {}
  BY <1>1, AgentsForward DEF Waiting
<1>5. Plain
  <2>1. LoadedIsFile
    BY DEF Init, LoadedIsFile
  <2>2. Fresh /\ Targets
    BY <1>1, <1>3, AgentsForward DEF Fresh, Targets
  <2>3. QED  BY <2>1, <2>2 DEF Plain
<1>6. Once
  <2>1. \A c \in Controllers : OneEach(RingSet(c)) /\ OneEach(FileSet(c)) /\ Items(c) = {} /\ buf[c] = <<>>
                               /\ Batch(c) = {} /\ Held(c) = {}
    BY <1>1, <1>2, <1>3, EmptyOneEach, ControllersForward
  <2>2. \A f \in Forwarders : OneEach(Items(f)) /\ IsInjective(flush[f].batch) /\ ~Sending(f)
    BY <1>1, EmptyOneEach, NoBatch
  <2>3. QED  BY <1>4, <2>1, <2>2 DEF Once
<1>7. Told
  BY DEF Init, Told
<1>8. QED  BY <1>5, <1>6, <1>7 DEF OnceInv

(* A file that is not read to its end counts as a cause of repeats. *)
LEMMA ToldNext == Told /\ [Next]_vars => Told'
<1> SUFFICES ASSUME Told, [Next]_vars PROVE Told'
  OBVIOUS
<1>1. ASSUME repeats => repeats', misread' \subseteq misread PROVE Told'
  BY <1>1, Zenon DEF Told
<1>2. ASSUME NEW a \in Agents, RecordOnNode(a) \/ AgentRestarts(a)  PROVE Told'
  BY <1>1, <1>2 DEF RecordOnNode, AgentRestarts, logs
<1>3. ASSUME NEW f \in Forwarders, FlushStart(f) \/ FlushDone(f)  PROVE Told'
  BY <1>1, <1>3 DEF FlushStart, FlushDone, logs
<1>4. ASSUME NEW f \in Forwarders, NEW c \in Controllers, Deliver(f, c)  PROVE Told'
  <2>1. misread' = misread
    BY <1>4 DEF Deliver, Ingest, Tee, Record
  <2>2. repeats => repeats'
    BY <1>4, Zenon DEF Deliver
  <2>3. QED  BY <1>1, <2>1, <2>2
<1>5. ASSUME NEW f \in Forwarders, NEW c \in Controllers, DeliveryFails(f, c)  PROVE Told'
  <2>1. misread' = misread
    BY <1>5 DEF DeliveryFails, logs
  <2>2. repeats => repeats'
    BY <1>5, Zenon DEF DeliveryFails
  <2>3. QED  BY <1>1, <2>1, <2>2
<1>6. ASSUME NEW c \in Controllers, RecordOnController(c)  PROVE Told'
  BY <1>1, <1>6 DEF RecordOnController, Tee, Record
<1>7. ASSUME NEW c \in Controllers, Elect(c)  PROVE Told'
  <2>1. misread' = misread
    BY <1>7 DEF Elect, logs
  <2>2. repeats => repeats'
    BY <1>7, Zenon DEF Elect
  <2>3. QED  BY <1>1, <2>1, <2>2
<1>8. ASSUME NEW c \in Controllers, ControllerStops(c)  PROVE Told'
  BY <1>1, <1>8 DEF ControllerStops
<1>9. ASSUME NEW c \in Controllers, LoadFromFile(c)  PROVE Told'
  <2>1. PICK n \in 0..Len(file[c]) :
           /\ misread' = IF n = Len(file[c]) THEN misread ELSE misread \cup {c}
           /\ repeats' = (repeats \/ n # Len(file[c]))
    BY <1>9 DEF LoadFromFile
  <2>2. repeats => repeats'
    BY <2>1, Zenon
  <2>3. CASE n = Len(file[c])
    BY <1>1, <2>1, <2>2, <2>3
  <2>4. CASE n # Len(file[c])
    BY <2>1, <2>4, Zenon DEF Told
  <2>5. QED  BY <2>3, <2>4
<1>10. ASSUME NEW c \in Controllers, Backfill(c)  PROVE Told'
  <2>1. misread' = misread
    BY <1>10 DEF Backfill, Record, logs
  <2>2. repeats => repeats'
    BY <1>10, Zenon DEF Backfill
  <2>3. QED  BY <1>1, <2>1, <2>2
<1>11. ASSUME NEW c \in Controllers, Serve(c)  PROVE Told'
  BY <1>1, <1>11 DEF Serve, logs
<1>12. ASSUME UNCHANGED vars  PROVE Told'
  BY <1>1, <1>12 DEF vars, logs
<1>13. QED
  BY <1>2, <1>3, <1>4, <1>5, <1>6, <1>7, <1>8, <1>9, <1>10, <1>11, <1>12 DEF Next

(* Every step keeps the third layer. *)
LEMMA OnceNext == Base /\ Base' /\ Carry /\ OnceInv /\ [Next]_vars => OnceInv'
<1> SUFFICES ASSUME Base, Base', Carry, OnceInv, [Next]_vars PROVE OnceInv'
  OBVIOUS
<1>1. Plain /\ Told /\ (~repeats => Once)
  BY DEF OnceInv
<1> DEFINE Goal == Plain' /\ (~repeats' => Once')
<1>2. ASSUME NEW a \in Agents, RecordOnNode(a)  PROVE Goal
  BY <1>1, <1>2, OnceRecordOnNode DEF RecordOnNode
<1>3. ASSUME NEW a \in Agents, AgentRestarts(a)  PROVE Goal
  BY <1>1, <1>3, OnceAgentRestarts DEF AgentRestarts
<1>4. ASSUME NEW f \in Forwarders, FlushStart(f)  PROVE Goal
  BY <1>1, <1>4, OnceFlushStart DEF FlushStart
<1>5. ASSUME NEW f \in Forwarders, FlushDone(f)  PROVE Goal
  BY <1>1, <1>5, OnceFlushDone DEF FlushDone
<1>6. ASSUME NEW f \in Forwarders, NEW c \in Controllers, Deliver(f, c)  PROVE Goal
  <2>1. ~repeats' => ~repeats
    BY <1>6 DEF Deliver
  <2>2. QED  BY <2>1, <1>1, <1>6, OnceDeliver
<1>7. ASSUME NEW f \in Forwarders, NEW c \in Controllers, DeliveryFails(f, c)  PROVE Goal
  <2>1. ~repeats' => ~repeats
    BY <1>7, Zenon DEF DeliveryFails
  <2>2. QED  BY <2>1, <1>1, <1>7, OnceDeliveryFails
<1>8. ASSUME NEW c \in Controllers, RecordOnController(c)  PROVE Goal
  BY <1>1, <1>8, OnceRecordOnController DEF RecordOnController
<1>9. ASSUME NEW c \in Controllers, Elect(c)  PROVE Goal
  <2>1. ~repeats' => ~repeats
    BY <1>9, Zenon DEF Elect
  <2>2. QED  BY <2>1, <1>1, <1>9, OnceElect
<1>10. ASSUME NEW c \in Controllers, ControllerStops(c)  PROVE Goal
  BY <1>1, <1>10, OnceControllerStops DEF ControllerStops
<1>11. ASSUME NEW c \in Controllers, LoadFromFile(c)  PROVE Goal
  <2>1. ~repeats' => ~repeats
    BY <1>11, Zenon DEF LoadFromFile
  <2>2. QED  BY <2>1, <1>1, <1>11, OnceLoadFromFile
<1>12. ASSUME NEW c \in Controllers, Backfill(c)  PROVE Goal
  <2>1. ~repeats' => ~repeats
    BY <1>12, Zenon DEF Backfill
  <2>2. QED  BY <2>1, <1>1, <1>12, OnceBackfill
<1>13. ASSUME NEW c \in Controllers, Serve(c)  PROVE Goal
  BY <1>1, <1>13, OnceServe DEF Serve
<1>14. ASSUME UNCHANGED vars  PROVE Goal
  <2>1. /\ ring' = ring /\ file' = file /\ buf' = buf /\ flush' = flush /\ recorded' = recorded
        /\ leader' = leader /\ mode' = mode /\ repeats' = repeats /\ misread' = misread
    BY <1>14 DEF vars, logs, forwarding
  <2>2. QED  BY <2>1, <1>1, OnceStill
<1> HIDE DEF Goal
<1>15. Goal
  BY <1>2, <1>3, <1>4, <1>5, <1>6, <1>7, <1>8, <1>9, <1>10, <1>11, <1>12, <1>13, <1>14 DEF Next
<1>16. Told'
  BY <1>1, ToldNext
<1>17. QED  BY <1>15, <1>16 DEF Goal, OnceInv

(* The first layer gives the order of the ids. *)
LEMMA OrderGivesIdsIncrease == Base => IdsIncrease
<1> SUFFICES ASSUME Base, NEW c \in Controllers
             PROVE  /\ \A i \in DOMAIN ring[c] : ring[c][i].id < nextID[c]
                    /\ c \notin misread =>
                          /\ \A i, j \in DOMAIN file[c] : i < j => file[c][i].id < file[c][j].id
                          /\ \A i, j \in DOMAIN ring[c] : i < j => ring[c][i].id < ring[c][j].id
  BY DEF IdsIncrease
<1>1. Ordered(c)
  BY DEF Base, Order
<1>2. \A i \in DOMAIN ring[c] : ring[c][i].id < nextID[c]
  <2>1. CASE mode[c] = "down"
    BY <1>1, <2>1 DEF Ordered
  <2>2. CASE mode[c] # "down"
    BY <1>1, <2>2 DEF Ordered, RingSet
  <2>3. QED  BY <2>1, <2>2
<1>3. QED  BY <1>1, <1>2 DEF Ordered, Increasing

(* The third layer gives that no log repeats an event. *)
LEMMA OnceGivesNoRepeats == Base /\ OnceInv => NoRepeats
<1> SUFFICES ASSUME Base, OnceInv, ~repeats, NEW c \in Controllers  PROVE IsInjective(EventsOf(c))
  BY DEF NoRepeats
<1>1. OneEach(RingSet(c)) /\ c \notin misread
  BY DEF OnceInv, Once, Told
<1>2. QED  BY <1>1, RingInjective DEF EventsOf

(* Every log is a history in order, for any number of agents and             *)
(* controllers: no event twice unless an answer was lost, a request failed   *)
(* between more than two controllers, the leader changed or a backfill ran   *)
(* while events were to be copied, or a file was not read to its end         *)
(* (NoRepeats); new ids above all of the ring, and ids that increase across  *)
(* restarts, backfills and failed writes where files are read to their end   *)
(* (IdsIncrease).                                                            *)
THEOREM LogsInOrder == Spec => []LogInOrder
<1>1. Spec => [](Base /\ Carry /\ OnceInv)
  BY BaseInit, CarryInit, OnceInit, BaseNext, CarryNext, OnceNext, PTL DEF Spec
<1>2. Base /\ OnceInv => LogInOrder
  BY OrderGivesIdsIncrease, OnceGivesNoRepeats DEF LogInOrder
<1>3. QED  BY <1>1, <1>2, PTL

(* Every variable keeps its shape; the queues and rings keep their bounds. *)
THEOREM TypeCorrect == Spec => []TypeOK
<1>1. Base => TypeOK
  BY TypeByParts DEF Base
<1>2. QED  BY <1>1, BaseInvariant, PTL
================================================================================
