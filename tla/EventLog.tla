-------------------------------- MODULE EventLog --------------------------------
(***************************************************************************)
(* The event log (internal/events, httpapi/ingest.go).  A node agent queues *)
(* its events in a Forwarder and posts them in batches to the controllers; *)
(* a controller stores them in its Recorder, a ring with a file behind it, *)
(* and, while it leads, queues a copy in a second Forwarder whose targets  *)
(* are the other controllers.  A controller that starts with an empty log  *)
(* copies the log of a peer first (Backfill).                              *)
(*                                                                         *)
(* An event is its number in the order in which the agents and controllers *)
(* recorded new ones; its other fields are left out, except that events in *)
(* Unwatched are of a namespace that the controllers do not watch.         *)
(***************************************************************************)
EXTENDS Naturals, Sequences, FiniteSets, SequencesExt

CONSTANTS
    Agents,         \* node agents
    Controllers,    \* controller pods
    Unwatched,      \* the events of namespaces no controller watches
    MaxBatch,       \* events in one request
    BufferSize,     \* forwardBuffer, events in a Forwarder
    MaxLen,         \* events in a Recorder's ring
    MaxEvents,      \* bound: new events
    MaxFaults,      \* bound: failed or unanswered requests, crashes
    MaxFileErrors,  \* bound: controllers whose file cannot be written or was not read
    MaxElections    \* bound: changes of the leader

NoOne == "no one"
Forwarders == Agents \cup Controllers

ASSUME EventLogAssumption ==
    /\ Agents \cap Controllers = {} /\ IsFiniteSet(Controllers)
    /\ NoOne \notin Forwarders
    /\ Unwatched \subseteq Nat
    /\ {MaxBatch, BufferSize, MaxLen} \subseteq Nat \ {0}
    /\ {MaxEvents, MaxFaults, MaxFileErrors, MaxElections} \subseteq Nat

VARIABLES
    buf,        \* buf[f]: Forwarder.buf, the queued events with their numbers
    nextSeq,    \* nextSeq[f]: Forwarder.nextSeq
    flush,      \* flush[f]: the Flush under way, or Idle
    mode,       \* mode[c]: how far a controller process has come
    ring,       \* ring[c]: Recorder.events
    nextID,     \* nextID[c]: Recorder.nextID
    file,       \* file[c]: the lines of events.jsonl
    broken,     \* the controllers whose process writes no more lines
    leader,     \* the controller whose Leading answers true
    recorded,   \* history: how many new events there are
    faults, elections

(* What the properties compare the log with; no step of the code reads it.  *)
VARIABLES
    stored,     \* stored[c]: events the running process c has put in its ring
    dropped,    \* dropped[f]: events f dropped when full, or lost with its process
    owed,       \* owed[c][d]: events c queued for its peers while d was listed
    misread,    \* the controllers whose file was once not read to its end
    repeats     \* what can make a log hold an event twice has happened

forwarding == <<buf, nextSeq, flush>>
logs == <<ring, nextID, file, broken, stored, misread>>
vars == <<forwarding, logs, mode, leader, recorded, faults, elections, dropped, owed, repeats>>

Idle == [batch |-> <<>>, last |-> 0, todo |-> {}]
Entries == [id : Nat, ev : Nat]

(* The shape of every variable. *)
TypeOK ==
    /\ buf \in [Forwarders -> Seq([seq : Nat, ev : Nat])]
    /\ \A f \in Forwarders : Len(buf[f]) <= BufferSize
    /\ nextSeq \in [Forwarders -> Nat]
    /\ flush \in [Forwarders -> [batch : Seq(Nat), last : Nat, todo : SUBSET Controllers]]
    /\ mode \in [Controllers -> {"down", "loaded", "backfilled", "up"}]
    /\ ring \in [Controllers -> Seq(Entries)] /\ file \in [Controllers -> Seq(Entries)]
    /\ \A c \in Controllers : Len(ring[c]) <= MaxLen
    /\ nextID \in [Controllers -> Nat]
    /\ broken \subseteq Controllers /\ misread \subseteq Controllers
    /\ leader \in Controllers \cup {NoOne}
    /\ recorded \in 0..MaxEvents /\ faults \in 0..MaxFaults /\ elections \in 0..MaxElections
    /\ stored \in [Controllers -> SUBSET Nat] 
    /\ dropped \in [Forwarders -> SUBSET Nat]
    /\ owed \in [Controllers -> [Controllers -> SUBSET Nat]]
    /\ repeats \in BOOLEAN

Init ==
    /\ buf = [f \in Forwarders |-> <<>>]
    /\ nextSeq = [f \in Forwarders |-> 0]
    /\ flush = [f \in Forwarders |-> Idle]
    /\ mode = [c \in Controllers |-> "up"]
    /\ ring = [c \in Controllers |-> <<>>]
    /\ nextID = [c \in Controllers |-> 1]
    /\ file = [c \in Controllers |-> <<>>]
    /\ broken = {} /\ misread = {}
    /\ leader \in Controllers
    /\ recorded = 0 /\ faults = 0 /\ elections = 0
    /\ stored = [c \in Controllers |-> {}]
    /\ dropped = [f \in Forwarders |-> {}]
    /\ owed = [c \in Controllers |-> [d \in Controllers |-> {}]]
    /\ repeats = FALSE

Fault == faults < MaxFaults /\ faults' = faults + 1

-----------------------------------------------------------------------------
(* Forwarder *)

(* Forwarder.Record of evs, one after the other, on a Forwarder with queue   *)
(* q: a full buffer drops its oldest event.                                  *)
Queued(f, evs) == buf[f] \o [i \in DOMAIN evs |-> [seq |-> nextSeq[f] + i, ev |-> evs[i]]]
Excess(q) == IF Len(q) > BufferSize THEN Len(q) - BufferSize ELSE 0
Enqueue(f, evs) ==
    LET q == Queued(f, evs)
    IN  /\ buf' = [buf EXCEPT ![f] = SubSeq(q, Excess(q) + 1, Len(q))]
        /\ nextSeq' = [nextSeq EXCEPT ![f] = @ + Len(evs)]
        /\ dropped' = [dropped EXCEPT ![f] = @ \cup {q[i].ev : i \in 1..Excess(q)}]

(* newPeerResolver: the other controllers whose pod runs, which a pod does   *)
(* before its server accepts requests.                                       *)
Peers(c) == {d \in Controllers \ {c} : mode[d] # "down"}

(* Flush up to its first request: a copy of the head of the queue and the    *)
(* number of its last event.  For a controller the peers are listed now.     *)
FlushStart(f) ==
    LET n == IF Len(buf[f]) < MaxBatch THEN Len(buf[f]) ELSE MaxBatch
    IN  /\ flush[f] = Idle /\ n > 0
        /\ f \in Controllers => mode[f] # "down"
        /\ \E todo \in IF f \in Agents THEN {{c} : c \in Controllers} ELSE {Peers(f)} :
             flush' = [flush EXCEPT ![f] = [batch |-> [i \in 1..n |-> buf[f][i].ev],
                                            last |-> buf[f][n].seq, todo |-> todo]]
        /\ UNCHANGED <<buf, nextSeq, logs, mode, leader, recorded, faults, elections,
                       dropped, owed, repeats>>

(* The end of Flush: what was sent leaves the front of the queue, by its     *)
(* number, since the queue may have dropped events meanwhile.                *)
Unsent(q, last) == {i \in DOMAIN q : q[i].seq > last}
SentByPlace(q, last) == SubSeq(q, MaxBatch + 1, Len(q))
Sent(q, last) == IF Unsent(q, last) = {} THEN <<>> ELSE SubSeq(q, Min(Unsent(q, last)), Len(q))
FlushDone(f) ==
    /\ flush[f] # Idle /\ flush[f].todo = {}
    /\ buf' = [buf EXCEPT ![f] = Sent(@, flush[f].last)]
    /\ flush' = [flush EXCEPT ![f] = Idle]
    /\ UNCHANGED <<nextSeq, logs, mode, leader, recorded, faults, elections, dropped, owed, repeats>>

-----------------------------------------------------------------------------
(* Recorder *)

(* Record of evs on the Recorder of c: consecutive ids, the ring keeps the   *)
(* last MaxLen, and each event is a line of the file until a write fails:    *)
(* the json.Encoder keeps its first error, and writes nothing after it.      *)
Numbered(c, evs) == [i \in DOMAIN evs |-> [id |-> nextID[c] + i - 1, ev |-> evs[i]]]
Ring(entries) == SubSeq(entries, (IF Len(entries) > MaxLen THEN Len(entries) - MaxLen ELSE 0) + 1,
                        Len(entries))
FileError(c) == Cardinality((broken \cup misread) \ {c}) < MaxFileErrors
Record(c, evs) ==
    /\ ring' = [ring EXCEPT ![c] = Ring(@ \o Numbered(c, evs))]
    /\ nextID' = [nextID EXCEPT ![c] = @ + Len(evs)]
    /\ \E n \in 0..Len(evs) :
          /\ n > 0 => c \notin broken
          /\ file' = [file EXCEPT ![c] = @ \o SubSeq(Numbered(c, evs), 1, n)]
          /\ n < Len(evs) => FileError(c)
          /\ broken' = IF n = Len(evs) THEN broken ELSE broken \cup {c}
    /\ stored' = [stored EXCEPT ![c] = @ \cup ToSet(evs)]
    /\ UNCHANGED misread

(* Tee.Record: always the own log, and the peers' queue only while leading.  *)
Tee(c, evs) ==
    /\ Record(c, evs)
    /\ IF leader = c
       THEN /\ Enqueue(c, evs)
            /\ owed' = [owed EXCEPT ![c] = [d \in Controllers |->
                   IF d \in Peers(c) THEN owed[c][d] \cup ToSet(evs) ELSE owed[c][d]]]
       ELSE UNCHANGED <<buf, nextSeq, dropped, owed>>

-----------------------------------------------------------------------------
(* New events *)

(* A handler on a node reports an event. *)
RecordOnNode(a) ==
    /\ recorded < MaxEvents /\ recorded' = recorded + 1
    /\ Enqueue(a, <<recorded + 1>>)
    /\ UNCHANGED <<flush, logs, mode, leader, faults, elections, owed, repeats>>

(* A check of the controller c reports an event. *)
RecordOnController(c) ==
    /\ mode[c] \in {"backfilled", "up"}
    /\ recorded < MaxEvents /\ recorded' = recorded + 1
    /\ Tee(c, <<recorded + 1>>)
    /\ UNCHANGED <<flush, mode, leader, faults, elections, repeats>>

-----------------------------------------------------------------------------
(* Delivery *)

(* handleIngest: events of a namespace that is not watched are skipped, the  *)
(* others are recorded in their order, with new ids, through the Tee.        *)
Watched(evs) == {i \in DOMAIN evs : evs[i] \notin Unwatched}
Accepted(evs) ==
    [n \in 1..Cardinality(Watched(evs)) |->
        evs[CHOOSE i \in Watched(evs) : Cardinality({j \in Watched(evs) : j <= i}) = n]]
Ingest(c, evs) == mode[c] = "up" /\ Tee(c, Accepted(evs))

Answered(f, c) == flush' = [flush EXCEPT ![f].todo = @ \ {c}]
GivesUp(f) == flush' = [flush EXCEPT ![f] = Idle]

(* One request of a batch, from f to c.  An agent's request reaches the      *)
(* controller its Service chose and, from a standby, the one that standby    *)
(* takes for the leader: any of them.  The request is answered; or it is     *)
(* handled and the answer is lost; or it never arrives.  In the last two     *)
(* cases Flush returns at once, and the batch stays queued for all targets.  *)
Deliver(f, c) ==
    /\ flush[f] # Idle /\ c \in flush[f].todo
    /\ Ingest(c, flush[f].batch)
    /\ \/ Answered(f, c) /\ UNCHANGED <<faults, repeats>>
       \/ Fault /\ GivesUp(f) /\ repeats' = TRUE
    /\ UNCHANGED <<mode, leader, recorded, elections>>

DeliveryFails(f, c) ==
    /\ flush[f] # Idle /\ c \in flush[f].todo
    /\ IF mode[c] = "up" THEN Fault ELSE UNCHANGED faults
    /\ GivesUp(f)
    /\ repeats' = (repeats \/ Cardinality(Controllers) > 2)
    /\ UNCHANGED <<buf, nextSeq, logs, mode, leader, recorded, elections, dropped, owed>>

-----------------------------------------------------------------------------
(* Processes *)

(* A controller has events that its peers do not have yet. *)
Copying == \E d \in Controllers : buf[d] # <<>>

(* c wins an election: it leads from now on, and the one before does not.    *)
(* Batches still queued by the old leader reach the new one, which copies    *)
(* them back.                                                                *)
Elect(c) ==
    /\ mode[c] \in {"backfilled", "up"} /\ leader # c
    /\ elections < MaxElections /\ elections' = elections + 1
    /\ leader' = c
    /\ repeats' = (repeats \/ Copying)
    /\ UNCHANGED <<forwarding, logs, mode, recorded, faults, dropped, owed>>

Stops(f, log) ==
    /\ buf' = [buf EXCEPT ![f] = <<>>]
    /\ nextSeq' = [nextSeq EXCEPT ![f] = 0]
    /\ flush' = [flush EXCEPT ![f] = Idle]
    /\ dropped' = [dropped EXCEPT ![f] = @ \cup log \cup {buf[f][i].ev : i \in DOMAIN buf[f]}]

AgentRestarts(a) ==
    /\ buf[a] # <<>> /\ Fault
    /\ Stops(a, {})
    /\ UNCHANGED <<logs, mode, leader, recorded, elections, owed, repeats>>

(* A controller process ends; its file stays, or goes with a deleted pod.    *)
ControllerStops(c) ==
    /\ mode[c] # "down" /\ Fault
    /\ mode' = [mode EXCEPT ![c] = "down"]
    /\ Stops(c, stored[c])
    /\ ring' = [ring EXCEPT ![c] = <<>>]
    /\ stored' = [stored EXCEPT ![c] = {}]
    /\ nextID' = [nextID EXCEPT ![c] = 1]
    /\ broken' = broken \ {c}
    /\ \/ UNCHANGED <<file, misread>>
       \/ file' = [file EXCEPT ![c] = <<>>] /\ misread' = misread \ {c}
    /\ leader' = IF leader = c THEN NoOne ELSE leader
    /\ owed' = [owed EXCEPT ![c] = [d \in Controllers |-> {}]]
    /\ UNCHANGED <<recorded, elections, repeats>>

(* EnablePersistence: loadFromFile takes the lines up to the end of the file *)
(* or up to a failure to open or to read it; the ring keeps the last MaxLen, *)
(* and the next id comes after the greatest.  Whatever was read, the file is *)
(* then opened for append, which may fail too: no line is written then.      *)
ResumeID(lines) == IF lines = <<>> THEN 1 ELSE Max({lines[i].id : i \in DOMAIN lines}) + 1
LoadFromFile(c) ==
    /\ mode[c] = "down"
    /\ mode' = [mode EXCEPT ![c] = "loaded"]
    /\ \E n \in 0..Len(file[c]) :
          LET lines == SubSeq(file[c], 1, n)
          IN  /\ ring' = [ring EXCEPT ![c] = Ring(lines)]
              /\ nextID' = [nextID EXCEPT ![c] = ResumeID(lines)]
              /\ stored' = [stored EXCEPT ![c] = {lines[i].ev : i \in DOMAIN lines}]
              /\ misread' = IF n = Len(file[c]) THEN misread ELSE misread \cup {c}
              /\ repeats' = (repeats \/ n # Len(file[c]))
    /\ broken' \in {broken, broken \cup {c}}
    /\ c \in broken' \cup misread' => FileError(c)
    /\ owed' = [d \in Controllers |-> [owed[d] EXCEPT ![c] = {}]]
    /\ UNCHANGED <<forwarding, file, leader, recorded, faults, elections, dropped>>

(* Backfill: only into an empty log, from the first peer that answers with   *)
(* events, oldest first; nothing when the log has events or no peer answers. *)
(* What a peer answers may still be in its queue, or in that of a third.     *)
AnyLog(c) == TRUE
EmptyLog(c) == ring[c] = <<>>
Backfill(c) ==
    /\ mode[c] = "loaded"
    /\ mode' = [mode EXCEPT ![c] = "backfilled"]
    /\ \/ /\ EmptyLog(c)
          /\ \E d \in Peers(c) :
               /\ mode[d] = "up" /\ ring[d] # <<>>
               /\ Record(c, [i \in DOMAIN ring[d] |-> ring[d][i].ev])
               /\ repeats' = (repeats \/ Copying)
          /\ UNCHANGED faults
       \/ /\ IF EmptyLog(c) /\ \E d \in Peers(c) : mode[d] = "up" /\ ring[d] # <<>>
             THEN Fault ELSE UNCHANGED faults
          /\ UNCHANGED <<logs, repeats>>
    /\ UNCHANGED <<forwarding, leader, recorded, elections, dropped, owed>>

Serve(c) ==
    /\ mode[c] = "backfilled"
    /\ mode' = [mode EXCEPT ![c] = "up"]
    /\ UNCHANGED <<forwarding, logs, leader, recorded, faults, elections, dropped, owed, repeats>>

Next ==
    \/ \E a \in Agents : RecordOnNode(a) \/ AgentRestarts(a)
    \/ \E f \in Forwarders : FlushStart(f) \/ FlushDone(f)
    \/ \E f \in Forwarders, c \in Controllers : Deliver(f, c) \/ DeliveryFails(f, c)
    \/ \E c \in Controllers : \/ RecordOnController(c) \/ Elect(c) \/ ControllerStops(c)
                              \/ LoadFromFile(c) \/ Backfill(c) \/ Serve(c)

Spec == Init /\ [][Next]_vars

-----------------------------------------------------------------------------
(* Properties *)

Pending(f) == {buf[f][i].ev : i \in DOMAIN buf[f]}
EventsOf(c) == [i \in DOMAIN ring[c] |-> ring[c][i].ev]

(* An event is queued or stored somewhere, or was counted as dropped or went  *)
(* with a process, or is of no watched namespace: Flush forgets what it sent *)
(* by number, not by place, so events that arrive or are dropped while the   *)
(* request is under way are never taken for sent ones.                       *)
NothingLost ==
    \A e \in 1..recorded :
        \/ e \in Unwatched
        \/ \E f \in Forwarders : e \in Pending(f) \cup dropped[f]
        \/ \E c \in Controllers : e \in stored[c]

(* What a peer that runs since is missing of the events that c queued for it *)
(* is still queued, or was counted as dropped (Flush removes what was sent   *)
(* by number, and only after every target took it).                          *)
CopiesArrive ==
    \A c \in Controllers : \A d \in Controllers \ {c} :
        mode[d] # "down" => owed[c][d] \ stored[d] \subseteq Pending(c) \cup dropped[c] \cup Unwatched

(* No event is lost on its way: not between an agent and the controllers,    *)
(* nor between the leader and the other logs.                                *)
EventsArrive == NothingLost /\ CopiesArrive

(* No log holds an event twice, unless an answer was lost, a request failed  *)
(* between more than two controllers, the leader changed or a backfill ran   *)
(* while events were still to be copied, or a file was not read to its end   *)
(* (a backfill then copies what the rest of the file holds).                 *)
NoRepeats == ~repeats => \A c \in Controllers : IsInjective(EventsOf(c))

(* A new event gets an id greater than every id in the ring, whatever was    *)
(* read of the file and however often writes failed (loadFromFile goes on    *)
(* after the greatest id it read); and as long as the file was always read   *)
(* to its end, ids increase from line to line and from event to event.       *)
IdsIncrease ==
    \A c \in Controllers :
        /\ \A i \in DOMAIN ring[c] : ring[c][i].id < nextID[c]
        /\ c \notin misread =>
              /\ \A i, j \in DOMAIN file[c] : i < j => file[c][i].id < file[c][j].id
              /\ \A i, j \in DOMAIN ring[c] : i < j => ring[c][i].id < ring[c][j].id

(* Each log is a history in order: no event more often than the causes above *)
(* explain, and ids that increase across restarts, backfills and failed      *)
(* writes.  The ids of events whose lines were not written, or not read, are *)
(* given out again after a restart.                                          *)
LogInOrder == NoRepeats /\ IdsIncrease
====
