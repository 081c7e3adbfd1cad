------------------------------ MODULE PolicyStore ------------------------------
(***************************************************************************)
(* The AutoRemediationPolicies of a process: an informer (crd/controller.go)*)
(* reads them and rebuilds the store (crd/store.go) after every change, one *)
(* namespace after the other, while the gate, the scaler and the handlers   *)
(* read it (kube/policycheck.go).                                           *)
(***************************************************************************)
EXTENDS Integers, FiniteSets

CONSTANTS
    Names,        \* names of policies
    Ns,           \* Ns[n]: the namespace of n
    Written,      \* Written[n]: the objects that users may write as n
    Absent,       \* what n is when there is no such object
    Half,         \* int32 goes from -Half to Half - 1: 2^31
    TooBig        \* the int32 that the build makes of a float64 outside

-----------------------------------------------------------------------------
(* parse.  A number in an object is a pair of its type and its value: the    *)
(* JSON decoder gives a whole number as int64 and another one as float64.    *)

Number(v) == IF v[1] \in {"int64", "float64"} THEN v[2] ELSE 0

(* The one field that is read as float64 alone.                              *)
Float(v) == IF v[1] = "float64" THEN v[2] ELSE 0

(* int32(v): an int64 that does not fit wraps, and Go leaves it to the build *)
(* what becomes of a float64.  The schema bounds replicas only from below.   *)
Fits(i) == i \in (-Half)..(Half - 1)
int32(v) ==
    LET i == Number(v)
    IN  IF Fits(i) THEN i ELSE IF v[1] = "int64" THEN ((i + Half) % (2 * Half)) - Half ELSE TooBig

parseScaleConfig(s) ==
    [enabled |-> s.enabled, min |-> int32(s.min), max |-> int32(s.max), step |-> int32(s.step),
     override |-> s.override]

parse(n, u) ==
    [name |-> n, selector |-> u.selector, restart |-> u.restart, bump |-> Number(u.bump),
     scale |-> parseScaleConfig(u.scale), cooldown |-> u.cooldown, perHour |-> Number(u.perHour),
     approval |-> u.approval,
     rules |-> {[promql |-> r.promql, threshold |-> Float(r.threshold)] : r \in u.rules}]

Parses(u) == u # Absent /\ u.spec

-----------------------------------------------------------------------------
VARIABLES
    objects,      \* objects[n]: n in the API server
    cached,       \* cached[n]: n in the informer's store
    due,          \* a notification waits for the informer's goroutine
    sync,         \* the syncAll that runs
    byNS,         \* Store.byNS: the policies of each namespace, {} if it has no key
    held          \* history: the store was given n as it is now

vars == <<objects, cached, due, sync, byNS, held>>

Namespaces == {Ns[n] : n \in Names}
Off == [on |-> FALSE, nsMap |-> [s \in Namespaces |-> {}], gone |-> {}, next |-> {}, current |-> {}]

(* The store holds parsed policies of its namespaces.                        *)
TypeOK ==
    /\ \A n \in Names : objects[n] \in Written[n] \cup {Absent} /\ cached[n] \in Written[n] \cup {Absent}
    /\ due \in BOOLEAN /\ sync.on \in BOOLEAN
    /\ \A s \in Namespaces : \A p \in byNS[s] : Ns[p.name] = s
    /\ held \subseteq Names

Init ==
    /\ objects \in [Names -> UNION {Written[n] : n \in Names} \cup {Absent}]
    /\ \A n \in Names : objects[n] \in Written[n] \cup {Absent}
    /\ cached = [n \in Names |-> Absent] /\ due = FALSE /\ sync = Off
    /\ byNS = [s \in Namespaces |-> {}] /\ held = {}

(* A user writes or deletes an object.                                       *)
ObjectChanges(n) ==
    /\ \E u \in (Written[n] \cup {Absent}) \ {objects[n]} : objects' = [objects EXCEPT ![n] = u]
    /\ held' = held \ {n} /\ sync' = [sync EXCEPT !.current = @ \ {n}]
    /\ UNCHANGED <<cached, due, byNS>>

(* The informer stores a change and notifies its handlers.                   *)
Notify(n) ==
    /\ cached[n] # objects[n] /\ cached' = [cached EXCEPT ![n] = objects[n]]
    /\ due' = TRUE
    /\ UNCHANGED <<objects, sync, byNS, held>>

(* syncAll parses what the informer has; an object it cannot parse is left   *)
(* out.  Namespaces that have none any more are deleted.                     *)
SyncStartClears ==
    /\ due /\ ~sync.on /\ due' = FALSE
    /\ LET nsMap == [s \in Namespaces |-> {parse(n, cached[n]) : n \in {m \in Names : Ns[m] = s /\ Parses(cached[m])}}]
       IN  sync' = [on |-> TRUE, nsMap |-> nsMap, gone |-> Namespaces,
                    next |-> {s \in Namespaces : nsMap[s] # {}},
                    current |-> {n \in Names : cached[n] = objects[n]}]
    /\ UNCHANGED <<objects, cached, byNS, held>>
SyncStart ==
    /\ due /\ ~sync.on /\ due' = FALSE
    /\ LET nsMap == [s \in Namespaces |-> {parse(n, cached[n]) : n \in {m \in Names : Ns[m] = s /\ Parses(cached[m])}}]
       IN  sync' = [on |-> TRUE, nsMap |-> nsMap,
                    gone |-> {s \in Namespaces : byNS[s] # {} /\ nsMap[s] = {}},
                    next |-> {s \in Namespaces : nsMap[s] # {}},
                    current |-> {n \in Names : cached[n] = objects[n]}]
    /\ UNCHANGED <<objects, cached, byNS, held>>

SyncDelete ==
    /\ sync.on /\ \E s \in sync.gone :
          /\ byNS' = [byNS EXCEPT ![s] = {}]
          /\ sync' = [sync EXCEPT !.gone = @ \ {s}]
    /\ UNCHANGED <<objects, cached, due, held>>

(* Namespaces are replaced in any order, each as a whole.                    *)
SyncUpdate ==
    /\ sync.on /\ sync.gone = {} /\ \E s \in sync.next :
          /\ byNS' = [byNS EXCEPT ![s] = sync.nsMap[s]]
          /\ sync' = [sync EXCEPT !.next = @ \ {s}]
          /\ held' = held \cup {n \in sync.current : Ns[n] = s /\ Parses(objects[n])}
    /\ UNCHANGED <<objects, cached, due>>

SyncEnd ==
    /\ sync.on /\ sync.gone = {} /\ sync.next = {} /\ sync' = Off
    /\ UNCHANGED <<objects, cached, due, byNS, held>>

(* A new process starts with an empty store and does not wait for the first  *)
(* list.                                                                     *)
Restart ==
    /\ cached' = [n \in Names |-> Absent] /\ due' = FALSE /\ sync' = Off
    /\ byNS' = [s \in Namespaces |-> {}] /\ held' = {}
    /\ UNCHANGED objects

Next ==
    \/ \E n \in Names : ObjectChanges(n) \/ Notify(n)
    \/ SyncStart \/ SyncDelete \/ SyncUpdate \/ SyncEnd \/ Restart

Spec == Init /\ [][Next]_vars

-----------------------------------------------------------------------------
(* What readers do with the store. *)

(* Store.Match and effectivePolicy: the first match counts, in the order of  *)
(* the informer's map, so any of them; {} is no policy.                      *)
Match(s, labels) == {p \in byNS[s] : p.selector \subseteq labels}
effectivePolicy(s, labels) == IF Match(s, labels) = {} THEN {{}} ELSE {{p} : p \in Match(s, labels)}

(* policyRefusal, for an action with so many uses of the hourly budget.      *)
policyRefusal(pol, action, used) ==
    \E p \in pol :
        \/ p.approval
        \/ action = "delete_pod" /\ p.restart = "false"
        \/ p.perHour > 0 /\ used >= p.perHour

-----------------------------------------------------------------------------
(* Properties. *)

(* A policy that the store was given as it is now stays in force, whatever   *)
(* happens to other policies of its namespace and of others: at no moment    *)
(* between the steps of a synchronisation does a reader miss it.  So a pod   *)
(* that only it selects never escapes the approval it requires.              *)
NoGap ==
    \A n \in held :
        LET u == objects[n]
            others == {p \in byNS[Ns[n]] : p.name # n}
        IN  /\ parse(n, u) \in byNS[Ns[n]]
            /\ u.approval /\ others = {} =>
                  \A pol \in effectivePolicy(Ns[n], u.selector) : policyRefusal(pol, "delete_pod", 0)

(* A stored policy has what the object says, whatever the type of its        *)
(* numbers, but for numbers of replicas beyond int32.  Thresholds of anomaly *)
(* rules are left out: a whole one is not read.                              *)
Agrees(p, u) ==
    /\ p.approval = u.approval /\ p.bump = u.bump[2] /\ p.perHour = u.perHour[2]
    /\ p.scale.enabled = u.scale.enabled /\ p.scale.override = u.scale.override
    /\ Fits(u.scale.min[2]) => p.scale.min = u.scale.min[2]
    /\ Fits(u.scale.max[2]) => p.scale.max = u.scale.max[2]
    /\ Fits(u.scale.step[2]) => p.scale.step = u.scale.step[2]

(* Once the informer has caught up and no synchronisation is under way, the  *)
(* store has the objects of all namespaces and no other, each as it says.    *)
StoreFollows ==
    cached = objects /\ ~due /\ ~sync.on =>
        \A s \in Namespaces :
            /\ {p.name : p \in byNS[s]} = {n \in Names : Ns[n] = s /\ Parses(objects[n])}
            /\ \A p \in byNS[s] : Agrees(p, objects[p.name])

(* The policies in force are the stored ones, at rest and in between.        *)
PolicyInForce == NoGap /\ StoreFollows
================================================================================
