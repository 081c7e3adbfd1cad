--------------------------- MODULE PolicyReloadProofs ---------------------------
(***************************************************************************)
(* What is proved of the policy snapshot (see PolicyReload), for any agents, *)
(* namespaces, settings, choices and bounds: during a start an agent fixes   *)
(* nowhere until it has read whether there is a choice, and a choice that    *)
(* was stored before holds throughout.                                       *)
(*                                                                           *)
(* The argument.  A start puts the empty choice in place, and a reload of    *)
(* the settings keeps whatever choice there is.  As long as the stored       *)
(* choice is not written, the informer's store and every notification on its *)
(* way to the handlers hold that one, and Start, which would remove the      *)
(* choice, has looked and found none.                                        *)
(***************************************************************************)
EXTENDS PolicyReload, SequenceTheorems, TLAPS

(* Nothing is left of a process that ended. *)
DownInv ==
    \A a \in Agents : ~Up(a) => heard[a] = {} /\ cache[a] = Unsynced /\ events[a] = <<>>

(* Until it has read the choice, an agent has the empty one.  Start knows   *)
(* before it removes it.                                                    *)
HeardInv ==
    \A a \in Agents : Up(a) => /\ heard[a] = {} => pol[a].override = {{}}
                               /\ phase[a] = "checked" => heard[a] # {}

(* A notification of the choice that is stored. *)
Stored(e) == e.obj = "scope" => e.kind # "delete" /\ e.data = scopeMap

(* A ConfigMap that does not exist holds no choice. *)
MapInv == ~scopeMap.exists => scopeMap.key = {}

(* Whoever started after the last write of the choice knows no other. *)
StoredInv ==
    \A a \in Agents : Up(a) /\ a \notin moved =>
        /\ cache[a].synced => cache[a].scope = scopeMap
        /\ \A n \in 1..Len(events[a]) : Stored(events[a][n])
        /\ phase[a] = "checked" => ~scopeMap.exists
        /\ scopeMap.key = {} \/ pol[a].override \in {{{}}, scopeMap.key}

IndInv == TypeOK /\ DownInv /\ HeardInv /\ MapInv /\ StoredInv

--------------------------------------------------------------------------------
(* Lemmas on the operators. *)

(* A missing value is replaced by the default, a value is kept. *)
LEMMA OrType ==
    ASSUME NEW S, NEW opt \in Maybe(S), NEW default \in S
    PROVE  Or(opt, default) \in S
BY DEF Or, Maybe

(* The same for number keys, of which any may be there. *)
LEMMA OrNumber ==
    ASSUME NEW opt \in SUBSET Int, NEW default \in Int
    PROVE  Or(opt, default) \in Int
BY DEF Or

(* AUTO_MODE is one of the modes, whatever the settings hold. *)
LEMMA ModeType ==
    ASSUME NEW opt \in Maybe(Modes \cup {"not a mode"}), NEW bad \in Modes, NEW default \in Modes
    PROVE  ModeOr(opt, bad, default) \in Modes
<1>1. CASE opt = {"not a mode"}
  BY <1>1 DEF ModeOr
<1>2. CASE opt # {"not a mode"}
  <2>1. opt \in Maybe(Modes)
    BY <1>2 DEF Maybe
  <2> QED
    BY <1>2, <2>1, OrType DEF ModeOr
<1> QED
  BY <1>1, <1>2

(* The one value of an option is the one that Or gives. *)
LEMMA OrOne ==
    ASSUME NEW x, NEW default
    PROVE  Or({x}, default) = x
BY DEF Or

(* Load gives a policy, without a choice. *)
LEMMA LoadType ==
    ASSUME NEW c \in Config
    PROVE  Load(c) \in Policy
<1>1. /\ c.mode \in Maybe(Modes \cup {"not a mode"}) /\ c.watch \in Maybe(SUBSET Namespaces)
      /\ c.fix \in Maybe(SUBSET Namespaces) /\ c.min \in SUBSET Int /\ c.max \in SUBSET Int
  BY DEF Config
<1>2. ModeOr(c.mode, "observe", "dry-run") \in Modes
  BY <1>1, ModeType DEF Modes
<1>3. Or(c.watch, Namespaces) \in SUBSET Namespaces /\ Or(c.fix, {}) \in SUBSET Namespaces
  BY <1>1, OrType
<1>4. Or(c.min, 1) \in Int /\ Or(c.max, 50) \in Int
  <2>1. 1 \in Int /\ 50 \in Int
    OBVIOUS
  <2> QED
    BY <1>1, <2>1, OrNumber, Zenon
<1>5. {} \in Maybe(SUBSET Namespaces)
  BY DEF Maybe
<1> QED
  BY <1>2, <1>3, <1>4, <1>5 DEF Load, Policy

(* A reload gives a policy with the same choice, and a valid one if it was. *)
LEMMA ReloadType ==
    ASSUME NEW p \in Policy, NEW c \in Config
    PROVE  /\ Reload(p, c) \in Policy /\ Reload(p, c).override = p.override
           /\ Validate(p) => Validate(Reload(p, c))
<1>1. /\ c.mode \in Maybe(Modes \cup {"not a mode"}) /\ c.watch \in Maybe(SUBSET Namespaces)
      /\ c.fix \in Maybe(SUBSET Namespaces) /\ c.min \in SUBSET Int /\ c.max \in SUBSET Int
  BY DEF Config
<1>2. /\ p.mode \in Modes /\ p.watch \in SUBSET Namespaces /\ p.fix \in SUBSET Namespaces
      /\ p.min \in Int /\ p.max \in Int /\ p.override \in Maybe(SUBSET Namespaces)
  BY DEF Policy
<1>3. ModeOr(c.mode, p.mode, p.mode) \in Modes
  BY <1>1, <1>2, ModeType
<1>4. Or(c.watch, p.watch) \in SUBSET Namespaces /\ Or(c.fix, p.fix) \in SUBSET Namespaces
  BY <1>1, <1>2, OrType
<1>5. Or(c.min, p.min) \in Int /\ Or(c.max, p.max) \in Int
  BY <1>1, <1>2, OrNumber
<1>6. ApplyConfigMapData(p, c) \in Policy /\ ApplyConfigMapData(p, c).override = p.override
  BY <1>2, <1>3, <1>4, <1>5 DEF ApplyConfigMapData, Policy
<1> QED
  BY <1>6 DEF Reload

(* A choice replaces the one before and nothing else. *)
LEMMA OverrideType ==
    ASSUME NEW p \in Policy, NEW names \in Maybe(SUBSET Namespaces)
    PROVE  /\ WithFixOverride(p, names) \in Policy /\ WithFixOverride(p, names).override = names
           /\ Validate(p) => Validate(WithFixOverride(p, names))
BY DEF WithFixOverride, Policy, Validate

(* An agent fixes only where its choice, if it has one, allows. *)
LEMMA ScopeInChoice ==
    ASSUME NEW p, NEW names, p.override = {names}
    PROVE  FixScope(p) \subseteq names
BY OrOne DEF FixScope, FixChoice

(* The notifications for what the informer has are events. *)
LEMMA AllObjectsType ==
    ASSUME NEW kind \in {"add", "update", "delete"}, NEW c \in Config, NEW s \in ScopeMap
    PROVE  /\ AllObjects(kind, c, s) \in Seq(Event)
           /\ \A n \in 1..Len(AllObjects(kind, c, s)) :
                 AllObjects(kind, c, s)[n].obj = "scope" =>
                     AllObjects(kind, c, s)[n] = ScopeEvent(kind, s)
<1>1. ConfigEvent(kind, c) \in Event /\ ScopeEvent(kind, s) \in Event
      /\ ConfigEvent(kind, c).obj = "config"
  BY DEF ConfigEvent, ScopeEvent, Event
<1>2. CASE s.exists
  <2>1. PICK x, y : x = <<ConfigEvent(kind, c)>> /\ y = <<ScopeEvent(kind, s)>>
    OBVIOUS
  <2>2. x \in Seq(Event) /\ y \in Seq(Event) /\ Len(x) = 1 /\ Len(y) = 1
    BY <1>1, <2>1
  <2>3. AllObjects(kind, c, s) = x \o y
    BY <1>2, <2>1 DEF AllObjects
  <2>4. /\ x \o y \in Seq(Event) /\ Len(x \o y) = 2
        /\ (x \o y)[1] = x[1] /\ (x \o y)[2] = y[1]
    <3>1. /\ x \o y \in Seq(Event) /\ Len(x \o y) = Len(x) + Len(y)
          /\ \A i \in 1..(Len(x) + Len(y)) :
                (x \o y)[i] = IF i <= Len(x) THEN x[i] ELSE y[i - Len(x)]
      BY <2>2, ConcatProperties
    <3> QED
      BY <2>2, <3>1
  <2>5. (x \o y)[1] = ConfigEvent(kind, c) /\ (x \o y)[2] = ScopeEvent(kind, s)
    BY <2>1, <2>4
  <2> QED
    BY <1>1, <2>3, <2>4, <2>5
<1>3. CASE ~s.exists
  <2>1. AllObjects(kind, c, s) = <<ConfigEvent(kind, c)>>
    BY <1>3 DEF AllObjects
  <2> QED
    BY <1>1, <2>1
<1> QED
  BY <1>2, <1>3

(* The handlers get new notifications after those that they have not handled. *)
LEMMA NotifyAppends ==
    ASSUME TypeOK, NEW a \in Agents, NEW new \in Seq(Event), Notify(a, new)
    PROVE  /\ events' \in [Agents -> Seq(Event)]
           /\ \A b \in Agents : b # a => events'[b] = events[b]
           /\ \A n \in 1..Len(events'[a]) :
                 \/ \E m \in 1..Len(events[a]) : events'[a][n] = events[a][m]
                 \/ \E m \in 1..Len(new) : events'[a][n] = new[m]
<1>1. events \in [Agents -> Seq(Event)]
  BY DEF TypeOK
<1>2. events'[a] = events[a] \o new /\ events[a] \in Seq(Event)
  BY <1>1 DEF Notify
<1>3. events' \in [Agents -> Seq(Event)] /\ \A b \in Agents : b # a => events'[b] = events[b]
  BY <1>1 DEF Notify
<1>4. ASSUME NEW n \in 1..Len(events'[a])
      PROVE  \/ \E m \in 1..Len(events[a]) : events'[a][n] = events[a][m]
             \/ \E m \in 1..Len(new) : events'[a][n] = new[m]
  <2>1. Len(events'[a]) = Len(events[a]) + Len(new)
    BY <1>2
  <2>2. CASE n <= Len(events[a])
    BY <1>2, <2>2
  <2>3. CASE n > Len(events[a])
    <3>1. n - Len(events[a]) \in 1..Len(new) /\ events'[a][n] = new[n - Len(events[a])]
      BY <1>2, <2>1, <2>3
    <3> QED
      BY <3>1
  <2> QED
    BY <1>2, <2>2, <2>3
<1> QED
  BY <1>3, <1>4

--------------------------------------------------------------------------------
(* One lemma for each group of steps. *)

(* The informer notifies: what it has goes to its store and to the handlers. *)
(* If the agent started after the last write, both are the stored choice.    *)
LEMMA Notified ==
    ASSUME IndInv, NEW a \in Agents, Up(a), NEW new \in Seq(Event), Notify(a, new),
           cache' \in [Agents -> [synced : BOOLEAN, config : SUBSET Configs, scope : ScopeMap]],
           \A b \in Agents : b # a => cache'[b] = cache[b],
           a \notin moved => /\ cache'[a].synced => cache'[a].scope = scopeMap
                             /\ \A n \in 1..Len(new) : Stored(new[n]),
           UNCHANGED <<config, scopeMap, phase, pol, save, heard, moved, counts>>
    PROVE  IndInv'
<1>1. /\ events' \in [Agents -> Seq(Event)]
      /\ \A b \in Agents : b # a => events'[b] = events[b]
      /\ \A n \in 1..Len(events'[a]) :
            \/ \E m \in 1..Len(events[a]) : events'[a][n] = events[a][m]
            \/ \E m \in 1..Len(new) : events'[a][n] = new[m]
  BY NotifyAppends DEF IndInv
<1>2. TypeOK'
  BY <1>1 DEF IndInv, TypeOK, SnapshotsValid, Up, counts
<1>3. DownInv'
  BY <1>1 DEF IndInv, DownInv, Up
<1>4. HeardInv' /\ MapInv'
  BY DEF IndInv, HeardInv, MapInv, Up
<1>5. StoredInv'
  <2>1. SUFFICES ASSUME NEW b \in Agents, Up(b), b \notin moved
                 PROVE  /\ cache'[b].synced => cache'[b].scope = scopeMap
                        /\ \A n \in 1..Len(events'[b]) : Stored(events'[b][n])
                        /\ phase[b] = "checked" => ~scopeMap.exists
                        /\ scopeMap.key = {} \/ pol[b].override \in {{{}}, scopeMap.key}
    BY DEF StoredInv, Stored, Up
  <2>2. /\ cache[b].synced => cache[b].scope = scopeMap
        /\ \A n \in 1..Len(events[b]) : Stored(events[b][n])
        /\ phase[b] = "checked" => ~scopeMap.exists
        /\ scopeMap.key = {} \/ pol[b].override \in {{{}}, scopeMap.key}
    BY <2>1 DEF IndInv, StoredInv
  <2>3. \A n \in 1..Len(events'[b]) : Stored(events'[b][n])
    <3>1. CASE b = a
      BY <1>1, <2>1, <2>2, <3>1
    <3>2. CASE b # a
      BY <1>1, <2>2, <3>2
    <3> QED
      BY <3>1, <3>2
  <2> QED
    BY <2>1, <2>2, <2>3
<1> QED
  BY <1>2, <1>3, <1>4, <1>5 DEF IndInv

(* The informer lists, watches and resyncs.                                  *)
LEMMA InformerStep ==
    ASSUME IndInv, NEW a \in Agents, Informer(a)
    PROVE  IndInv'
<1>1. /\ cache \in [Agents -> [synced : BOOLEAN, config : SUBSET Configs, scope : ScopeMap]]
      /\ config \in Configs /\ Configs \subseteq Config /\ scopeMap \in ScopeMap
  BY PolicyReloadAssumption DEF IndInv, TypeOK
<1>2. cache[a] \in [synced : BOOLEAN, config : SUBSET Configs, scope : ScopeMap]
  BY <1>1
<1>3. cache[a].synced => Up(a)
  BY DEF IndInv, DownInv, Unsynced
<1>4. a \notin moved /\ cache[a].synced => cache[a].scope = scopeMap
  BY <1>3 DEF IndInv, StoredInv
<1>5. ASSUME NEW kind \in {"add", "update"}, NEW c \in Config, NEW s \in ScopeMap,
             a \notin moved => s = scopeMap
      PROVE  /\ AllObjects(kind, c, s) \in Seq(Event)
             /\ a \notin moved => \A n \in 1..Len(AllObjects(kind, c, s)) :
                                      Stored(AllObjects(kind, c, s)[n])
  <2>1. /\ AllObjects(kind, c, s) \in Seq(Event)
        /\ \A n \in 1..Len(AllObjects(kind, c, s)) :
              AllObjects(kind, c, s)[n].obj = "scope" =>
                  AllObjects(kind, c, s)[n] = ScopeEvent(kind, s)
    BY AllObjectsType
  <2>2. ScopeEvent(kind, s).kind = kind /\ ScopeEvent(kind, s).data = s
    BY DEF ScopeEvent
  <2> QED
    BY <1>5, <2>1, <2>2 DEF Stored
<1>6. CASE ListObjects(a)
  <2>1. /\ cache' = [cache EXCEPT ![a] =
                       [synced |-> TRUE, config |-> {config}, scope |-> scopeMap]]
        /\ Notify(a, AllObjects("add", config, scopeMap)) /\ Up(a)
    BY <1>6 DEF ListObjects, Up
  <2>2. cache' \in [Agents -> [synced : BOOLEAN, config : SUBSET Configs, scope : ScopeMap]]
        /\ cache'[a].scope = scopeMap
        /\ \A b \in Agents : b # a => cache'[b] = cache[b]
    BY <1>1, <2>1
  <2> QED
    BY <1>1, <1>5, <1>6, <2>1, <2>2, Notified DEF ListObjects
<1>7. CASE ObserveConfig(a)
  <2>1. cache' = [cache EXCEPT ![a] = [cache[a] EXCEPT !.config = {config}]]
        /\ Notify(a, <<ConfigEvent("update", config)>>) /\ cache[a].synced
    BY <1>7 DEF ObserveConfig
  <2>2. cache' \in [Agents -> [synced : BOOLEAN, config : SUBSET Configs, scope : ScopeMap]]
        /\ cache'[a].scope = cache[a].scope
        /\ \A b \in Agents : b # a => cache'[b] = cache[b]
    BY <1>1, <1>2, <2>1
  <2>3. ConfigEvent("update", config) \in Event /\ ConfigEvent("update", config).obj = "config"
    BY <1>1 DEF ConfigEvent, Event
  <2>4. /\ <<ConfigEvent("update", config)>> \in Seq(Event)
        /\ \A n \in 1..Len(<<ConfigEvent("update", config)>>) :
              Stored(<<ConfigEvent("update", config)>>[n])
    BY <2>3 DEF Stored
  <2> QED
    BY <1>3, <1>4, <1>7, <2>1, <2>2, <2>4, Notified DEF ObserveConfig
<1>8. CASE ObserveScope(a)
  <2>1. PICK e : /\ Notify(a, <<e>>) /\ cache[a].synced /\ cache[a].scope # scopeMap
                 /\ \/ e = ScopeEvent("add", scopeMap) \/ e = ScopeEvent("update", scopeMap)
                    \/ e = ScopeEvent("delete", cache[a].scope)
                 /\ cache' = [cache EXCEPT ![a] = [cache[a] EXCEPT !.scope = scopeMap]]
    BY <1>8 DEF ObserveScope
  <2>2. cache' \in [Agents -> [synced : BOOLEAN, config : SUBSET Configs, scope : ScopeMap]]
        /\ \A b \in Agents : b # a => cache'[b] = cache[b]
    BY <1>1, <1>2, <2>1
  <2>3. e \in Event
    BY <1>1, <1>2, <2>1 DEF ScopeEvent, Event
  <2>4. a \in moved
    BY <1>4, <2>1
  <2>5. <<e>> \in Seq(Event)
    BY <2>3
  <2> QED
    BY <1>3, <1>8, <2>1, <2>2, <2>4, <2>5, Notified DEF ObserveScope
<1>9. CASE Resync(a)
  <2>1. PICK c \in cache[a].config : Notify(a, AllObjects("update", c, cache[a].scope))
    BY <1>9 DEF Resync
  <2>2. c \in Config /\ cache[a].scope \in ScopeMap /\ cache[a].synced
    BY <1>1, <1>2, <1>9 DEF Resync
  <2> QED
    BY <1>1, <1>3, <1>4, <1>5, <1>9, <2>1, <2>2, Notified DEF Resync
<1> QED
  BY <1>6, <1>7, <1>8, <1>9 DEF Informer

(* A handler takes the first notification.                                   *)
LEMMA DeliverStep ==
    ASSUME IndInv, NEW a \in Agents, Deliver(a)
    PROVE  IndInv'
<1>1. /\ events \in [Agents -> Seq(Event)] /\ pol \in [Agents -> Policy]
      /\ heard \in [Agents -> Maybe(Maybe(SUBSET Namespaces))] /\ scopeMap \in ScopeMap
      /\ SnapshotsValid
  BY DEF IndInv, TypeOK
<1>2. events[a] \in Seq(Event) /\ events[a] # <<>>
  BY <1>1 DEF Deliver
<1>3. PICK e : e = Head(events[a])
  OBVIOUS
<1>4. e \in Event /\ e = events[a][1] /\ 1 \in 1..Len(events[a])
  BY <1>2, <1>3
<1>5. events' = [events EXCEPT ![a] = Tail(@)]
  BY DEF Deliver
<1>6. /\ events' \in [Agents -> Seq(Event)]
      /\ \A b \in Agents : b # a => events'[b] = events[b]
      /\ \A n \in 1..Len(events'[a]) : \E m \in 1..Len(events[a]) : events'[a][n] = events[a][m]
  <2>1. events' \in [Agents -> Seq(Event)] /\ \A b \in Agents : b # a => events'[b] = events[b]
    BY <1>1, <1>2, <1>5
  <2>2. events'[a] = Tail(events[a])
    BY <1>1, <1>5
  <2>3. ASSUME NEW n \in 1..Len(events'[a])
        PROVE  \E m \in 1..Len(events[a]) : events'[a][n] = events[a][m]
    <3>1. n + 1 \in 1..Len(events[a]) /\ events'[a][n] = events[a][n + 1]
      BY <1>2, <2>2
    <3> QED
      BY <3>1
  <2> QED
    BY <2>1, <2>3
<1>7. Up(a)
  BY <1>2 DEF IndInv, DownInv
<1>8. PICK names \in Maybe(SUBSET Namespaces) :
         \/ /\ pol' = [pol EXCEPT ![a] = WithFixOverride(@, names)]
            /\ heard' = [heard EXCEPT ![a] = {names}]
            /\ a \notin moved => names = scopeMap.key
         \/ heard' = heard /\ pol' = pol
         \/ heard' = heard /\ pol' = [pol EXCEPT ![a] = Reload(@, e.data)] /\ e.data \in Config
  <2>0. {} \in Maybe(SUBSET Namespaces)
    BY DEF Maybe
  <2>1. Handle(a, e)
    BY <1>3 DEF Deliver
  <2>2. a \notin moved => Stored(e)
    BY <1>4, <1>7 DEF IndInv, StoredInv
  <2>3. CASE e.obj = "scope" /\ e.kind \in {"add", "update"} /\ SetScope(a, e.data.key)
    <3>1. e.data \in ScopeMap
      BY <1>4, <2>3 DEF Event
    <3>2. e.data.key \in Maybe(SUBSET Namespaces)
      BY <3>1 DEF ScopeMap
    <3> QED
      BY <2>2, <2>3, <3>2 DEF SetScope, Stored
  <2>4. CASE e.obj = "scope" /\ e.kind = "delete" /\ SetScope(a, {})
    BY <2>0, <2>2, <2>4 DEF SetScope, Stored
  <2>5. CASE /\ e.obj = "config" /\ e.kind = "update"
             /\ pol' = [pol EXCEPT ![a] = Reload(@, e.data)] /\ heard' = heard
    BY <1>4, <2>0, <2>5 DEF Event
  <2>6. CASE UNCHANGED <<pol, heard>>
    BY <2>0, <2>6
  <2> QED
    BY <2>1, <2>3, <2>4, <2>5, <2>6 DEF Handle
<1>9. /\ pol' \in [Agents -> Policy] /\ heard' \in [Agents -> Maybe(Maybe(SUBSET Namespaces))]
      /\ Validate(pol'[a])
      /\ \A b \in Agents : b # a => pol'[b] = pol[b] /\ heard'[b] = heard[b]
      /\ \/ /\ pol'[a].override = names /\ heard'[a] = {names}
            /\ a \notin moved => names = scopeMap.key
         \/ pol'[a].override = pol[a].override /\ heard'[a] = heard[a]
  <2>1. pol[a] \in Policy /\ Validate(pol[a])
    BY <1>1, <1>7 DEF SnapshotsValid
  <2>2. {names} \in Maybe(Maybe(SUBSET Namespaces))
    BY DEF Maybe
  <2>3. CASE /\ pol' = [pol EXCEPT ![a] = WithFixOverride(@, names)]
             /\ heard' = [heard EXCEPT ![a] = {names}]
             /\ a \notin moved => names = scopeMap.key
    <3>1. WithFixOverride(pol[a], names) \in Policy
          /\ WithFixOverride(pol[a], names).override = names
          /\ Validate(WithFixOverride(pol[a], names))
      BY <2>1, OverrideType
    <3> QED
      BY <1>1, <2>2, <2>3, <3>1
  <2>4. CASE heard' = heard /\ pol' = pol
    BY <1>1, <2>1, <2>4
  <2>5. CASE heard' = heard /\ pol' = [pol EXCEPT ![a] = Reload(@, e.data)] /\ e.data \in Config
    <3>1. /\ Reload(pol[a], e.data) \in Policy /\ Reload(pol[a], e.data).override = pol[a].override
          /\ Validate(Reload(pol[a], e.data))
      BY <2>1, <2>5, ReloadType
    <3> QED
      BY <1>1, <2>5, <3>1
  <2> QED
    BY <1>8, <2>3, <2>4, <2>5
<1>10. TypeOK'
  <2>1. SnapshotsValid'
    BY <1>1, <1>9 DEF SnapshotsValid, Up, Deliver
  <2> QED
    BY <1>6, <1>9, <2>1 DEF IndInv, TypeOK, Deliver, counts
<1>11. DownInv'
  BY <1>6, <1>7, <1>9 DEF IndInv, DownInv, Up, Deliver
<1>12. HeardInv' /\ MapInv'
  BY <1>9 DEF IndInv, HeardInv, MapInv, Up, Deliver
<1>13. StoredInv'
  <2>1. SUFFICES ASSUME NEW b \in Agents, Up(b), b \notin moved
                 PROVE  /\ cache[b].synced => cache[b].scope = scopeMap
                        /\ \A n \in 1..Len(events'[b]) : Stored(events'[b][n])
                        /\ phase[b] = "checked" => ~scopeMap.exists
                        /\ scopeMap.key = {} \/ pol'[b].override \in {{{}}, scopeMap.key}
    BY DEF StoredInv, Stored, Up, Deliver
  <2>2. /\ cache[b].synced => cache[b].scope = scopeMap
        /\ \A n \in 1..Len(events[b]) : Stored(events[b][n])
        /\ phase[b] = "checked" => ~scopeMap.exists
        /\ scopeMap.key = {} \/ pol[b].override \in {{{}}, scopeMap.key}
    BY <2>1 DEF IndInv, StoredInv
  <2>3. \A n \in 1..Len(events'[b]) : Stored(events'[b][n])
    <3>1. CASE b = a
      BY <1>6, <2>2, <3>1
    <3>2. CASE b # a
      BY <1>6, <2>2, <3>2
    <3> QED
      BY <3>1, <3>2
  <2>4. scopeMap.key = {} \/ pol'[b].override \in {{{}}, scopeMap.key}
    BY <1>9, <2>1, <2>2
  <2> QED
    BY <2>2, <2>3, <2>4
<1> QED
  BY <1>10, <1>11, <1>12, <1>13 DEF IndInv

(* The process starts, with the empty choice, and ends.                      *)
LEMMA ProcessSteps ==
    ASSUME IndInv, NEW a \in Agents, Boot(a) \/ Die(a)
    PROVE  IndInv'
<1>1. /\ phase \in [Agents -> {"down", "syncing", "checked", "running"}]
      /\ pol \in [Agents -> Policy] /\ boots \in [Agents -> 0..MaxBoots] /\ config \in Config
      /\ MaxBoots \in Nat
      /\ cache \in [Agents -> [synced : BOOLEAN, config : SUBSET Configs, scope : ScopeMap]]
      /\ events \in [Agents -> Seq(Event)]
      /\ heard \in [Agents -> Maybe(Maybe(SUBSET Namespaces))]
      /\ save \in [Agents -> [step  : {"none", "patch", "create"},
                              names : Maybe(SUBSET Namespaces)]]
      /\ SnapshotsValid
  BY PolicyReloadAssumption DEF IndInv, TypeOK
<1>2. CASE Boot(a)
  <2>1. {{}} \in Maybe(SUBSET Namespaces)
    BY DEF Maybe
  <2>2. WithFixOverride(Load(config), {{}}) \in Policy
        /\ WithFixOverride(Load(config), {{}}).override = {{}}
        /\ Validate(WithFixOverride(Load(config), {{}}))
    BY <1>1, <1>2, <2>1, LoadType, OverrideType DEF Boot
  <2>3. /\ pol' \in [Agents -> Policy] /\ pol'[a].override = {{}} /\ Validate(pol'[a])
        /\ phase' \in [Agents -> {"down", "syncing", "checked", "running"}]
        /\ phase'[a] = "syncing"
        /\ \A b \in Agents : b # a => pol'[b] = pol[b] /\ phase'[b] = phase[b]
    BY <1>1, <1>2, <2>2 DEF Boot
  <2>4. boots' \in [Agents -> 0..MaxBoots]
    BY <1>1, <1>2 DEF Boot
  <2>5. /\ heard[a] = {} /\ cache[a] = Unsynced /\ events[a] = <<>> /\ a \notin moved'
        /\ \A b \in Agents : b # a => (b \in moved' <=> b \in moved)
    BY <1>2 DEF Boot, IndInv, DownInv, Up
  <2>6. TypeOK'
    <3>1. SnapshotsValid'
      BY <1>1, <2>3 DEF SnapshotsValid, Up
    <3> QED
      BY <1>2, <2>3, <2>4, <3>1 DEF IndInv, TypeOK, Boot
  <2>7. DownInv' /\ HeardInv' /\ MapInv'
    BY <1>2, <2>3 DEF IndInv, DownInv, HeardInv, MapInv, Up, Boot
  <2>8. StoredInv'
    <3>1. ASSUME NEW b \in Agents, Up(b)', b \notin moved'
          PROVE  /\ cache[b].synced => cache[b].scope = scopeMap
                 /\ \A n \in 1..Len(events[b]) : Stored(events[b][n])
                 /\ phase'[b] = "checked" => ~scopeMap.exists
                 /\ scopeMap.key = {} \/ pol'[b].override \in {{{}}, scopeMap.key}
      <4>1. CASE b = a
        BY <2>3, <2>5, <4>1 DEF Unsynced
      <4>2. CASE b # a
        BY <2>3, <2>5, <3>1, <4>2 DEF IndInv, StoredInv, Up
      <4> QED
        BY <4>1, <4>2
    <3> QED
      BY <1>2, <3>1 DEF StoredInv, Stored, Boot
  <2> QED
    BY <2>6, <2>7, <2>8 DEF IndInv
<1>3. CASE Die(a)
  <2>1. /\ phase' \in [Agents -> {"down", "syncing", "checked", "running"}]
        /\ cache' \in [Agents -> [synced : BOOLEAN, config : SUBSET Configs, scope : ScopeMap]]
        /\ events' \in [Agents -> Seq(Event)]
        /\ heard' \in [Agents -> Maybe(Maybe(SUBSET Namespaces))]
        /\ save' \in [Agents -> [step  : {"none", "patch", "create"},
                                 names : Maybe(SUBSET Namespaces)]]
    <3>1. /\ Unsynced \in [synced : BOOLEAN, config : SUBSET Configs, scope : ScopeMap]
          /\ {} \in Maybe(Maybe(SUBSET Namespaces))
          /\ Nothing \in [step : {"none", "patch", "create"}, names : Maybe(SUBSET Namespaces)]
      <4>1. {} \in Maybe(SUBSET Namespaces) /\ {} \in Maybe(Maybe(SUBSET Namespaces))
        BY DEF Maybe
      <4>2. NoScopeMap \in ScopeMap
        BY <4>1 DEF NoScopeMap, ScopeMap
      <4> QED
        BY <4>1, <4>2 DEF Unsynced, Nothing
    <3>2. /\ phase' = [phase EXCEPT ![a] = "down"]
          /\ cache' = [cache EXCEPT ![a] = Unsynced] /\ events' = [events EXCEPT ![a] = <<>>]
          /\ save' = [save EXCEPT ![a] = Nothing] /\ heard' = [heard EXCEPT ![a] = {}]
      BY <1>3 DEF Die
    <3>3. cache' \in [Agents -> [synced : BOOLEAN, config : SUBSET Configs, scope : ScopeMap]]
      BY <1>1, <3>1, <3>2
    <3>4. <<>> \in Seq(Event)
      OBVIOUS
    <3>5. events' \in [Agents -> Seq(Event)]
      BY <1>1, <3>2, <3>4
    <3>6. save' \in [Agents -> [step  : {"none", "patch", "create"},
                                names : Maybe(SUBSET Namespaces)]]
      BY <1>1, <3>1, <3>2
    <3>7. heard' \in [Agents -> Maybe(Maybe(SUBSET Namespaces))]
      BY <1>1, <3>1, <3>2
    <3> QED
      BY <1>1, <3>2, <3>3, <3>5, <3>6, <3>7
  <2>2. /\ phase'[a] = "down" /\ cache'[a] = Unsynced /\ events'[a] = <<>> /\ heard'[a] = {}
        /\ \A b \in Agents : b # a => /\ phase'[b] = phase[b] /\ cache'[b] = cache[b]
                                      /\ events'[b] = events[b] /\ heard'[b] = heard[b]
    BY <1>1, <1>3 DEF Die
  <2>3. TypeOK'
    <3>1. SnapshotsValid'
      BY <1>1, <1>3, <2>2 DEF SnapshotsValid, Up, Die
    <3> QED
      BY <1>3, <2>1, <3>1 DEF IndInv, TypeOK, Die, counts
  <2>4. DownInv' /\ HeardInv' /\ MapInv'
    BY <1>3, <2>2 DEF IndInv, DownInv, HeardInv, MapInv, Up, Die
  <2>5. StoredInv'
    <3>1. ASSUME NEW b \in Agents, Up(b)', b \notin moved
          PROVE  /\ cache'[b].synced => cache'[b].scope = scopeMap
                 /\ \A n \in 1..Len(events'[b]) : Stored(events'[b][n])
                 /\ phase'[b] = "checked" => ~scopeMap.exists
                 /\ scopeMap.key = {} \/ pol[b].override \in {{{}}, scopeMap.key}
      BY <2>2, <3>1 DEF IndInv, StoredInv, Up
    <3> QED
      BY <1>3, <3>1 DEF StoredInv, Stored, Die
  <2> QED
    BY <2>3, <2>4, <2>5 DEF IndInv
<1> QED
  BY <1>2, <1>3

(* Start looks for a choice, and removes the empty one if there is none.     *)
LEMMA StartStep ==
    ASSUME IndInv, NEW a \in Agents, Start(a)
    PROVE  IndInv'
<1>1. /\ phase \in [Agents -> {"down", "syncing", "checked", "running"}]
      /\ pol \in [Agents -> Policy]
      /\ heard \in [Agents -> Maybe(Maybe(SUBSET Namespaces))]
      /\ {} \in Maybe(SUBSET Namespaces) /\ SnapshotsValid
  BY DEF IndInv, TypeOK, Maybe
<1>2. CASE CheckScope(a)
  <2>1. /\ phase' \in [Agents -> {"down", "syncing", "checked", "running"}]
        /\ heard' \in [Agents -> Maybe(Maybe(SUBSET Namespaces))]
        /\ \A b \in Agents : b # a => phase'[b] = phase[b] /\ heard'[b] = heard[b]
    <3>1. {{}} \in Maybe(Maybe(SUBSET Namespaces))
      BY DEF Maybe
    <3>2. heard' = heard \/ heard' = [heard EXCEPT ![a] = {{}}]
      BY <1>2 DEF CheckScope
    <3>3. phase' = [phase EXCEPT ![a] = "running"] \/ phase' = [phase EXCEPT ![a] = "checked"]
      BY <1>2 DEF CheckScope
    <3> QED
      BY <1>1, <3>1, <3>2, <3>3
  <2>2. /\ phase'[a] \in {"checked", "running"} /\ cache[a].synced /\ Up(a)
        /\ phase'[a] = "checked" => ~cache[a].scope.exists
        /\ heard[a] # {} => heard'[a] # {}
        /\ phase'[a] = "checked" => heard'[a] # {}
        /\ heard'[a] = {} => heard[a] = {}
    BY <1>1, <1>2 DEF CheckScope, Up
  <2>3. TypeOK'
    <3>1. SnapshotsValid'
      BY <1>1, <1>2, <2>1, <2>2 DEF SnapshotsValid, Up, CheckScope
    <3> QED
      BY <1>2, <2>1, <3>1 DEF IndInv, TypeOK, CheckScope, counts
  <2>4. DownInv' /\ HeardInv' /\ MapInv'
    BY <1>2, <2>1, <2>2 DEF IndInv, DownInv, HeardInv, MapInv, Up, CheckScope
  <2>5. StoredInv'
    <3>1. ASSUME NEW b \in Agents, Up(b)', b \notin moved
          PROVE  /\ cache[b].synced => cache[b].scope = scopeMap
                 /\ \A n \in 1..Len(events[b]) : Stored(events[b][n])
                 /\ phase'[b] = "checked" => ~scopeMap.exists
                 /\ scopeMap.key = {} \/ pol[b].override \in {{{}}, scopeMap.key}
      <4>1. Up(b)
        BY <2>1, <2>2, <3>1 DEF Up
      <4>2. /\ cache[b].synced => cache[b].scope = scopeMap
            /\ \A n \in 1..Len(events[b]) : Stored(events[b][n])
            /\ phase[b] = "checked" => ~scopeMap.exists
            /\ scopeMap.key = {} \/ pol[b].override \in {{{}}, scopeMap.key}
        BY <3>1, <4>1 DEF IndInv, StoredInv
      <4> QED
        BY <2>1, <2>2, <4>2
    <3> QED
      BY <1>2, <3>1 DEF StoredInv, Stored, CheckScope
  <2> QED
    BY <2>3, <2>4, <2>5 DEF IndInv
<1>3. CASE ClearScope(a)
  <2>1. WithFixOverride(pol[a], {}) \in Policy /\ Validate(WithFixOverride(pol[a], {}))
    BY <1>1, <1>3, OverrideType DEF ClearScope, SnapshotsValid, Up
  <2>2. /\ phase' \in [Agents -> {"down", "syncing", "checked", "running"}]
        /\ pol' \in [Agents -> Policy] /\ phase'[a] = "running" /\ phase[a] = "checked"
        /\ Validate(pol'[a])
        /\ \A b \in Agents : b # a => phase'[b] = phase[b] /\ pol'[b] = pol[b]
    BY <1>1, <1>3, <2>1 DEF ClearScope
  <2>3. TypeOK'
    <3>1. SnapshotsValid'
      BY <1>1, <2>2 DEF SnapshotsValid, Up
    <3> QED
      BY <1>3, <2>2, <3>1 DEF IndInv, TypeOK, ClearScope, counts
  <2>4. heard[a] # {}
    BY <2>2 DEF IndInv, HeardInv, Up
  <2>5. DownInv' /\ HeardInv' /\ MapInv'
    BY <1>3, <2>2, <2>4 DEF IndInv, DownInv, HeardInv, MapInv, Up, ClearScope
  <2>6. StoredInv'
    <3>1. ASSUME NEW b \in Agents, Up(b)', b \notin moved
          PROVE  /\ cache[b].synced => cache[b].scope = scopeMap
                 /\ \A n \in 1..Len(events[b]) : Stored(events[b][n])
                 /\ phase'[b] = "checked" => ~scopeMap.exists
                 /\ scopeMap.key = {} \/ pol'[b].override \in {{{}}, scopeMap.key}
      <4>1. Up(b)
        BY <2>2, <3>1 DEF Up
      <4>2. /\ cache[b].synced => cache[b].scope = scopeMap
            /\ \A n \in 1..Len(events[b]) : Stored(events[b][n])
            /\ phase[b] = "checked" => ~scopeMap.exists
            /\ scopeMap.key = {} \/ pol[b].override \in {{{}}, scopeMap.key}
        BY <3>1, <4>1 DEF IndInv, StoredInv
      <4>3. b = a => scopeMap.key = {}
        BY <2>2, <4>2 DEF IndInv, MapInv
      <4> QED
        BY <2>2, <4>2, <4>3
    <3> QED
      BY <1>3, <3>1 DEF StoredInv, Stored, ClearScope
  <2> QED
    BY <2>3, <2>5, <2>6 DEF IndInv
<1> QED
  BY <1>2, <1>3 DEF Start

(* A write of the choice: whoever is running may know another one now.       *)
LEMMA WriteStep ==
    ASSUME IndInv, NEW s \in ScopeMap, WriteScope(s), ~s.exists => s.key = {},
           save' \in [Agents -> [step  : {"none", "patch", "create"},
                                 names : Maybe(SUBSET Namespaces)]],
           edits' \in 0..MaxEdits,
           UNCHANGED <<config, phase, pol, cache, events, heard, boots>>
    PROVE  IndInv'
<1>1. TypeOK'
  BY DEF IndInv, TypeOK, SnapshotsValid, Up, WriteScope
<1>2. DownInv' /\ HeardInv' /\ MapInv' /\ StoredInv'
  BY DEF IndInv, DownInv, HeardInv, MapInv, StoredInv, Up, WriteScope
<1> QED
  BY <1>1, <1>2 DEF IndInv

(* A step that writes no choice and that no agent has seen.                  *)
LEMMA UnseenStep ==
    ASSUME IndInv, config' \in Configs,
           save' \in [Agents -> [step  : {"none", "patch", "create"},
                                 names : Maybe(SUBSET Namespaces)]],
           edits' \in 0..MaxEdits,
           UNCHANGED <<scopeMap, phase, pol, cache, events, heard, moved, boots>>
    PROVE  IndInv'
<1>1. TypeOK'
  BY DEF IndInv, TypeOK, SnapshotsValid, Up
<1>2. DownInv' /\ HeardInv' /\ MapInv' /\ StoredInv'
  BY DEF IndInv, DownInv, HeardInv, MapInv, StoredInv, Stored, Up
<1> QED
  BY <1>1, <1>2 DEF IndInv

(* The dashboard's choice on its way to its ConfigMap.                       *)
LEMMA SaveSteps ==
    ASSUME IndInv, NEW a \in Agents,
           SaveFixScope(a) \/ ClearFixScope(a) \/ Patch(a) \/ Create(a)
    PROVE  IndInv'
<1> DEFINE Saves == [step  : {"none", "patch", "create"}, names : Maybe(SUBSET Namespaces)]
<1>1. /\ save \in [Agents -> Saves] /\ save[a] \in Saves /\ config \in Configs
      /\ scopeMap \in ScopeMap /\ edits \in 0..MaxEdits /\ MaxEdits \in Nat
  BY PolicyReloadAssumption DEF IndInv, TypeOK
<1>2. {} \in Maybe(SUBSET Namespaces) /\ Nothing \in Saves
  BY DEF Maybe, Nothing
<1>3. [save EXCEPT ![a] = Nothing] \in [Agents -> Saves]
  BY <1>1, <1>2
<1>4. CASE SaveFixScope(a)
  <2>1. PICK names \in Choices : save' = [save EXCEPT ![a] = [step |-> "patch", names |-> {names}]]
    BY <1>4 DEF SaveFixScope
  <2>2. {names} \in Maybe(SUBSET Namespaces)
    BY PolicyReloadAssumption DEF Maybe
  <2>3. save' \in [Agents -> Saves]
    BY <1>1, <2>1, <2>2
  <2>4. edits' \in 0..MaxEdits
    BY <1>1, <1>4 DEF SaveFixScope
  <2> QED
    BY <1>1, <1>4, <2>3, <2>4, UnseenStep DEF SaveFixScope
<1>5. CASE ClearFixScope(a)
  <2>1. save' \in [Agents -> Saves]
    BY <1>1, <1>2, <1>5 DEF ClearFixScope
  <2>2. edits' \in 0..MaxEdits
    BY <1>1, <1>5 DEF ClearFixScope
  <2> QED
    BY <1>1, <1>5, <2>1, <2>2, UnseenStep DEF ClearFixScope
<1>6. CASE Patch(a)
  <2>1. UNCHANGED <<config, phase, pol, cache, events, heard, edits, boots>>
    BY <1>6 DEF Patch, counts
  <2>2. CASE /\ scopeMap.exists /\ WriteScope([scopeMap EXCEPT !.key = save[a].names])
             /\ save' = [save EXCEPT ![a] = Nothing]
    <3>1. [scopeMap EXCEPT !.key = save[a].names] \in ScopeMap
          /\ [scopeMap EXCEPT !.key = save[a].names].exists
      BY <1>1, <2>2 DEF ScopeMap
    <3> QED
      BY <1>1, <1>3, <2>1, <2>2, <3>1, WriteStep
  <2>3. CASE save' = [save EXCEPT ![a].step = "create"] /\ UNCHANGED <<scopeMap, moved>>
    <3>1. save' \in [Agents -> Saves]
      BY <1>1, <2>3
    <3> QED
      BY <1>1, <2>1, <2>3, <3>1, UnseenStep
  <2>4. CASE save' = [save EXCEPT ![a] = Nothing] /\ UNCHANGED <<scopeMap, moved>>
    BY <1>1, <1>3, <2>1, <2>4, UnseenStep
  <2> QED
    BY <1>6, <2>2, <2>3, <2>4 DEF Patch
<1>7. CASE Create(a)
  <2>1. /\ UNCHANGED <<config, phase, pol, cache, events, heard, edits, boots>>
        /\ save' = [save EXCEPT ![a] = Nothing]
    BY <1>7 DEF Create, counts
  <2>2. CASE WriteScope([exists |-> TRUE, key |-> save[a].names])
    <3>1. [exists |-> TRUE, key |-> save[a].names] \in ScopeMap
          /\ [exists |-> TRUE, key |-> save[a].names].exists
      BY <1>1 DEF ScopeMap
    <3> QED
      BY <1>1, <1>3, <2>1, <2>2, <3>1, WriteStep
  <2>3. CASE UNCHANGED <<scopeMap, moved>>
    BY <1>1, <1>3, <2>1, <2>3, UnseenStep
  <2> QED
    BY <1>7, <2>2, <2>3 DEF Create
<1> QED
  BY <1>4, <1>5, <1>6, <1>7

(* An operator deletes the choice, or edits the settings.                    *)
LEMMA OperatorSteps ==
    ASSUME IndInv, DeleteScopeMap \/ EditConfig
    PROVE  IndInv'
<1>1. /\ edits \in 0..MaxEdits /\ MaxEdits \in Nat
      /\ save \in [Agents -> [step  : {"none", "patch", "create"},
                              names : Maybe(SUBSET Namespaces)]]
  BY PolicyReloadAssumption DEF IndInv, TypeOK
<1>2. CASE DeleteScopeMap
  <2>1. NoScopeMap \in ScopeMap /\ NoScopeMap.key = {}
    BY DEF NoScopeMap, ScopeMap, Maybe
  <2>2. edits' \in 0..MaxEdits /\ save' = save
    BY <1>1, <1>2 DEF DeleteScopeMap
  <2> QED
    BY <1>1, <1>2, <2>1, <2>2, WriteStep DEF DeleteScopeMap
<1>3. CASE EditConfig
  <2>1. edits' \in 0..MaxEdits /\ save' = save /\ config' \in Configs
    BY <1>1, <1>3 DEF EditConfig
  <2> QED
    BY <1>1, <1>3, <2>1, UnseenStep DEF EditConfig
<1> QED
  BY <1>2, <1>3

--------------------------------------------------------------------------------
(* Theorems. *)

(* The invariant holds at first, when no agent is running.                   *)
LEMMA IndInit == Init => IndInv
<1> SUFFICES ASSUME Init PROVE IndInv
  OBVIOUS
<1>1. config \in Configs /\ Configs \subseteq Config
  BY PolicyReloadAssumption DEF Init
<1>2. Load(config) \in Policy
  BY <1>1, LoadType
<1>3. {} \in Maybe(SUBSET Namespaces) /\ {} \in Maybe(Maybe(SUBSET Namespaces))
  BY DEF Maybe
<1>4. NoScopeMap \in ScopeMap /\ ~NoScopeMap.exists /\ NoScopeMap.key = {}
  BY <1>3 DEF NoScopeMap, ScopeMap
<1>5. /\ Unsynced \in [synced : BOOLEAN, config : SUBSET Configs, scope : ScopeMap]
      /\ Nothing \in [step : {"none", "patch", "create"}, names : Maybe(SUBSET Namespaces)]
  BY <1>3, <1>4 DEF Unsynced, Nothing
<1>6. TypeOK
  <2>1. 0 \in 0..MaxEdits /\ 0 \in 0..MaxBoots
    BY PolicyReloadAssumption
  <2>2. events \in [Agents -> Seq(Event)]
    BY DEF Init
  <2> QED
    BY <1>1, <1>2, <1>3, <1>4, <1>5, <2>1, <2>2 DEF Init, TypeOK, SnapshotsValid, Up
<1>7. DownInv /\ HeardInv /\ MapInv /\ StoredInv
  BY <1>4 DEF Init, DownInv, HeardInv, MapInv, StoredInv, Up
<1> QED
  BY <1>6, <1>7 DEF IndInv

(* Every step keeps it.                                                      *)
LEMMA IndNext == IndInv /\ [Next]_vars => IndInv'
<1> SUFFICES ASSUME IndInv, [Next]_vars PROVE IndInv'
  OBVIOUS
<1>1. CASE UNCHANGED vars
  BY <1>1 DEF vars, counts, IndInv, TypeOK, SnapshotsValid, DownInv, HeardInv, MapInv,
                  StoredInv, Stored, Up
<1> QED
  BY <1>1, ProcessSteps, InformerStep, DeliverStep, StartStep, SaveSteps, OperatorSteps DEF Next

(* The inductive invariant, in every run of the agents.                      *)
THEOREM Invariance == Spec => []IndInv
<1> QED
  BY IndInit, IndNext, PTL DEF Spec

(* Every snapshot is a policy with one of the modes, and that of an agent    *)
(* that runs is one that Validate accepts, whatever the settings hold and    *)
(* however reloads and choices interleave.                                   *)
THEOREM TypeCorrect == Spec => []TypeOK
<1>1. IndInv => TypeOK
  BY DEF IndInv
<1> QED
  BY <1>1, Invariance, PTL

(* Until it has read whether there is a choice, an agent that starts fixes   *)
(* nowhere, whatever settings are reloaded meanwhile.                        *)
THEOREM FixesNowhereFirst == Spec => []NowhereUntilRead
<1>1. IndInv => NowhereUntilRead
  BY ScopeInChoice DEF IndInv, HeardInv, NowhereUntilRead
<1> QED
  BY <1>1, Invariance, PTL

(* A choice that was stored before an agent started, and was not written     *)
(* since, holds from the first moment on.                                    *)
THEOREM ChoiceHolds == Spec => []StoredChoiceHolds
<1>1. ASSUME IndInv, NEW a \in Agents, Up(a), a \notin moved, NEW names \in scopeMap.key
      PROVE  FixScope(pol[a]) \subseteq names
  <2>1. scopeMap \in ScopeMap
    BY <1>1 DEF IndInv, TypeOK
  <2>2. scopeMap.key = {names}
    BY <1>1, <2>1 DEF ScopeMap, Maybe
  <2>3. pol[a].override = {{}} \/ pol[a].override = {names}
    BY <1>1, <2>2 DEF IndInv, StoredInv
  <2> QED
    BY <2>3, ScopeInChoice
<1>2. IndInv => StoredChoiceHolds
  BY <1>1 DEF StoredChoiceHolds
<1> QED
  BY <1>2, Invariance, PTL
================================================================================
