------------------------------ MODULE PolicyReload ------------------------------
(***************************************************************************)
(* The policy snapshot of an agent process and where it comes from:        *)
(* internal/policy (Load, HotReloader, the scopes of ADR-002), and the     *)
(* dashboard's fix scope choice (internal/httpapi/scope.go,                *)
(* internal/kube/scope_settings.go).  Every controller and node agent      *)
(* watches two ConfigMaps through an informer: the settings and the        *)
(* choice.  The informer's handlers and the goroutine that runs Start both *)
(* replace the snapshot, one at a time.                                    *)
(*                                                                         *)
(* A value that may be missing is a set with at most one member.  Number   *)
(* keys are stood for by MIN_REPLICAS and MAX_REPLICAS, with the value that *)
(* int32 makes of them; one that cannot be parsed is as good as missing.   *)
(***************************************************************************)
EXTENDS Integers, Sequences

CONSTANTS
    Agents,         \* controllers and node agents
    Namespaces,     \* the namespaces that are not system namespaces
    Ceiling,        \* FIX_CEILING, or all of them with FIX_ANYWHERE
    Configs,        \* what the settings ConfigMap may hold
    Choices,        \* the fix scopes the dashboard may be asked to store
    MaxEdits,       \* bound: changes made to the two ConfigMaps
    MaxBoots,       \* bound: starts of each agent
    MaxQueue        \* bound: notifications on their way to the handlers

Modes    == {"observe", "suggest", "fix", "dry-run"}
Maybe(S) == {{}} \cup {{x} : x \in S}

Config == [mode  : Maybe(Modes \cup {"not a mode"}),
           watch : Maybe(SUBSET Namespaces),     \* "" and "*": all of them
           fix   : Maybe(SUBSET Namespaces),
           min   : SUBSET Int,
           max   : SUBSET Int]

Policy == [mode : Modes, watch : SUBSET Namespaces, fix : SUBSET Namespaces,
           min : Int, max : Int, override : Maybe(SUBSET Namespaces)]

ScopeMap == [exists : BOOLEAN, key : Maybe(SUBSET Namespaces)]

NoScopeMap == [exists |-> FALSE, key |-> {}]

ASSUME PolicyReloadAssumption ==
    /\ Ceiling \subseteq Namespaces
    /\ Choices \subseteq SUBSET Namespaces
    /\ Configs \subseteq Config
    /\ MaxEdits \in Nat /\ MaxBoots \in Nat /\ MaxQueue \in Nat

VARIABLES
    config,     \* the settings ConfigMap, in the API server
    scopeMap,   \* the choice ConfigMap, in the API server
    phase,      \* phase[a]: where Start is, or "down"
    pol,        \* pol[a]: HotReloader.policy
    cache,      \* cache[a]: the informer's store
    events,     \* events[a]: notifications the handlers have not handled yet
    save,       \* save[a]: the SaveFixScope that a is carrying out
    heard,      \* history: heard[a], the choice that a last read, if it read any
    moved,      \* history: the agents during whose run the choice was written
    edits, boots

counts == <<edits, boots>>
vars   == <<config, scopeMap, phase, pol, cache, events, save, heard, moved, counts>>

Nothing == [step |-> "none", names |-> {}]

Unsynced == [synced |-> FALSE, config |-> {}, scope |-> NoScopeMap]

Event == [kind : {"add", "update", "delete"}, obj : {"config"}, data : Config]
            \cup [kind : {"add", "update", "delete"}, obj : {"scope"}, data : ScopeMap]

Up(a) == phase[a] # "down"

Validate(p) == p.watch # {} /\ p.max >= p.min

(* No agent runs with a policy that Validate refuses. *)
SnapshotsValid == \A a \in Agents : Up(a) => Validate(pol[a])

(* The shape of every variable; the snapshots in use are valid as well. *)
TypeOK ==
    /\ config \in Configs
    /\ scopeMap \in ScopeMap
    /\ phase \in [Agents -> {"down", "syncing", "checked", "running"}]
    /\ pol \in [Agents -> Policy] /\ SnapshotsValid
    /\ cache \in [Agents -> [synced : BOOLEAN, config : SUBSET Configs, scope : ScopeMap]]
    /\ events \in [Agents -> Seq(Event)]
    /\ save \in [Agents -> [step  : {"none", "patch", "create"},
                            names : Maybe(SUBSET Namespaces)]]
    /\ heard \in [Agents -> Maybe(Maybe(SUBSET Namespaces))]
    /\ moved \subseteq Agents
    /\ edits \in 0..MaxEdits
    /\ boots \in [Agents -> 0..MaxBoots]

--------------------------------------------------------------------------------
(* Policies. *)

Or(opt, default) == IF opt = {} THEN default ELSE CHOOSE x \in opt : TRUE

Watched(p, ns) == ns \in p.watch

InCeiling(p, ns) == Watched(p, ns) /\ ns \in Ceiling

(* fixChoice: the dashboard choice when one exists, else FIX_NAMESPACES. *)
FixChoice(p) == Or(p.override, p.fix)

FixScope(p) == {ns \in FixChoice(p) : InCeiling(p, ns)}

WithFixOverride(p, names) == [p EXCEPT !.override = names]

(* AUTO_MODE, where bad takes the place of a value that is no mode. *)
ModeOr(opt, bad, default) == IF opt = {"not a mode"} THEN bad ELSE Or(opt, default)

(* Load, from the environment that the settings ConfigMap is copied to. *)
Load(c) == [mode     |-> ModeOr(c.mode, "observe", "dry-run"),
            watch    |-> Or(c.watch, Namespaces),
            fix      |-> Or(c.fix, {}),
            min      |-> Or(c.min, 1),
            max      |-> Or(c.max, 50),
            override |-> {}]

ApplyToDefaults(p, c) == Load(c)

(* applyConfigMapData: a key that is missing keeps its value. *)
ApplyConfigMapData(p, c) ==
    [mode     |-> ModeOr(c.mode, p.mode, p.mode),
     watch    |-> Or(c.watch, p.watch),
     fix      |-> Or(c.fix, p.fix),
     min      |-> Or(c.min, p.min),
     max      |-> Or(c.max, p.max),
     override |-> p.override]

(* reload: all of it, or nothing when the result is not valid. *)
Reload(p, c) ==
    LET new == ApplyConfigMapData(p, c)
    IN  IF Validate(new) THEN new ELSE p

Init ==
    /\ config \in Configs
    /\ scopeMap = NoScopeMap
    /\ phase = [a \in Agents |-> "down"]
    /\ pol = [a \in Agents |-> Load(config)]
    /\ cache = [a \in Agents |-> Unsynced]
    /\ events = [a \in Agents |-> <<>>]
    /\ save = [a \in Agents |-> Nothing]
    /\ heard = [a \in Agents |-> {}]
    /\ moved = {}
    /\ edits = 0
    /\ boots = [a \in Agents |-> 0]

--------------------------------------------------------------------------------
(* Start and the informer. *)

(* The process starts: Load, NewHotReloader, WatchScope.  An invalid policy *)
(* is fatal.                                                                *)
Boot(a) ==
    /\ phase[a] = "down"
    /\ boots[a] < MaxBoots
    /\ Validate(Load(config))
    /\ phase' = [phase EXCEPT ![a] = "syncing"]
    /\ pol' = [pol EXCEPT ![a] = WithFixOverride(Load(config), {{}})]
    /\ boots' = [boots EXCEPT ![a] = @ + 1]
    /\ moved' = moved \ {a}
    /\ UNCHANGED <<config, scopeMap, cache, events, save, heard, edits>>

(* The process dies, with all that it knew. *)
Die(a) ==
    /\ phase[a] # "down"
    /\ boots[a] < MaxBoots
    /\ phase' = [phase EXCEPT ![a] = "down"]
    /\ cache' = [cache EXCEPT ![a] = Unsynced]
    /\ events' = [events EXCEPT ![a] = <<>>]
    /\ save' = [save EXCEPT ![a] = Nothing]
    /\ heard' = [heard EXCEPT ![a] = {}]
    /\ UNCHANGED <<config, scopeMap, pol, moved, counts>>

ConfigEvent(kind, c) == [kind |-> kind, obj |-> "config", data |-> c]
ScopeEvent(kind, s)  == [kind |-> kind, obj |-> "scope", data |-> s]

(* One notification for each object in the informer's store. *)
AllObjects(kind, c, s) ==
    <<ConfigEvent(kind, c)>> \o (IF s.exists THEN <<ScopeEvent(kind, s)>> ELSE <<>>)

Notify(a, new) ==
    /\ Len(events[a]) + Len(new) <= MaxQueue
    /\ events' = [events EXCEPT ![a] = @ \o new]

(* The informer's first list fills its store and notifies the handlers. *)
ListObjects(a) ==
    /\ phase[a] # "down" /\ ~cache[a].synced
    /\ cache' = [cache EXCEPT ![a] = [synced |-> TRUE, config |-> {config}, scope |-> scopeMap]]
    /\ Notify(a, AllObjects("add", config, scopeMap))
    /\ UNCHANGED <<config, scopeMap, phase, pol, save, heard, moved, counts>>

(* The watch, or a new list after it broke, shows a change. *)
ObserveConfig(a) ==
    /\ cache[a].synced /\ cache[a].config # {config}
    /\ cache' = [cache EXCEPT ![a].config = {config}]
    /\ Notify(a, <<ConfigEvent("update", config)>>)
    /\ UNCHANGED <<config, scopeMap, phase, pol, save, heard, moved, counts>>

ObserveScope(a) ==
    LET old == cache[a].scope
    IN  /\ cache[a].synced /\ old # scopeMap
        /\ cache' = [cache EXCEPT ![a].scope = scopeMap]
        /\ Notify(a, <<IF ~old.exists THEN ScopeEvent("add", scopeMap)
                       ELSE IF scopeMap.exists THEN ScopeEvent("update", scopeMap)
                       ELSE ScopeEvent("delete", old)>>)
        /\ UNCHANGED <<config, scopeMap, phase, pol, save, heard, moved, counts>>

NoResync(a) == FALSE

(* Every 30 seconds the informer notifies its handlers of every object, as  *)
(* an update; by then they are done with what came before.                  *)
Resync(a) ==
    /\ cache[a].synced /\ events[a] = <<>>
    /\ \E c \in cache[a].config : Notify(a, AllObjects("update", c, cache[a].scope))
    /\ UNCHANGED <<config, scopeMap, phase, pol, cache, save, heard, moved, counts>>

(* setScope *)
SetScope(a, names) ==
    /\ pol' = [pol EXCEPT ![a] = WithFixOverride(@, names)]
    /\ heard' = [heard EXCEPT ![a] = {names}]

(* What AddFunc, UpdateFunc and DeleteFunc do with a notification. *)
Handle(a, e) ==
    \/ /\ e.obj = "scope" /\ e.kind \in {"add", "update"}
       /\ SetScope(a, e.data.key)
    \/ /\ e.obj = "scope" /\ e.kind = "delete"
       /\ SetScope(a, {})
    \/ /\ e.obj = "config" /\ e.kind = "update"
       /\ pol' = [pol EXCEPT ![a] = Reload(@, e.data)]
       /\ heard' = heard
    \/ /\ e.obj = "config" /\ e.kind # "update"
       /\ UNCHANGED <<pol, heard>>

Deliver(a) ==
    /\ events[a] # <<>>
    /\ Handle(a, Head(events[a]))
    /\ events' = [events EXCEPT ![a] = Tail(@)]
    /\ UNCHANGED <<config, scopeMap, phase, cache, save, moved, counts>>

CheckScopeBlind(a) ==
    /\ phase[a] = "syncing" /\ cache[a].synced
    /\ phase' = [phase EXCEPT ![a] = "checked"]
    /\ UNCHANGED <<config, scopeMap, pol, cache, events, save, heard, moved, counts>>

(* Start, after WaitForCacheSync: GetByKey. *)
CheckScope(a) ==
    /\ phase[a] = "syncing" /\ cache[a].synced
    /\ phase' = [phase EXCEPT ![a] = IF cache[a].scope.exists THEN "running" ELSE "checked"]
    /\ heard' = IF cache[a].scope.exists \/ heard[a] # {} THEN heard
                ELSE [heard EXCEPT ![a] = {{}}]
    /\ UNCHANGED <<config, scopeMap, pol, cache, events, save, moved, counts>>

(* Start: there was no choice when GetByKey looked, so setScope(nil). *)
ClearScope(a) ==
    /\ phase[a] = "checked"
    /\ phase' = [phase EXCEPT ![a] = "running"]
    /\ pol' = [pol EXCEPT ![a] = WithFixOverride(@, {})]
    /\ UNCHANGED <<config, scopeMap, cache, events, save, heard, moved, counts>>

--------------------------------------------------------------------------------
(* The two ConfigMaps. *)

WriteScope(s) == scopeMap' = s /\ moved' = Agents

(* putScope and SaveFixScope up to the write: every namespace that the      *)
(* snapshot does not fix already has been typed, and all are in the ceiling *)
SaveFixScope(a) ==
    /\ phase[a] # "down" /\ save[a].step = "none"
    /\ edits < MaxEdits
    /\ \E names \in Choices, typed \in Choices :
          /\ typed \subseteq names
          /\ names \ typed \subseteq FixScope(pol[a])
          /\ \A ns \in names : InCeiling(pol[a], ns)
          /\ save' = [save EXCEPT ![a] = [step |-> "patch", names |-> {names}]]
    /\ edits' = edits + 1
    /\ UNCHANGED <<config, scopeMap, phase, pol, cache, events, heard, moved, boots>>

(* DELETE /api/scope: return to the Helm values. *)
ClearFixScope(a) ==
    /\ phase[a] # "down" /\ save[a].step = "none"
    /\ edits < MaxEdits
    /\ save' = [save EXCEPT ![a] = [step |-> "patch", names |-> {}]]
    /\ edits' = edits + 1
    /\ UNCHANGED <<config, scopeMap, phase, pol, cache, events, heard, moved, boots>>

(* writeScopeConfigMap: the patch, which may find no ConfigMap, or fail. *)
Patch(a) ==
    /\ save[a].step = "patch"
    /\ \/ /\ scopeMap.exists
          /\ WriteScope([scopeMap EXCEPT !.key = save[a].names])
          /\ save' = [save EXCEPT ![a] = Nothing]
       \/ /\ ~scopeMap.exists /\ save[a].names # {}
          /\ save' = [save EXCEPT ![a].step = "create"]
          /\ UNCHANGED <<scopeMap, moved>>
       \/ /\ save' = [save EXCEPT ![a] = Nothing]
          /\ UNCHANGED <<scopeMap, moved>>
    /\ UNCHANGED <<config, phase, pol, cache, events, heard, counts>>

(* The create, which fails when somebody else created it, or otherwise. *)
Create(a) ==
    /\ save[a].step = "create"
    /\ \/ /\ ~scopeMap.exists
          /\ WriteScope([exists |-> TRUE, key |-> save[a].names])
       \/ UNCHANGED <<scopeMap, moved>>
    /\ save' = [save EXCEPT ![a] = Nothing]
    /\ UNCHANGED <<config, phase, pol, cache, events, heard, counts>>

(* An operator deletes the choice, or patches the settings. *)
DeleteScopeMap ==
    /\ scopeMap.exists /\ edits < MaxEdits
    /\ WriteScope(NoScopeMap)
    /\ edits' = edits + 1
    /\ UNCHANGED <<config, phase, pol, cache, events, save, heard, boots>>

EditConfig ==
    /\ edits < MaxEdits
    /\ config' \in Configs \ {config}
    /\ edits' = edits + 1
    /\ UNCHANGED <<scopeMap, phase, pol, cache, events, save, heard, moved, boots>>

--------------------------------------------------------------------------------
Informer(a) == ListObjects(a) \/ ObserveConfig(a) \/ ObserveScope(a) \/ Resync(a)

Start(a) == CheckScope(a) \/ ClearScope(a)

Next ==
    \/ \E a \in Agents :
          \/ Boot(a) \/ Die(a) \/ Informer(a) \/ Deliver(a) \/ Start(a)
          \/ SaveFixScope(a) \/ ClearFixScope(a) \/ Patch(a) \/ Create(a)
    \/ DeleteScopeMap
    \/ EditConfig

Spec == Init /\ [][Next]_vars

(* The informer lists, watches and resyncs as long as the process runs, and *)
(* goroutines are scheduled.                                                *)
Fairness ==
    \A a \in Agents :
        /\ WF_vars(ListObjects(a)) /\ WF_vars(ObserveConfig(a))
        /\ WF_vars(ObserveScope(a)) /\ WF_vars(Resync(a))
        /\ WF_vars(Deliver(a)) /\ WF_vars(Start(a))

FairSpec == Spec /\ Fairness

--------------------------------------------------------------------------------
(* Properties. *)

(* Until an agent has read, after a start, whether there is a dashboard      *)
(* choice, it fixes nowhere, whatever settings are reloaded meanwhile.       *)
NowhereUntilRead ==
    \A a \in Agents : Up(a) /\ heard[a] = {} => FixScope(pol[a]) = {}

(* A choice that was stored before an agent started and has not been written *)
(* since holds from its first moment on: at no point of the start, and under *)
(* no reload, does the agent fix anywhere else.                              *)
StoredChoiceHolds ==
    \A a \in Agents : Up(a) /\ a \notin moved =>
        \A names \in scopeMap.key : FixScope(pol[a]) \subseteq names

(* Once the ConfigMaps stay as they are, every agent that keeps running ends *)
(* up with the stored choice, also when Start, the handlers and a save raced *)
(* each other.                                                               *)
ChoiceFollowed ==
    <>[](\A a \in Agents : Up(a) => pol[a].override = scopeMap.key)

(* And with the stored settings: another reload would change nothing.        *)
ConfigFollowed ==
    <>[](\A a \in Agents : Up(a) => Reload(pol[a], config) = pol[a])

(* Every agent ends up with what is stored, of the dashboard and of helm.    *)
StoredFollowed == ChoiceFollowed /\ ConfigFollowed
================================================================================
