-------------------------------- MODULE MCGate ---------------------------------
(* Instances of Gate for TLC. *)
EXTENDS Gate, TLC

CONSTANTS g1, g2, nsA, nsB, nsC, wlA, wlB, wlC, node, polA

MCProcs       == {g1, g2}
MCNamespaces  == {nsA, nsB, nsC}
MCWorkloads   == {wlA, wlB, wlC, node}
MCNsOf        == wlA :> nsA @@ wlB :> nsB @@ wlC :> nsC @@ node :> Cluster
MCMutations   == [wl : Workloads, kind : {"fix"}, restart : {FALSE}] \cup
                 {[wl |-> wlA, kind |-> "fix", restart |-> TRUE],
                  [wl |-> wlA, kind |-> "housekeeping", restart |-> FALSE]}
MCPolicies    == {polA}
MCPolicyAll   == [wl \in Workloads |-> polA]
MCMaxPerHour  == polA :> 1
MCMaxActions  == [k \in Kinds |-> IF k = "fix" THEN 2 ELSE 1]
MCModes       == {"fix", "dry-run", "observe"}
\* nsC is never in the fix scope.
MCScopes      == {{nsA, nsB}}

Symmetry == Permutations(MCProcs)

(* Two plans share the bounds: "windows" acts in every place until instant 2, *)
(* "limits" goes on until instant 3 with fixes and housekeeping of wlA.       *)
VARIABLE plan

Everywhere == {m \in MCMutations : m.kind = "fix"}
OneWorkload == {m \in MCMutations : m.wl = wlA /\ ~m.restart}

MCInit == Init /\ plan \in {"windows", "limits"}
MCNext ==
    /\ Next /\ UNCHANGED plan
    /\ plan = "windows" => clock' <= 2
    /\ \A c \in Procs : job'[c] = NoMutation \/ job'[c] = job[c]
          \/ job'[c] \in (IF plan = "windows" THEN Everywhere ELSE OneWorkload)
MCSpec == MCInit /\ [][MCNext]_<<vars, plan>>
================================================================================
