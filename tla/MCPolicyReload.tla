----------------------------- MODULE MCPolicyReload -----------------------------
(* Instances of PolicyReload for TLC. *)
EXTENDS PolicyReload

CONSTANTS a1, n1, n2

MCAgents     == {a1}
MCNamespaces == {n1, n2}
MCCeiling    == {n1, n2}
MCChoices    == {{}, {n1}, {n1, n2}}

Helm == [mode |-> {"fix"}, watch |-> {}, fix |-> {{n1, n2}}, min |-> {1}, max |-> {2}]

\* the operator stops all actions
DryRunNow == [Helm EXCEPT !.mode = {"dry-run"}]
\* MAX_REPLICAS alone, too large for int32 and so below any MIN_REPLICAS; the
\* mode is misspelt
NoReplicas == [mode |-> {"not a mode"}, watch |-> {{n1}}, fix |-> {}, min |-> {}, max |-> {-1}]
\* names no namespace to watch
NoWatch == [mode |-> {}, watch |-> {{}}, fix |-> {{n2}}, min |-> {}, max |-> {}]
\* fewer keys: the others keep their values
Narrow == [mode |-> {"observe"}, watch |-> {{n1}}, fix |-> {}, min |-> {2}, max |-> {}]

MCConfigs   == {Helm, DryRunNow, NoReplicas, NoWatch, Narrow}
================================================================================
