------------------------------- MODULE MCReloader -------------------------------
(* Instances of Reloader for TLC. *)
EXTENDS Reloader, TLC

CONSTANTS c1, c2, cm, v1, v2, wa, wb

MCTwo       == {c1, c2}
MCObject    == {cm}
MCValues    == {v1, v2}
MCWls       == {wa, wb}
MCOrder     == <<wa, wb>>
MCKinds     == wa :> "Deployment" @@ wb :> "StatefulSet"
MCNightly   == wa :> "Deployment" @@ wb :> "CronJob"
MCReloads   == [wl \in MCWls |-> {cm}]

(* Controllers and values are interchangeable: c1 leads first, with v1. *)
MCInit == Init /\ leader = c1 /\ value = [o \in Objects |-> v1]
MCSpec == MCInit /\ [][Next]_vars /\ Fairness
================================================================================
