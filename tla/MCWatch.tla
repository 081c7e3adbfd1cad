-------------------------------- MODULE MCWatch --------------------------------
(* An instance of Watch for TLC. *)
EXTENDS Watch, TLC

CONSTANTS p1, p2, w1

MCPods      == {p1, p2}
MCWorkloads == {w1}
MCOwnerOf   == [p \in MCPods |-> w1]

Well == [waiting |-> "", oom |-> FALSE, restarts |-> 0, unready |-> FALSE]
Of(cs) == [init |-> <<>>, containers |-> cs, pull |-> {}, pending |-> FALSE,
           unbound |-> FALSE, volumes |-> FALSE]

Fine    == Of(<<Well>>)
\* the second container was killed; that the third is not ready is not looked at
Killed  == Of(<<Well, [Well EXCEPT !.oom = TRUE, !.restarts = 6], [Well EXCEPT !.unready = TRUE]>>)
\* the second init container fails; the first is done
Setup   == [Of(<<Well>>) EXCEPT !.init = <<[name |-> "fetch", waiting |-> ""],
                                           [name |-> "migrate", waiting |-> "Error"]>>]

MCStatusOf == [fine |-> Fine, killed |-> Killed, setup |-> Setup]
MCKinds    == DOMAIN MCStatusOf
================================================================================
