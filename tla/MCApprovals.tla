------------------------------ MODULE MCApprovals ------------------------------
(* Instances of Approvals for TLC. *)
EXTENDS Approvals, TLC

CONSTANTS c1, c2, w1, w2, i1, i2, ch1, ch2, ann

MCControllers == {c1, c2}
MCOneController == {c1}
MCWorkers2    == {w1, w2}
MCHost2       == w1 :> c1 @@ w2 :> c2
MCIds         == {i1, i2}
MCChanges     == {ch1, ch2}
MCOneChange   == {ch1}
MCRebuildsAll == [c \in MCControllers |-> {ch1}]
\* c2 runs an older version that does not know ch2
MCRebuilds    == c1 :> {ch1, ch2} @@ c2 :> {ch1}
MCApprovers   == {ann}

IdSymmetry == Permutations(Ids)
================================================================================
