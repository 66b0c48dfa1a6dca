------------------------- MODULE MCQualityGatePair -------------------------
(* Two MRs that specify the same gate, as when an MR moves from a namespace *)
(* to another: each wants another threshold, c2 wants the default as well.  *)
EXTENDS QualityGate, TLC

CONSTANTS c1, c2, builtIn, g1, i1, i2, i3, i4, m1

MCMRs == {c1, c2}
MCGateNames == {builtIn, g1}
MCIds == {i1, i2, i3, i4}
MCMetrics == {m1}
MCSpecName == c1 :> g1 @@ c2 :> g1

Want(e) == <<[id |-> Nil, metric |-> m1, error |-> e, op |-> Nil]>>

MCWants == c1 :> {[default |-> Nil, conds |-> Want(1)]}
        @@ c2 :> {[default |-> TRUE, conds |-> Want(2)]}

MCInitExt == c1 :> {NoName} @@ c2 :> {NoName}
============================================================================
