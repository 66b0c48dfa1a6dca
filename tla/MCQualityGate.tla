--------------------------- MODULE MCQualityGate ---------------------------
(* One MR and three gates: the built-in one, g1 (the name the MR specifies) *)
(* and g2 (a gate it may be told to import instead).                        *)
EXTENDS QualityGate, TLC

CONSTANTS c1, builtIn, g1, g2, i1, i2, i3, i4, i5, i6, m1, m2

MCMRs == {c1}
MCGateNames == {builtIn, g1, g2}
OwnGateNames == {builtIn, g1}
MCIds == {i1, i2, i3, i4, i5, i6}
MCMetrics == {m1, m2}
MCSpecName == c1 :> g1

Want(m, e) == [id |-> Nil, metric |-> m, error |-> e, op |-> Nil]

\* A gate with no opinion on the default, another threshold and a second
\* condition, and a gate that is to be the default.
MCWants == c1 :> { [default |-> Nil,  conds |-> <<Want(m1, 1)>>],
                   [default |-> Nil,  conds |-> <<Want(m1, 2), Want(m2, 1)>>],
                   [default |-> TRUE, conds |-> <<Want(m2, 1)>>] }

\* Two of the differences at once, for the liveness run.
FewWants == c1 :> { [default |-> Nil,  conds |-> <<Want(m1, 1)>>],
                    [default |-> TRUE, conds |-> <<Want(m1, 2), Want(m2, 1)>>] }

ImportOther == c1 :> {NoName, g2}
ImportOwn == c1 :> {NoName, g1}
============================================================================
