-------------------------- MODULE MCConditionSync --------------------------
(* Two metrics, two thresholds, both operators; ids i1 and i2 are those the *)
(* gate's conditions have or had, i3 is stale, i4 and i5 are still unused.  *)
EXTENDS ConditionSync, TLC

CONSTANTS i1, i2, i3, i4, i5, m1, m2

MCIds == {i1, i2, i3, i4, i5}
MCOldIds == {i1, i2, i3}
MCMetrics == {m1, m2}
MCFirstId == (m1 :> i1) @@ (m2 :> i2)
============================================================================
