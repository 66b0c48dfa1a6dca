-------------------------- MODULE MCQualityProfile --------------------------
(* One MR, the built-in profile and one made by hand; rule r1 is in         *)
(* SonarQube, r2 is too and has impacts, r3 is not.                         *)
EXTENDS QualityProfile, TLC

CONSTANTS c1, kb, k1, k2, k3, k4, builtIn, n1, n2, r1, r2, r3, i1

MCMRs == {c1}
MCKeys == {kb, k1, k2, k3, k4}
MCNames == {builtIn, n1, n2}
MCRules == {r1, r2, r3}
MCKnownRules == {r1, r2}
MCImpactMaps == {i1}

MCFresh ==
    r1 :> [severity |-> "MINOR", impacts |-> Empty, params |-> Empty, prioritized |-> FALSE]
 @@ r2 :> [severity |-> "MINOR", impacts |-> i1, params |-> Empty, prioritized |-> FALSE]

MCHandmade == { [severity |-> "MAJOR", impacts |-> i1, params |-> Empty, prioritized |-> FALSE],
                [severity |-> "MINOR", impacts |-> Empty, params |-> Empty, prioritized |-> TRUE] }

\* A profile made by hand, of the name an MR asks for after an edit.
MCStarts == {[by |-> Nil, key |-> k1, name |-> n2, rules |-> r1 :> MCFresh[r1]]}

Bare(r) == [rule |-> r, severity |-> Nil, impacts |-> Nil, params |-> Nil, prioritized |-> Nil]
Severe(r, s) == [Bare(r) EXCEPT !.severity = s]

\* A rule with a severity and one SonarQube does not have; under another name,
\* to be the default, a rule listed twice.
Full(r) == [Severe(r, "MAJOR") EXCEPT !.prioritized = TRUE]
MCWants == c1 :>
    { [name |-> n1, default |-> Nil, rules |-> <<Severe(r1, "MAJOR"), Bare(r3)>>],
      [name |-> n2, default |-> TRUE, rules |-> <<Full(r2), [Full(r2) EXCEPT !.impacts = i1]>>] }

New == c1 :> {NoKey}
ImportHandmade == c1 :> {NoKey, k1}
============================================================================
