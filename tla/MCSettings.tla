----------------------------- MODULE MCSettings -----------------------------
(* One resource, three keys: k1 has a default, k2 has none, k3 takes a list *)
(* and may be given an empty one, which SonarQube refuses to set.           *)
EXTENDS Settings, TLC

CONSTANTS c1, k1, k2, k3, s1, s2, l1

MCMRs == {c1}
MCKeys == {k1, k2, k3}
MCScalars == {s1, s2}
MCLists == {l1}
MCDefaults == k1 :> [Zero EXCEPT !.value = s1] @@ k2 :> Nil @@ k3 :> [Zero EXCEPT !.values = l1]

Scalar(s) == [value |-> s, values |-> Nil, fieldValues |-> Nil]
List(l)   == [value |-> Nil, values |-> l, fieldValues |-> Nil]

MCWants == c1 :> { k1 :> Scalar(s2) @@ k2 :> Scalar(s1) @@ k3 :> List(Empty),
                   k1 :> Scalar(s1) @@ k3 :> List(l1),
                   k2 :> Scalar(s2) }
============================================================================
