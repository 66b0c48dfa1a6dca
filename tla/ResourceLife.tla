---------------------------- MODULE ResourceLife ----------------------------
(***************************************************************************)
(* What a controller promises about the resources it makes in SonarQube,    *)
(* however its reconciles, retries, crashes and users interleave:           *)
(*   - it makes at most one for a managed resource (MR), while that exists; *)
(*   - the external name it records for an MR is never another one than     *)
(*     that of the resource the MR has;                                     *)
(*   - it destroys one only while an MR is being deleted;                   *)
(*   - an MR goes only when it has none.                                    *)
(* QualityGate and QualityProfile implement it.                             *)
(***************************************************************************)
EXTENDS Naturals

CONSTANTS
    MRs,            \* the managed resources
    Resources,      \* what SonarQube may have
    Nobody          \* the owner of a resource no MR made

VARIABLES
    live,       \* the MRs that exist
    leaving,    \* those that are being deleted
    name,       \* name[c]: the external name recorded for c
    there,      \* the resources that exist
    owner,      \* owner[n]: the MR n was made for, or Nobody
    hands       \* changes by hand still to come

vars == <<live, leaving, name, there, owner, hands>>

Has(c) == {n \in there : owner[n] = c}

Init ==
    /\ live = MRs /\ leaving = {}
    /\ there \subseteq Resources
    /\ owner = [n \in Resources |-> Nobody]
    /\ hands \in Nat

\* A resource is made for an MR that has none.
Make(c, n) ==
    /\ c \in live /\ Has(c) = {}
    /\ n \notin there
    /\ there' = there \cup {n}
    /\ owner' = [owner EXCEPT ![n] = c]
    /\ UNCHANGED <<live, leaving, name, hands>>

\* A resource is made and the provider never learns of it.
Stray(n) ==
    /\ n \notin there
    /\ there' = there \cup {n}
    /\ UNCHANGED <<live, leaving, name, owner, hands>>

\* The external name of an MR is recorded.
Record(c) ==
    /\ c \in live
    /\ \A d \in MRs \ {c} : name'[d] = name[d]
    /\ Has(c) \subseteq {name'[c]}
    /\ UNCHANGED <<live, leaving, there, owner, hands>>

\* The user deletes an MR that waits for its resource to go.
Retire(c) ==
    /\ c \in live
    /\ leaving' = leaving \cup {c}
    /\ UNCHANGED <<live, name, there, owner, hands>>

\* SonarQube is without n from now on.
Gone(n) ==
    /\ there' = there \ {n}
    /\ owner' = [owner EXCEPT ![n] = Nobody]

\* A resource is destroyed for an MR that is being deleted.
Destroy(n) ==
    /\ leaving # {}
    /\ Gone(n)
    /\ UNCHANGED <<live, leaving, name, hands>>

\* An MR goes.
Leave(c) ==
    /\ c \in live /\ Has(c) = {}
    /\ live' = live \ {c}
    /\ leaving' = leaving \ {c}
    /\ UNCHANGED <<name, there, owner, hands>>

\* SonarQube is changed by hand: a resource may come or go.
ByHand ==
    /\ hands > 0 /\ hands' = hands - 1
    /\ \/ UNCHANGED <<there, owner>>
       \/ \E n \in Resources : Gone(n)
       \/ \E n \in Resources \ there : there' = there \cup {n} /\ UNCHANGED owner
    /\ UNCHANGED <<live, leaving, name>>

Next ==
    \/ \E c \in MRs : Record(c) \/ Retire(c) \/ Leave(c)
    \/ \E c \in MRs, n \in Resources : Make(c, n)
    \/ \E n \in Resources : Stray(n) \/ Destroy(n)
    \/ ByHand

Spec == Init /\ [][Next]_vars

----------------------------------------------------------------------------
\* An MR has at most one resource, and none once it is gone.
AtMostOne ==
    \A n \in Resources : owner[n] # Nobody =>
        /\ n \in there /\ owner[n] \in live
        /\ \A m \in Resources : owner[m] = owner[n] => m = n
============================================================================
