------------------------- MODULE ResourceLifeProofs -------------------------
(***************************************************************************)
(* What follows from the promise of ResourceLife, whichever controller      *)
(* keeps it.                                                                *)
(***************************************************************************)
EXTENDS ResourceLife, TLAPS

OneInv == owner \in [Resources -> MRs \cup {Nobody}] /\ AtMostOne

LEMMA InitOne == Init => OneInv
BY DEF Init, OneInv, AtMostOne

LEMMA StepOne == OneInv /\ [Next]_vars => OneInv'
<1>. SUFFICES ASSUME OneInv, [Next]_vars PROVE OneInv'
  OBVIOUS
<1>. USE DEF OneInv, AtMostOne
<1>1. ASSUME NEW c \in MRs, NEW n \in Resources, Make(c, n) PROVE OneInv'
  <2>1. \A m \in Resources : owner[m] # Nobody => owner[m] # c
    BY <1>1 DEF Make, Has
  <2>2. owner' = [owner EXCEPT ![n] = c] /\ there' = there \cup {n} /\ live' = live /\ c \in live
    BY <1>1 DEF Make
  <2>3. owner'[n] = c /\ \A m \in Resources \ {n} : owner'[m] = owner[m]
    BY <2>2
  <2>4. owner' \in [Resources -> MRs \cup {Nobody}]
    BY <2>2
  <2>. QED BY <2>1, <2>2, <2>3, <2>4
<1>2. ASSUME NEW n \in Resources, Gone(n), UNCHANGED live PROVE OneInv'
  BY <1>2 DEF Gone
<1>3. ASSUME NEW c \in MRs, Leave(c) PROVE OneInv'
  BY <1>3 DEF Leave, Has
<1>4. ASSUME UNCHANGED <<live, owner>>, there \subseteq there' PROVE OneInv'
  BY <1>4
<1>. QED
  BY <1>1, <1>2, <1>3, <1>4 DEF Next, Record, Retire, Stray, Destroy, ByHand, vars

\* An MR has at most one resource, and none once it is gone, in every system
\* that implements ResourceLife.
THEOREM AtMostOneHolds == Spec => []AtMostOne
<1>1. OneInv => AtMostOne
  BY DEF OneInv
<1>. QED BY <1>1, InitOne, StepOne, PTL DEF Spec
============================================================================
