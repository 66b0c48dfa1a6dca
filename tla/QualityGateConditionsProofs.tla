--------------------- MODULE QualityGateConditionsProofs ---------------------
(***************************************************************************)
(* Theorems about the operators of QualityGateConditions: what late         *)
(* initialisation, the associations and the three find functions return,    *)
(* for every desired list and every set of observed conditions.             *)
(***************************************************************************)
EXTENDS QualityGateConditions, WellFoundedInduction, TLAPS

----------------------------------------------------------------------------
(* Late initialisation.                                                     *)

\* Late initialisation changes nothing but the id, and the id it gives is the
\* one the condition had or that of a matching observation.  What it leaves is
\* settled: either the id is observed, or no observation matches.
LEMMA LateInitConditionIs ==
    ASSUME NEW p \in Params, NEW obs \in SUBSET Observation
    PROVE  LET q == LateInitCondition(p, obs)
           IN  /\ q \in Params
               /\ q.metric = p.metric /\ q.error = p.error /\ q.op = p.op
               /\ q.id = p.id \/ \E o \in Matching(p, obs) : q.id = o.id
               /\ Matching(q, obs) = Matching(p, obs)
               /\ q.id \in IdsOf(obs) \/ Matching(q, obs) = {}
<1>1. CASE p.id \in IdsOf(obs) \/ Matching(p, obs) = {}
  BY <1>1 DEF LateInitCondition
<1>2. CASE ~(p.id \in IdsOf(obs) \/ Matching(p, obs) = {})
  <2>1. PICK o \in Matching(p, obs) : o = CHOOSE x \in Matching(p, obs) : TRUE
    BY <1>2
  <2>2. o \in obs /\ o.id \in Ids /\ o.id \in IdsOf(obs)
    BY <2>1 DEF Matching, Observation, IdsOf
  <2>3. LateInitCondition(p, obs) = [p EXCEPT !.id = o.id]
    BY <1>2, <2>1 DEF LateInitCondition
  <2>. DEFINE q == [p EXCEPT !.id = o.id]
  <2>4. /\ q \in Params /\ q.id = o.id
        /\ q.metric = p.metric /\ q.error = p.error /\ q.op = p.op
    BY <2>2 DEF Params
  <2>5. Matching(q, obs) = Matching(p, obs)
    BY <2>4 DEF Matching
  <2>. QED BY <2>1, <2>2, <2>3, <2>4, <2>5
<1>. QED BY <1>1, <1>2

LEMMA LateInitType ==
    ASSUME NEW specs \in Seq(Params), NEW obs \in SUBSET Observation
    PROVE  LateInitConditions(specs, obs) \in Seq(Params)
BY LateInitConditionIs DEF LateInitConditions

\* A list of which every id is settled is late initialised already.
Settled(specs, obs) ==
    \A i \in DOMAIN specs : specs[i].id \in IdsOf(obs) \/ Matching(specs[i], obs) = {}

LEMMA LateInitSettled ==
    ASSUME NEW specs \in Seq(Params), NEW obs \in SUBSET Observation
    PROVE  /\ Settled(LateInitConditions(specs, obs), obs)
           /\ Settled(specs, obs) => LateInitConditions(specs, obs) = specs
<1>1. Settled(LateInitConditions(specs, obs), obs)
  BY LateInitConditionIs DEF Settled, LateInitConditions
<1>2. ASSUME Settled(specs, obs) PROVE LateInitConditions(specs, obs) = specs
  <2>1. \A i \in 1 .. Len(specs) : LateInitCondition(specs[i], obs) = specs[i]
    BY <1>2 DEF Settled, LateInitCondition
  <2>. QED BY <2>1 DEF LateInitConditions
<1>. QED BY <1>1, <1>2

----------------------------------------------------------------------------
(* Associations.                                                            *)

\* Either side of an association is what it should be, or Nil.
LEMMA AssociationType ==
    ASSUME NEW specs \in Seq(Params), NEW obs \in SUBSET Observation
    PROVE  Associations(specs, obs)
               \subseteq [spec : Params \cup {Nil}, obs : Observation \cup {Nil}]
<1>1. ASSUME NEW k PROVE SpecAt(k, specs) \in Params \cup {Nil}
  <2>1. LastAt(k, specs) \subseteq DOMAIN specs
    BY DEF LastAt
  <2>2. \A i \in DOMAIN specs : specs[i] \in Params
    OBVIOUS
  <2>. QED BY <2>1, <2>2 DEF SpecAt
<1>2. ASSUME NEW k PROVE ObservationAt(k, obs) \in Observation \cup {Nil}
  BY DEF ObservationAt
<1>. QED BY <1>1, <1>2 DEF Associations

\* Every nonempty set of positions has a last one.
LEMMA LastOne ==
    ASSUME NEW n \in Nat, NEW T \in SUBSET (1 .. n), T # {}
    PROVE  \E x \in T : \A y \in T : y <= x
<1>. DEFINE FromEnd == {n - i : i \in T}
            R == OpToRel(<, Nat)
<1>0. \A i \in T : n - i \in Nat
  OBVIOUS
<1>1. FromEnd \subseteq Nat /\ FromEnd # {} /\ \A i \in T : n - i \in FromEnd
  BY <1>0
<1>2. IsWellFoundedOn(R, Nat)
  BY NatLessThanWellFounded
<1>. HIDE DEF R, FromEnd
<1>3. PICK d \in FromEnd : \A e \in FromEnd : ~ (<<e, d>> \in R)
  BY <1>1, <1>2, WFMin
<1>4. PICK x \in T : d = n - x
  BY <1>3 DEF FromEnd
<1>5. ASSUME NEW y \in T PROVE y <= x
  <2>1. <<n - y, n - x>> \notin R
    BY <1>1, <1>3, <1>4
  <2>2. n - y \in Nat /\ n - x \in Nat
    OBVIOUS
  <2>3. n - y < n - x => <<n - y, n - x>> \in R
    BY <2>2 DEF R, OpToRel
  <2>. QED BY <2>1, <2>3
<1>. QED BY <1>5

\* A desired condition and an observed one are associated by id.
LEMMA KeysMeet ==
    ASSUME NEW p \in Params, NEW o \in Observation
    PROVE  SpecKey(p) = ObsKey(o) <=> p.id = o.id
<1>1. o.id # Nil
  BY NilAssumption DEF Observation
<1>2. "new" # "id"
  OBVIOUS
<1>. QED BY <1>1, <1>2 DEF SpecKey, ObsKey

\* The key of a desired condition finds one that shares the key.
LEMMA SpecAtKey ==
    ASSUME NEW specs \in Seq(Params), NEW i \in DOMAIN specs
    PROVE  \E j \in DOMAIN specs : /\ SpecAt(SpecKey(specs[i]), specs) = specs[j]
                                   /\ SpecKey(specs[j]) = SpecKey(specs[i])
<1>. DEFINE k == SpecKey(specs[i])
            T == {j \in DOMAIN specs : SpecKey(specs[j]) = k}
<1>1. T \in SUBSET (1 .. Len(specs)) /\ T # {} /\ Len(specs) \in Nat
  OBVIOUS
<1>2. PICK x \in T : \A y \in T : y <= x
  BY <1>1, LastOne
<1>3. x \in LastAt(k, specs)
  BY <1>2 DEF LastAt
<1>4. PICK j \in LastAt(k, specs) : SpecAt(k, specs) = specs[j]
  BY <1>3 DEF SpecAt
<1>. QED BY <1>4 DEF LastAt

\* Conversely what a key finds has that key.
LEMMA SpecAtHasKey ==
    ASSUME NEW specs \in Seq(Params), NEW k, SpecAt(k, specs) # Nil
    PROVE  \E j \in DOMAIN specs : SpecAt(k, specs) = specs[j] /\ SpecKey(specs[j]) = k
BY DEF SpecAt, LastAt

LEMMA ObservationAtKey ==
    ASSUME NEW obs \in SUBSET Observation, DistinctIds(obs), NEW o \in obs
    PROVE  ObservationAt(ObsKey(o), obs) = o
<1>1. ASSUME NEW x \in obs, ObsKey(x) = ObsKey(o) PROVE x = o
  BY <1>1 DEF ObsKey, DistinctIds
<1>2. \E x \in obs : ObsKey(x) = ObsKey(o)
  OBVIOUS
<1>. QED BY <1>1, <1>2 DEF ObservationAt

\* What Update is to delete: exactly the observed conditions whose id no desired
\* one carries.
LEMMA FindMissingIs ==
    ASSUME NEW specs \in Seq(Params), NEW obs \in SUBSET Observation, DistinctIds(obs)
    PROVE  FindMissing(Associations(specs, obs)) =
               {o \in obs : \A i \in DOMAIN specs : specs[i].id # o.id}
<1>a. \A i \in DOMAIN specs : specs[i] \in Params /\ specs[i] # Nil
  BY NilAssumption
<1>b. \A o \in obs : o \in Observation /\ o # Nil
  BY NilAssumption
<1>1. ASSUME NEW o \in FindMissing(Associations(specs, obs))
      PROVE  o \in obs /\ \A i \in DOMAIN specs : specs[i].id # o.id
  <2>1. PICK k \in AssociationKeys(specs, obs) :
            SpecAt(k, specs) = Nil /\ o = ObservationAt(k, obs) /\ o # Nil
    BY DEF FindMissing, Associations
  <2>2. o \in obs /\ ObsKey(o) = k
    BY <2>1 DEF ObservationAt
  <2>3. ASSUME NEW i \in DOMAIN specs, specs[i].id = o.id PROVE FALSE
    BY <1>a, <1>b, <2>1, <2>2, <2>3, KeysMeet, SpecAtKey
  <2>. QED BY <2>2, <2>3
<1>2. ASSUME NEW o \in obs, \A i \in DOMAIN specs : specs[i].id # o.id
      PROVE  o \in FindMissing(Associations(specs, obs))
  <2>1. SpecAt(ObsKey(o), specs) = Nil
    BY <1>a, <1>b, <1>2, KeysMeet, SpecAtHasKey
  <2>2. ObservationAt(ObsKey(o), obs) = o
    BY ObservationAtKey
  <2>3. [spec |-> Nil, obs |-> o] \in Associations(specs, obs)
    BY <2>1, <2>2 DEF Associations, AssociationKeys
  <2>. QED BY <1>b, <2>3 DEF FindMissing
<1>. QED BY <1>1, <1>2

\* What Update is to create: desired conditions whose id is not observed; all of
\* them, where no key is shared.
LEMMA FindNonExistingIs ==
    ASSUME NEW specs \in Seq(Params), NEW obs \in SUBSET Observation
    PROVE  LET new == FindNonExisting(Associations(specs, obs))
           IN  /\ \A p \in new : \E i \in DOMAIN specs :
                      p = specs[i] /\ p.id \notin IdsOf(obs)
               /\ \A i \in DOMAIN specs : specs[i].id \notin IdsOf(obs) =>
                      \E p \in new : SpecKey(p) = SpecKey(specs[i])
<1>. DEFINE new == FindNonExisting(Associations(specs, obs))
<1>a. \A i \in DOMAIN specs : specs[i] \in Params /\ specs[i] # Nil
  BY NilAssumption
<1>b. \A o \in obs : o \in Observation /\ o # Nil
  BY NilAssumption
<1>1. ASSUME NEW p \in new
      PROVE  \E i \in DOMAIN specs : p = specs[i] /\ p.id \notin IdsOf(obs)
  <2>1. PICK k \in AssociationKeys(specs, obs) :
            p = SpecAt(k, specs) /\ p # Nil /\ ObservationAt(k, obs) = Nil
    BY DEF FindNonExisting, Associations
  <2>2. PICK i \in DOMAIN specs : p = specs[i] /\ SpecKey(p) = k
    BY <2>1, SpecAtHasKey
  <2>3. ASSUME NEW o \in obs, o.id = p.id PROVE FALSE
    <3>1. ObsKey(o) = k
      BY <1>a, <1>b, <2>2, <2>3, KeysMeet
    <3>. QED BY <1>b, <2>1, <3>1 DEF ObservationAt
  <2>. QED BY <2>2, <2>3 DEF IdsOf
<1>2. ASSUME NEW i \in DOMAIN specs, specs[i].id \notin IdsOf(obs)
      PROVE  \E p \in new : SpecKey(p) = SpecKey(specs[i])
  <2>. DEFINE k == SpecKey(specs[i])
  <2>1. PICK j \in DOMAIN specs : SpecAt(k, specs) = specs[j] /\ SpecKey(specs[j]) = k
    BY SpecAtKey
  <2>2. \A o \in obs : ObsKey(o) # k
    BY <1>a, <1>b, <1>2, KeysMeet DEF IdsOf
  <2>3. ObservationAt(k, obs) = Nil
    BY <2>2 DEF ObservationAt
  <2>4. [spec |-> specs[j], obs |-> Nil] \in Associations(specs, obs)
    BY <2>1, <2>3 DEF Associations, AssociationKeys
  <2>5. specs[j] \in new
    BY <1>a, <2>4 DEF FindNonExisting
  <2>. QED BY <2>1, <2>5
<1>. QED BY <1>1, <1>2

\* The pairs of a desired and an observed condition with one id.
LEMMA PairsAre ==
    ASSUME NEW specs \in Seq(Params), NEW obs \in SUBSET Observation, DistinctIds(obs)
    PROVE  /\ \A a \in Associations(specs, obs) : a.spec # Nil /\ a.obs # Nil =>
                  /\ a.obs \in obs
                  /\ \E i \in DOMAIN specs : a.spec = specs[i] /\ specs[i].id = a.obs.id
           /\ \A i \in DOMAIN specs : \A o \in obs : specs[i].id = o.id =>
                  \E j \in DOMAIN specs :
                      /\ specs[j].id = o.id
                      /\ [spec |-> specs[j], obs |-> o] \in Associations(specs, obs)
<1>a. \A i \in DOMAIN specs : specs[i] \in Params /\ specs[i] # Nil
  BY NilAssumption
<1>b. \A o \in obs : o \in Observation /\ o # Nil
  BY NilAssumption
<1>1. ASSUME NEW a \in Associations(specs, obs), a.spec # Nil, a.obs # Nil
      PROVE  /\ a.obs \in obs
             /\ \E i \in DOMAIN specs : a.spec = specs[i] /\ specs[i].id = a.obs.id
  <2>1. PICK k \in AssociationKeys(specs, obs) :
            a.spec = SpecAt(k, specs) /\ a.obs = ObservationAt(k, obs)
    BY DEF Associations
  <2>2. a.obs \in obs /\ ObsKey(a.obs) = k
    BY <1>1, <2>1 DEF ObservationAt
  <2>3. PICK i \in DOMAIN specs : a.spec = specs[i] /\ SpecKey(specs[i]) = k
    BY <1>1, <2>1, SpecAtHasKey
  <2>. QED BY <1>a, <1>b, <2>2, <2>3, KeysMeet
<1>2. ASSUME NEW i \in DOMAIN specs, NEW o \in obs, specs[i].id = o.id
      PROVE  \E j \in DOMAIN specs :
                 /\ specs[j].id = o.id
                 /\ [spec |-> specs[j], obs |-> o] \in Associations(specs, obs)
  <2>1. SpecKey(specs[i]) = ObsKey(o)
    BY <1>a, <1>b, <1>2, KeysMeet
  <2>2. PICK j \in DOMAIN specs : /\ SpecAt(ObsKey(o), specs) = specs[j]
                                 /\ SpecKey(specs[j]) = ObsKey(o)
    BY <2>1, SpecAtKey
  <2>3. specs[j].id = o.id
    BY <1>a, <1>b, <2>2, KeysMeet
  <2>4. ObservationAt(ObsKey(o), obs) = o
    BY ObservationAtKey
  <2>. QED BY <2>2, <2>3, <2>4 DEF Associations, AssociationKeys
<1>. QED BY <1>1, <1>2

\* The UpdateCondition call is for the condition the desired one names by id:
\* *association.Spec.Id in its error path is never a nil dereference.
THEOREM UpdatesNamedById ==
    ASSUME NEW specs \in Seq(Params), NEW obs \in SUBSET Observation,
           NEW a \in FindNotUpToDate(Associations(specs, obs))
    PROVE  a.spec.id # Nil /\ a.spec.id = a.obs.id
<1>1. a.spec # Nil /\ a.obs # Nil
  BY DEF FindNotUpToDate
<1>2. PICK k \in AssociationKeys(specs, obs) :
          a = [spec |-> SpecAt(k, specs), obs |-> ObservationAt(k, obs)]
  BY DEF FindNotUpToDate, Associations
<1>3. a.obs \in obs /\ k = <<"id", a.obs.id>>
  BY <1>1, <1>2 DEF ObservationAt, ObsKey
<1>4. PICK i \in DOMAIN specs : a.spec = specs[i] /\ SpecKey(specs[i]) = k
  BY <1>1, <1>2 DEF SpecAt, LastAt
<1>5. a.spec.id # Nil
  BY <1>3, <1>4 DEF SpecKey
<1>6. a.spec.id = a.obs.id
  BY <1>3, <1>4, <1>5 DEF SpecKey
<1>. QED BY <1>5, <1>6

==============================================================================
