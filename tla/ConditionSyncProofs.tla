------------------------- MODULE ConditionSyncProofs -------------------------
(***************************************************************************)
(* Theorems about one pass of Observe and Update over the conditions of a   *)
(* gate, for every desired list, every gate, every set of metrics, errors,  *)
(* operators and ids.                                                       *)
(***************************************************************************)
EXTENDS ConditionSync, QualityGateConditionsProofs

\* What a pass can rely on: SonarQube keeps one condition for a metric, each with
\* an id of its own, and after Observe every id of the list is settled.
SyncInv ==
    /\ TypeOK
    /\ Len(specs) <= MaxConditions
    /\ step \in {"observe", "update"} => OnePerMetric(obs) /\ DistinctIds(obs)
    /\ step = "update" => Settled(specs, obs)

LEMMA InitSync == Init => SyncInv
<1>. SUFFICES ASSUME Init PROVE SyncInv
  OBVIOUS
<1>1. PICK n \in 0 .. MaxConditions :
          specs \in [1 .. n -> {p \in Params : p.id \in OldIds \cup {Nil}}]
  BY DEF Init
<1>2. specs \in Seq(Params) /\ Len(specs) = n
  BY <1>1, SyncAssumption
<1>3. /\ obs \in SUBSET Observation /\ OnePerMetric(obs)
      /\ \A o \in obs : o.id = FirstId[o.metric]
  BY DEF Init
<1>4. DistinctIds(obs)
  BY <1>3, SyncAssumption DEF DistinctIds, OnePerMetric, Observation
<1>. QED BY <1>1, <1>2, <1>3, <1>4 DEF Init, SyncInv, TypeOK, Steps

----------------------------------------------------------------------------
(* What Update makes of the gate.                                           *)

LEMMA HeldIs ==
    ASSUME NEW p \in Params, NEW id \in Ids
    PROVE  /\ Held(p, id) \in Observation /\ Asks(p, Held(p, id))
           /\ Held(p, id).id = id /\ Held(p, id).metric = p.metric
BY SyncAssumption DEF Held, Params, Observation, Asks

\* A pass creates no more conditions than the list is long, so there are unused
\* ids for all of them.
LEMMA IdsSuffice ==
    ASSUME SyncInv, NEW new, \A p \in new : \E i \in DOMAIN specs : p = specs[i]
    PROVE  \E f \in [new -> FreshIds] : \A p, q \in new : f[p] = f[q] => p = q
<1>1. PICK g \in [1 .. MaxConditions -> Ids \ OldIds] :
          \A i, j \in 1 .. MaxConditions : g[i] = g[j] => i = j
  BY SyncAssumption
<1>. DEFINE at(p) == CHOOSE i \in DOMAIN specs : p = specs[i]
<1>2. \A i \in DOMAIN specs : i \in 1 .. MaxConditions
  BY SyncAssumption DEF SyncInv, TypeOK
<1>3. \A p \in new : at(p) \in DOMAIN specs /\ p = specs[at(p)]
  OBVIOUS
<1>. HIDE DEF at
<1>. DEFINE f == [p \in new |-> g[at(p)]]
<1>4. f \in [new -> FreshIds]
  BY <1>1, <1>2, <1>3 DEF FreshIds
<1>5. \A p, q \in new : f[p] = f[q] => p = q
  BY <1>1, <1>2, <1>3
<1>. QED BY <1>4, <1>5

\* The gate after an Update that is not refused, condition by condition.
LEMMA SyncIs ==
    ASSUME SyncInv, step = "update", Sync(Associations(specs, obs))
    PROVE  LET assocs == Associations(specs, obs)
               new    == FindNonExisting(assocs)
               old    == FindNotUpToDate(assocs)
           IN  /\ new \subseteq Params /\ old \subseteq [spec : Params, obs : Observation]
               /\ \E id \in [new -> FreshIds] :
                     obs' = (Kept(assocs) \ {a.obs : a \in old})
                                \cup {Held(p, id[p]) : p \in new}
                                \cup {Held(a.spec, a.obs.id) : a \in old}
<1>. DEFINE assocs == Associations(specs, obs)
            new    == FindNonExisting(assocs)
            old    == FindNotUpToDate(assocs)
<1>1. specs \in Seq(Params) /\ obs \in SUBSET Observation
  BY DEF SyncInv, TypeOK
<1>2. assocs \subseteq [spec : Params \cup {Nil}, obs : Observation \cup {Nil}]
  BY <1>1, AssociationType
<1>3. new \subseteq Params
  BY <1>2 DEF FindNonExisting
<1>4. old \subseteq [spec : Params, obs : Observation]
  BY <1>2 DEF FindNotUpToDate
<1>5. \A p \in new : \E i \in DOMAIN specs : p = specs[i]
  BY <1>1, FindNonExistingIs
<1>. HIDE DEF new, old, assocs
<1>. DEFINE id == CHOOSE f \in [new -> FreshIds] : \A p, q \in new : f[p] = f[q] => p = q
<1>6. id \in [new -> FreshIds]
  BY <1>5, IdsSuffice
<1>7. obs' = (Kept(assocs) \ {a.obs : a \in old})
                 \cup {Held(p, id[p]) : p \in new}
                 \cup {Held(a.spec, a.obs.id) : a \in old}
  BY DEF Sync, assocs, new, old
<1>. HIDE DEF id
<1>. QED BY <1>3, <1>4, <1>6, <1>7 DEF assocs, new, old

LEMMA StepSync == SyncInv /\ [Next]_vars => SyncInv'
<1>. SUFFICES ASSUME SyncInv, [Next]_vars PROVE SyncInv'
  OBVIOUS
<1>1. specs \in Seq(Params) /\ obs \in SUBSET Observation
  BY DEF SyncInv, TypeOK
<1>2. CASE Observe
  <2>1. specs' \in Seq(Params) /\ Len(specs') = Len(specs)
    <3>1. LateInitConditions(specs, obs) \in Seq(Params)
      BY <1>1, LateInitType
    <3>2. Len(LateInitConditions(specs, obs)) = Len(specs)
      BY <1>1 DEF LateInitConditions
    <3>. QED BY <1>2, <3>1, <3>2 DEF Observe
  <2>2. Settled(specs', obs)
    BY <1>1, <1>2, LateInitSettled DEF Observe
  <2>. QED BY <1>2, <2>1, <2>2 DEF Observe, SyncInv, TypeOK, Steps
<1>3. CASE step = "update" /\ UNCHANGED specs /\ Sync(Associations(specs, obs))
  <2>. DEFINE assocs == Associations(specs, obs)
              new    == FindNonExisting(assocs)
              old    == FindNotUpToDate(assocs)
  <2>1. new \subseteq Params /\ old \subseteq [spec : Params, obs : Observation]
    BY <1>3, SyncIs
  <2>2. PICK id \in [new -> FreshIds] :
            obs' = (Kept(assocs) \ {a.obs : a \in old})
                       \cup {Held(p, id[p]) : p \in new}
                       \cup {Held(a.spec, a.obs.id) : a \in old}
    BY <1>3, SyncIs
  <2>. HIDE DEF new, old, assocs
  <2>3. \A p \in new : p \in Params /\ id[p] \in Ids
    BY <2>1 DEF FreshIds
  <2>4. \A a \in old : a.spec \in Params /\ a.obs.id \in Ids
    BY <2>1 DEF Observation
  <2>5. {Held(p, id[p]) : p \in new} \subseteq Observation
    BY <2>3, HeldIs
  <2>6. {Held(a.spec, a.obs.id) : a \in old} \subseteq Observation
    BY <2>4, HeldIs
  <2>7. obs' \subseteq Observation
    BY <1>1, <2>2, <2>5, <2>6 DEF Kept
  <2>. QED BY <1>3, <2>7 DEF Sync, SyncInv, TypeOK, Steps
<1>4. CASE step = "update" /\ UNCHANGED specs /\ Refused(Associations(specs, obs))
  BY <1>1, <1>4 DEF Refused, Kept, SyncInv, TypeOK, Steps
<1>5. CASE UNCHANGED vars
  BY <1>5 DEF vars, SyncInv, TypeOK
<1>. QED BY <1>2, <1>3, <1>4, <1>5 DEF Next, Update

LEMMA SyncInvariant == Spec => []SyncInv
BY InitSync, StepSync, PTL DEF Spec

\* The variables keep their types: late initialisation and the calls of Update
\* never make up a condition the CRD or SonarQube does not admit.
THEOREM TypeCorrect == Spec => []TypeOK
<1>1. SyncInv => TypeOK
  BY DEF SyncInv
<1>. QED BY <1>1, SyncInvariant, PTL

\* A second Observe of the same gate reports nothing late initialised, so the
\* reconciler does not persist and requeue for ever.
THEOREM LateInitialisationSettles == Spec => []LateInitSettles
<1>1. SyncInv => LateInitSettles
  <2>. SUFFICES ASSUME SyncInv, step = "update"
                PROVE  ~WereConditionsLateInitialized(specs, LateInitConditions(specs, obs))
    BY DEF LateInitSettles
  <2>1. LateInitConditions(specs, obs) = specs
    BY LateInitSettled DEF SyncInv, TypeOK
  <2>. QED BY <2>1 DEF WereConditionsLateInitialized
<1>. QED BY <1>1, SyncInvariant, PTL

\* UpdateCondition is called for the condition the desired one names by id.
THEOREM OutdatedCarryIds == Spec => []UpdatesHaveIds
<1>1. SyncInv => UpdatesHaveIds
  BY UpdatesNamedById DEF SyncInv, TypeOK, UpdatesHaveIds
<1>. QED BY <1>1, SyncInvariant, PTL

----------------------------------------------------------------------------
(* The verdict of Observe.                                                  *)

\* An association of a desired condition that is up to date names an observed
\* condition it asks for.
LEMMA UpToDateAsks ==
    ASSUME NEW p, NEW o, IsConditionUpToDate(p, o)
    PROVE  Asks(p, o)
BY DEF IsConditionUpToDate, PtrEq, Asks

LEMMA VerdictSound ==
    ASSUME SyncInv, step = "update", UnsharedIds,
           AreConditionsUpToDate(Associations(specs, obs))
    PROVE  Realises(specs, obs)
<1>. DEFINE assocs == Associations(specs, obs)
<1>a. specs \in Seq(Params) /\ obs \in SUBSET Observation /\ DistinctIds(obs)
  BY DEF SyncInv, TypeOK
<1>b. \A i \in DOMAIN specs : specs[i] \in Params /\ specs[i] # Nil
  BY <1>a, NilAssumption
<1>c. \A o \in obs : o \in Observation /\ o.id # Nil /\ o # Nil
  BY <1>a, NilAssumption DEF Observation
<1>1. \A a \in assocs : a.spec # Nil /\ a.obs # Nil /\ IsConditionUpToDate(a.spec, a.obs)
  BY DEF AreConditionsUpToDate, UpToDate
<1>2. FindMissing(assocs) = {} /\ FindNonExisting(assocs) = {}
  BY <1>1 DEF FindMissing, FindNonExisting
<1>. HIDE DEF assocs
<1>3. ASSUME NEW i \in DOMAIN specs, NEW o \in obs, specs[i].id = o.id
      PROVE  Asks(specs[i], o)
  <2>1. PICK j \in DOMAIN specs : specs[j].id = o.id /\ [spec |-> specs[j], obs |-> o] \in assocs
    BY <1>a, <1>3, PairsAre DEF assocs
  <2>2. i = j
    BY <1>3, <1>c, <2>1 DEF UnsharedIds
  <2>. QED BY <1>1, <2>1, <2>2, UpToDateAsks
<1>4. ASSUME NEW i \in DOMAIN specs PROVE \E o \in obs : Asks(specs[i], o)
  <2>1. specs[i].id \in IdsOf(obs)
    BY <1>a, <1>2, FindNonExistingIs DEF assocs
  <2>. QED BY <1>3, <2>1 DEF IdsOf
<1>5. ASSUME NEW o \in obs PROVE \E i \in DOMAIN specs : Asks(specs[i], o)
  <2>1. \E i \in DOMAIN specs : specs[i].id = o.id
    BY <1>a, <1>2, FindMissingIs DEF assocs
  <2>. QED BY <1>3, <2>1
<1>. QED BY <1>4, <1>5 DEF Realises

LEMMA VerdictComplete ==
    ASSUME SyncInv, step = "update", UnsharedIds, DistinctMetrics(specs), MetricsKept,
           Realises(specs, obs)
    PROVE  AreConditionsUpToDate(Associations(specs, obs))
<1>. DEFINE assocs == Associations(specs, obs)
<1>a. /\ specs \in Seq(Params) /\ obs \in SUBSET Observation
      /\ DistinctIds(obs) /\ OnePerMetric(obs) /\ Settled(specs, obs)
  BY DEF SyncInv, TypeOK
<1>b. \A i \in DOMAIN specs : specs[i] \in Params /\ specs[i] # Nil
  BY <1>a, NilAssumption
<1>c. \A o \in obs : o \in Observation /\ o.id # Nil /\ o # Nil
  BY <1>a, NilAssumption DEF Observation
<1>. HIDE DEF assocs
\* The condition a desired one asks for is the one it names.
<1>1. ASSUME NEW i \in DOMAIN specs, NEW o \in obs, Asks(specs[i], o)
      PROVE  specs[i].id = o.id
  <2>1. o \in Matching(specs[i], obs)
    BY <1>1 DEF Asks, Matching, PtrEq
  <2>2. PICK x \in obs : specs[i].id = x.id
    BY <1>a, <2>1 DEF Settled, IdsOf
  <2>3. x.metric = o.metric
    BY <1>1, <2>2 DEF MetricsKept, Asks
  <2>. QED BY <1>a, <2>2, <2>3 DEF OnePerMetric
<1>2. ASSUME NEW i \in DOMAIN specs, NEW o \in obs, specs[i].id = o.id
      PROVE  IsConditionUpToDate(specs[i], o)
  <2>1. PICK x \in obs : Asks(specs[i], x)
    BY DEF Realises
  <2>2. x = o
    BY <1>1, <1>2, <1>a, <2>1 DEF DistinctIds
  <2>. QED BY <2>1, <2>2 DEF Asks, IsConditionUpToDate, PtrEq
<1>3. FindMissing(assocs) = {}
  BY <1>1, <1>a, FindMissingIs DEF Realises, assocs
<1>4. FindNonExisting(assocs) = {}
  <2>1. \A i \in DOMAIN specs : specs[i].id \in IdsOf(obs)
    BY <1>1 DEF Realises, IdsOf
  <2>. QED BY <1>a, <2>1, FindNonExistingIs DEF assocs
<1>5. ASSUME NEW a \in assocs PROVE UpToDate(a)
  <2>1. a.spec # Nil \/ a.obs # Nil
    <3>1. PICK k \in AssociationKeys(specs, obs) :
              a.spec = SpecAt(k, specs) /\ a.obs = ObservationAt(k, obs)
      BY DEF assocs, Associations
    <3>2. CASE k \in {ObsKey(o) : o \in obs}
      BY <1>a, <1>c, <3>1, <3>2, ObservationAtKey
    <3>3. CASE k \in {SpecKey(specs[i]) : i \in DOMAIN specs}
      BY <1>a, <1>b, <3>1, <3>3, SpecAtKey
    <3>. QED BY <3>2, <3>3 DEF AssociationKeys
  <2>2. a.spec # Nil /\ a.obs # Nil
    BY <1>3, <1>4, <2>1 DEF FindMissing, FindNonExisting
  <2>3. a.obs \in obs /\ \E i \in DOMAIN specs : a.spec = specs[i] /\ specs[i].id = a.obs.id
    BY <1>a, <2>2, PairsAre DEF assocs
  <2>. QED BY <1>2, <2>2, <2>3 DEF UpToDate
<1>. QED BY <1>5 DEF AreConditionsUpToDate, assocs

\* "Up to date" misses no difference, however stale the ids of the list, and is
\* said whenever the gate has what is asked for and ids kept their metrics.
THEOREM VerdictIsExact == Spec => []VerdictExact
<1>1. SyncInv => VerdictExact
  BY VerdictSound, VerdictComplete DEF VerdictExact
<1>. QED BY <1>1, SyncInvariant, PTL

----------------------------------------------------------------------------
(* The plan of Update.                                                      *)

\* Deleting what no desired condition names makes room for what is created: no
\* create call meets a condition on its metric.
THEOREM CreatesAreNotRefused == Spec => []NeverRefused
<1>1. SyncInv => NeverRefused
  <2>. SUFFICES ASSUME SyncInv, step = "update", DistinctMetrics(specs), UnsharedIds,
                       MetricsKept
                PROVE  ~Clash(Associations(specs, obs))
    BY DEF NeverRefused
  <2>. DEFINE assocs == Associations(specs, obs)
  <2>a. specs \in Seq(Params) /\ obs \in SUBSET Observation /\ DistinctIds(obs)
    BY DEF SyncInv, TypeOK
  <2>1. \A p \in FindNonExisting(assocs) :
            \E i \in DOMAIN specs : p = specs[i] /\ p.id \notin IdsOf(obs)
    BY <2>a, FindNonExistingIs
  <2>2. \A o \in Kept(assocs) : o \in obs /\ \E i \in DOMAIN specs : specs[i].id = o.id
    BY <2>a, FindMissingIs DEF Kept
  <2>. HIDE DEF assocs
  <2>3. ASSUME NEW p \in FindNonExisting(assocs), NEW o \in Kept(assocs), o.metric = p.metric
        PROVE  FALSE
    <3>1. PICK i \in DOMAIN specs : p = specs[i] /\ p.id \notin IdsOf(obs)
      BY <2>1
    <3>2. PICK j \in DOMAIN specs : specs[j].id = o.id
      BY <2>2
    <3>3. specs[j].metric = specs[i].metric
      BY <2>2, <2>3, <3>1, <3>2 DEF MetricsKept
    <3>. QED BY <2>2, <3>1, <3>2, <3>3 DEF DistinctMetrics, IdsOf
  <2>4. ASSUME NEW p \in FindNonExisting(assocs), NEW q \in FindNonExisting(assocs),
               p.metric = q.metric
        PROVE  p = q
    BY <2>1, <2>4 DEF DistinctMetrics
  <2>. QED BY <2>3, <2>4 DEF Clash, assocs
<1>. QED BY <1>1, SyncInvariant, PTL

\* An Update that is not refused leaves the gate as the list asks for.
LEMMA SyncMakes ==
    ASSUME SyncInv, step = "update", UNCHANGED specs, Sync(Associations(specs, obs)),
           DistinctMetrics(specs), UnsharedIds
    PROVE  Realises(specs, obs')
<1>. DEFINE assocs == Associations(specs, obs)
            new    == FindNonExisting(assocs)
            old    == FindNotUpToDate(assocs)
<1>a. specs \in Seq(Params) /\ obs \in SUBSET Observation /\ DistinctIds(obs)
  BY DEF SyncInv, TypeOK
<1>b. \A i \in DOMAIN specs : specs[i] \in Params /\ specs[i] # Nil
  BY <1>a, NilAssumption
<1>c. \A o \in obs : o \in Observation /\ o.id # Nil /\ o # Nil /\ o.id \in Ids
  BY <1>a, NilAssumption DEF Observation
<1>1. new \subseteq Params /\ old \subseteq [spec : Params, obs : Observation]
  BY SyncIs
<1>2. PICK id \in [new -> FreshIds] :
          obs' = (Kept(assocs) \ {a.obs : a \in old})
                     \cup {Held(p, id[p]) : p \in new}
                     \cup {Held(a.spec, a.obs.id) : a \in old}
  BY SyncIs
<1>3. \A p \in new : p \in Params /\ id[p] \in Ids
  BY <1>1 DEF FreshIds
<1>4. /\ \A p \in new : \E i \in DOMAIN specs : p = specs[i]
      /\ \A i \in DOMAIN specs : specs[i].id \notin IdsOf(obs) =>
            \E p \in new : SpecKey(p) = SpecKey(specs[i])
  BY <1>a, FindNonExistingIs
<1>5. \A o \in obs : o \in Kept(assocs) <=> \E i \in DOMAIN specs : specs[i].id = o.id
  BY <1>a, FindMissingIs DEF Kept
<1>6. \A a \in old : /\ a.obs \in obs /\ ~IsConditionUpToDate(a.spec, a.obs)
                     /\ \E i \in DOMAIN specs : a.spec = specs[i] /\ specs[i].id = a.obs.id
  BY <1>a, PairsAre DEF FindNotUpToDate, UpToDate
<1>7. ASSUME NEW i \in DOMAIN specs, NEW o \in obs, specs[i].id = o.id
      PROVE  [spec |-> specs[i], obs |-> o] \in assocs
  <2>1. PICK j \in DOMAIN specs : specs[j].id = o.id /\ [spec |-> specs[j], obs |-> o] \in assocs
    BY <1>a, <1>7, PairsAre
  <2>2. i = j
    BY <1>7, <1>c, <2>1 DEF UnsharedIds
  <2>. QED BY <2>1, <2>2
<1>8. ASSUME NEW i \in DOMAIN specs, NEW o \in obs, specs[i].id = o.id,
             ~IsConditionUpToDate(specs[i], o)
      PROVE  [spec |-> specs[i], obs |-> o] \in old
  BY <1>7, <1>8, <1>b, <1>c DEF FindNotUpToDate, UpToDate
<1>. HIDE DEF assocs, new, old
\* Every desired condition is met: by a new one, ...
<1>9. ASSUME NEW i \in DOMAIN specs, specs[i].id \notin IdsOf(obs)
      PROVE  \E o \in obs' : Asks(specs[i], o)
  <2>1. PICK p \in new : SpecKey(p) = SpecKey(specs[i])
    BY <1>4, <1>9
  <2>2. PICK j \in DOMAIN specs : p = specs[j]
    BY <1>4
  <2>3. i = j
    <3>1. CASE specs[i].id = Nil
      <4>1. specs[j].id = Nil /\ specs[j].metric = specs[i].metric
        BY <2>1, <2>2, <3>1 DEF SpecKey
      <4>. QED BY <4>1 DEF DistinctMetrics
    <3>2. CASE specs[i].id # Nil
      <4>1. specs[j].id = specs[i].id
        BY <2>1, <2>2, <3>2 DEF SpecKey
      <4>. QED BY <4>1, <3>2 DEF UnsharedIds
    <3>. QED BY <3>1, <3>2
  <2>4. Held(p, id[p]) \in obs' /\ Asks(p, Held(p, id[p]))
    BY <1>2, <1>3, HeldIs
  <2>. QED BY <2>2, <2>3, <2>4
\* ... by one that is brought up to date, or by one that is so already.
<1>10. ASSUME NEW i \in DOMAIN specs, NEW o \in obs, specs[i].id = o.id
       PROVE  \E x \in obs' : Asks(specs[i], x)
  <2>1. CASE IsConditionUpToDate(specs[i], o)
    <3>1. o \in Kept(assocs)
      BY <1>5, <1>10
    <3>2. ASSUME NEW a \in old, a.obs = o PROVE FALSE
      <4>1. PICK j \in DOMAIN specs : a.spec = specs[j] /\ specs[j].id = o.id
        BY <1>6, <3>2
      <4>2. i = j
        BY <1>10, <1>c, <4>1 DEF UnsharedIds
      <4>. QED BY <1>6, <2>1, <3>2, <4>1, <4>2
    <3>3. o \in obs'
      BY <1>2, <3>1, <3>2
    <3>. QED BY <2>1, <3>3, UpToDateAsks
  <2>2. CASE ~IsConditionUpToDate(specs[i], o)
    <3>. DEFINE a == [spec |-> specs[i], obs |-> o]
    <3>1. a \in old
      BY <1>8, <1>10, <2>2
    <3>2. Held(a.spec, a.obs.id) \in obs'
      BY <1>2, <3>1
    <3>. QED BY <1>b, <1>c, <3>2, HeldIs
  <2>. QED BY <2>1, <2>2
\* Every condition of the gate is asked for.
<1>11. ASSUME NEW o \in obs' PROVE \E i \in DOMAIN specs : Asks(specs[i], o)
  <2>1. CASE o \in Kept(assocs) \ {a.obs : a \in old}
    <3>1. o \in obs
      BY <2>1 DEF Kept
    <3>2. PICK i \in DOMAIN specs : specs[i].id = o.id
      BY <1>5, <2>1, <3>1
    <3>3. CASE ~IsConditionUpToDate(specs[i], o)
      <4>1. [spec |-> specs[i], obs |-> o] \in old
        BY <1>8, <3>1, <3>2, <3>3
      <4>2. o \in {a.obs : a \in old}
        BY <4>1
      <4>. QED BY <2>1, <4>2
    <3>. QED BY <3>3, UpToDateAsks
  <2>2. CASE o \in {Held(p, id[p]) : p \in new}
    BY <1>3, <1>4, <2>2, HeldIs
  <2>3. CASE o \in {Held(a.spec, a.obs.id) : a \in old}
    <3>1. PICK a \in old : o = Held(a.spec, a.obs.id)
      BY <2>3
    <3>2. PICK i \in DOMAIN specs : a.spec = specs[i]
      BY <1>6
    <3>. QED BY <1>6, <1>b, <1>c, <3>1, <3>2, HeldIs
  <2>. QED BY <1>2, <2>1, <2>2, <2>3
<1>. QED BY <1>9, <1>10, <1>11 DEF Realises, IdsOf

\* The algorithm of Update is right: whatever the gate had and whatever ids the
\* list carried, an Update that is not refused makes the gate what is asked for.
THEOREM SyncIsCorrect == Spec => []SyncRealises
<1>1. Init => SyncRealises
  BY DEF Init, SyncRealises
<1>2. SyncInv /\ SyncRealises /\ [Next]_vars => SyncRealises'
  <2>. SUFFICES ASSUME SyncInv, SyncRealises, [Next]_vars PROVE SyncRealises'
    OBVIOUS
  <2>1. CASE Observe
    BY <2>1 DEF Observe, SyncRealises
  <2>2. CASE step = "update" /\ UNCHANGED specs /\ Sync(Associations(specs, obs))
    <3>1. UnsharedIds' <=> UnsharedIds
      BY <2>2 DEF UnsharedIds
    <3>. QED BY <2>2, <3>1, SyncMakes DEF SyncRealises
  <2>3. CASE step = "update" /\ UNCHANGED specs /\ Refused(Associations(specs, obs))
    BY <2>3 DEF Refused, SyncRealises
  <2>4. CASE UNCHANGED vars
    BY <2>4 DEF vars, SyncRealises, UnsharedIds
  <2>. QED BY <2>1, <2>2, <2>3, <2>4 DEF Next, Update
<1>. QED BY <1>1, <1>2, SyncInvariant, PTL DEF Spec
=============================================================================
