----------------------- MODULE QualityGateConditions -----------------------
(***************************************************************************)
(* The pure part of the QualityGate client package                          *)
(* (internal/clients/instance/qualitygate.go, qualitygate_condition.go):    *)
(* late initialisation of condition ids, the association of the desired     *)
(* conditions with the observed ones, and the comparisons made on both.     *)
(*                                                                          *)
(* A desired condition list is a sequence, as in the CRD.  The conditions   *)
(* SonarQube returns are a set: a gate has at most one condition for a      *)
(* metric, so the order of the JSON array tells nothing apart.                *)
(***************************************************************************)
EXTENDS Naturals, Sequences, FiniteSets, Helpers

CONSTANTS
    Metrics,    \* metric keys
    Errors,     \* error thresholds
    Ops,        \* comparison operators
    Ids         \* condition ids SonarQube hands out

\* QualityGateConditionParameters and QualityGateConditionObservation.
Params == [id : Ids \cup {Nil}, metric : Metrics, error : Errors, op : Ops \cup {Nil}]
Observation == [id : Ids, metric : Metrics, error : Errors, op : Ops]

ASSUME NilAssumption ==
    /\ Nil \notin Ids /\ Nil \notin Ops /\ Nil \notin BOOLEAN
    /\ Nil \notin Params /\ Nil \notin Observation

----------------------------------------------------------------------------
(* Late initialisation.                                                     *)

IdsOf(obs) == {o.id : o \in obs}

\* The observations findMatchingObservationId accepts for a desired condition.
Matching(p, obs) ==
    {o \in obs : p.metric = o.metric /\ p.error = o.error /\ PtrEq(p.op, o.op)}

\* Mutant: an id once set is never replaced, stale or not.
LateInitConditionOnce(p, obs) ==
    IF p.id # Nil \/ Matching(p, obs) = {}
      THEN p
      ELSE [p EXCEPT !.id = (CHOOSE o \in Matching(p, obs) : TRUE).id]

\* A desired condition whose id is unset or stale takes the id of a matching
\* observation; with no match it keeps what it had.
LateInitCondition(p, obs) ==
    IF p.id \in IdsOf(obs) \/ Matching(p, obs) = {}
      THEN p
      ELSE [p EXCEPT !.id = (CHOOSE o \in Matching(p, obs) : TRUE).id]

\* Mutant: ids are not late initialised.
LateInitConditionsOff(specs, obs) == specs

LateInitConditions(specs, obs) ==
    [i \in 1..Len(specs) |-> LateInitCondition(specs[i], obs)]

\* Mutant: two unset pointers compare as different.
WereConditionsLateInitializedNil(before, after) ==
    \/ Len(before) # Len(after)
    \/ \E i \in DOMAIN before : before[i].id # after[i].id \/ after[i].id = Nil

WereConditionsLateInitialized(before, after) ==
    \/ Len(before) # Len(after)
    \/ \E i \in DOMAIN before :
          before[i].id # after[i].id \/ before[i].op # after[i].op

----------------------------------------------------------------------------
(* Associations: the map keyed by condition id, or by "new:"metric for a    *)
(* desired condition that has no id.  Iterating over the desired list, the  *)
(* last condition with a key wins it.                                       *)

SpecKey(p) == IF p.id = Nil THEN <<"new", p.metric>> ELSE <<"id", p.id>>
ObsKey(o)  == <<"id", o.id>>

AssociationKeys(specs, obs) ==
    {ObsKey(o) : o \in obs} \cup {SpecKey(specs[i]) : i \in DOMAIN specs}

ObservationAt(k, obs) ==
    IF \E o \in obs : ObsKey(o) = k THEN CHOOSE o \in obs : ObsKey(o) = k ELSE Nil

\* The positions of desired conditions with key k that no later one shadows.
LastAt(k, specs) ==
    {i \in DOMAIN specs :
        /\ SpecKey(specs[i]) = k
        /\ \A j \in DOMAIN specs : SpecKey(specs[j]) = k => j <= i}

SpecAt(k, specs) ==
    IF LastAt(k, specs) = {} THEN Nil ELSE specs[CHOOSE i \in LastAt(k, specs) : TRUE]

IsConditionUpToDate(p, o) ==
    p.error = o.error /\ p.metric = o.metric /\ PtrEq(p.op, o.op)

\* Mutant: conditions are associated by metric.
AssociationsByMetric(specs, obs) ==
    {[spec |-> specs[i], obs |-> CHOOSE o \in obs : o.metric = specs[i].metric] :
        i \in {j \in DOMAIN specs : \E o \in obs : o.metric = specs[j].metric}}

Associations(specs, obs) ==
    {[spec |-> SpecAt(k, specs), obs |-> ObservationAt(k, obs)] :
        k \in AssociationKeys(specs, obs)}

\* The UpToDate flag of an association: set only where both sides are there.
UpToDate(a) == a.spec # Nil /\ a.obs # Nil /\ IsConditionUpToDate(a.spec, a.obs)

AreConditionsUpToDate(assocs) == \A a \in assocs : UpToDate(a)

\* Mutants: no condition is unwanted; a desired condition with an id exists.
FindMissingNone(assocs) == {}
FindNonExistingNew(assocs) ==
    {a.spec : a \in {x \in assocs : x.obs = Nil /\ x.spec # Nil /\ x.spec.id = Nil}}

FindMissing(assocs)     == {a.obs : a \in {x \in assocs : x.spec = Nil /\ x.obs # Nil}}
FindNonExisting(assocs) == {a.spec : a \in {x \in assocs : x.obs = Nil /\ x.spec # Nil}}
FindNotUpToDate(assocs) ==
    {a \in assocs : a.spec # Nil /\ a.obs # Nil /\ ~UpToDate(a)}

\* IsQualityGateUpToDate: names equal, the default flag compared through its
\* pointer, and every association up to date.
IsQualityGateUpToDate(name, isDefault, seenName, seenDefault, assocs) ==
    /\ name = seenName
    /\ PtrEq(isDefault, seenDefault)
    /\ AreConditionsUpToDate(assocs)

----------------------------------------------------------------------------
(* What the operators are compared with: a gate realises a desired list     *)
(* when its conditions are exactly those the list asks for.                 *)
Asks(p, o) == o.metric = p.metric /\ o.error = p.error /\ p.op \in {Nil, o.op}

Realises(specs, obs) ==
    /\ \A i \in DOMAIN specs : \E o \in obs : Asks(specs[i], o)
    /\ \A o \in obs : \E i \in DOMAIN specs : Asks(specs[i], o)

OnePerMetric(obs) == \A o1, o2 \in obs : o1.metric = o2.metric => o1 = o2
DistinctMetrics(specs) ==
    \A i, j \in DOMAIN specs : specs[i].metric = specs[j].metric => i = j
DistinctIds(obs) == \A o1, o2 \in obs : o1.id = o2.id => o1 = o2
============================================================================
