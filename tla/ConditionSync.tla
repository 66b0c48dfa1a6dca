--------------------------- MODULE ConditionSync ---------------------------
(***************************************************************************)
(* One undisturbed pass over the conditions of a quality gate: Observe late *)
(* initialises the desired list, Update carries out the plan read off the   *)
(* associations.  Nothing else touches the gate, so this module asks what   *)
(* the algorithm itself promises, over every desired list (stale, shared    *)
(* and hand-written ids included) and every gate.                           *)
(***************************************************************************)
EXTENDS QualityGateConditions

CONSTANTS
    DefaultOp,      \* the operator SonarQube gives a condition that names none
    FirstId,        \* FirstId[m]: the id of the gate's condition on metric m
    OldIds,         \* ids a desired list may carry in; the others are unused yet
    MaxConditions   \* bound: length of a desired list

ASSUME SyncAssumption ==
    /\ DefaultOp \in Ops
    /\ FirstId \in [Metrics -> OldIds]
    /\ \A m, n \in Metrics : FirstId[m] = FirstId[n] => m = n
    /\ OldIds \subseteq Ids
    /\ MaxConditions \in Nat
    \* SonarQube does not run out of ids.
    /\ \E f \in [1..MaxConditions -> Ids \ OldIds] :
          \A i, j \in 1..MaxConditions : f[i] = f[j] => i = j

VARIABLES
    specs,  \* spec.forProvider.conditions
    obs,    \* the conditions of the gate
    step    \* where the pass is

vars == <<specs, obs, step>>

Steps == {"observe", "update", "done", "failed"}

TypeOK ==
    /\ specs \in Seq(Params)
    /\ obs \in SUBSET Observation
    /\ step \in Steps

\* Ids are interchangeable, so the gate's conditions carry the ids of FirstId.
Init ==
    /\ \E n \in 0..MaxConditions :
          specs \in [1..n -> {p \in Params : p.id \in OldIds \cup {Nil}}]
    /\ obs \in {os \in SUBSET {o \in Observation : o.id = FirstId[o.metric]} : OnePerMetric(os)}
    /\ step = "observe"

----------------------------------------------------------------------------
\* Mutant: an unset operator is sent as it is.
HeldRaw(p, id) == [id |-> id, metric |-> p.metric, error |-> p.error, op |-> p.op]

\* The condition SonarQube holds after a create or an update call for p.
Held(p, id) ==
    [id |-> id, metric |-> p.metric, error |-> p.error,
     op |-> IF p.op = Nil THEN DefaultOp ELSE p.op]

\* Observe: LateInitializeQualityGate on the desired list.
Observe ==
    /\ step = "observe"
    /\ specs' = LateInitConditions(specs, obs)
    /\ step' = "update"
    /\ UNCHANGED obs

\* What is left once deleteUnwantedQualityGateConditions is through.
Kept(assocs) == obs \ FindMissing(assocs)

\* createMissingQualityGateConditions runs next: SonarQube refuses a second
\* condition on a metric.
Clash(assocs) ==
    \/ \E p \in FindNonExisting(assocs) : \E o \in Kept(assocs) : o.metric = p.metric
    \/ \E p, q \in FindNonExisting(assocs) : p # q /\ p.metric = q.metric

FreshIds == Ids \ OldIds

\* Update, when no create call is refused: the unwanted conditions deleted,
\* the missing ones created, the outdated ones updated.
Sync(assocs) ==
    LET new == FindNonExisting(assocs)
        old == FindNotUpToDate(assocs)
        id  == CHOOSE f \in [new -> FreshIds] : \A p, q \in new : f[p] = f[q] => p = q
    IN  /\ ~Clash(assocs)
        /\ obs' = (Kept(assocs) \ {a.obs : a \in old})
                     \cup {Held(p, id[p]) : p \in new}
                     \cup {Held(a.spec, a.obs.id) : a \in old}
        /\ step' = "done"

\* Update, when a create call is refused: the pass ends there, the outdated
\* conditions not looked at.
Refused(assocs) ==
    /\ Clash(assocs)
    /\ obs' = Kept(assocs)
    /\ step' = "failed"

Update ==
    /\ step = "update"
    /\ LET assocs == Associations(specs, obs) IN Sync(assocs) \/ Refused(assocs)
    /\ UNCHANGED specs

Next == Observe \/ Update

Spec == Init /\ [][Next]_vars

----------------------------------------------------------------------------
(* Properties.                                                              *)

UnsharedIds ==
    \A i, j \in DOMAIN specs : specs[i].id = specs[j].id /\ specs[i].id # Nil => i = j

\* The metric of a condition is left alone where its id is kept.
MetricsKept ==
    \A i \in DOMAIN specs : \A o \in obs : specs[i].id = o.id => specs[i].metric = o.metric

\* The verdict of Observe on the conditions (all associations up to date)
\* misses no difference between the gate and the desired list, however stale
\* the ids of the list, and although of two new conditions on one metric the
\* first is left out of the associations, as long as no two desired conditions
\* end up with one id; and it raises no false alarm where the metrics differ
\* and ids have kept theirs.
VerdictExact ==
    step = "update" /\ UnsharedIds =>
        LET upToDate == AreConditionsUpToDate(Associations(specs, obs))
        IN  /\ upToDate => Realises(specs, obs)
            /\ DistinctMetrics(specs) /\ MetricsKept /\ Realises(specs, obs) => upToDate

\* A pass of Update that is not refused leaves a gate that realises the list.
SyncRealises ==
    step = "done" /\ DistinctMetrics(specs) /\ UnsharedIds => Realises(specs, obs)

\* Deleting first makes room: a list that keeps the metric of each condition
\* it knows by id never has a create call refused.
NeverRefused ==
    step = "update" /\ DistinctMetrics(specs) /\ UnsharedIds /\ MetricsKept =>
        ~Clash(Associations(specs, obs))

\* What updateOutdatedQualityGateConditions is given carries the id of its
\* observation: the error path's *association.Spec.Id never reads nil, and the
\* call is for the condition the desired one names.
UpdatesHaveIds ==
    \A a \in FindNotUpToDate(Associations(specs, obs)) : a.spec.id = a.obs.id

\* Late initialisation is idempotent: a second Observe of the same gate does
\* not report the list late initialised again, so the reconciler settles.
LateInitSettles ==
    step = "update" =>
        ~WereConditionsLateInitialized(specs, LateInitConditions(specs, obs))

============================================================================
