---------------------------- MODULE QualityGate ----------------------------
(***************************************************************************)
(* The QualityGate controller (internal/controller/qualitygate) driven by   *)
(* the managed reconciler of crossplane-runtime.                            *)
(*                                                                          *)
(* The steps of its external client are here, the steps of the reconcile    *)
(* around them in ManagedReconciler.  A step of a worker is one call: to    *)
(* SonarQube, or to the API server.  Between two steps users edit and       *)
(* delete MRs, an administrator changes SonarQube by hand, calls fail and   *)
(* the provider crashes.                                                    *)
(***************************************************************************)
EXTENDS QualityGateConditions

CONSTANTS
    MRs,            \* QualityGate managed resources
    GateNames,      \* names of quality gates
    BuiltIn,        \* the built-in gate of SonarQube
    NoName,         \* an external name no gate bears
    DefaultOp,      \* the operator SonarQube gives a condition that names none
    SpecName,       \* SpecName[c]: spec.forProvider.name, immutable
    Wants,          \* Wants[c]: the [default, conds] a user may write for c
    InitExt,        \* InitExt[c]: external names c may start with
    FaultyCalls,    \* the calls that may fail although SonarQube would serve them
    MaxEdits, MaxAdmin, MaxFaults, MaxCrashes   \* bounds

Calls == {"Show", "Create", "CreateReply", "SetAsDefault", "Destroy",
          "CreateCondition", "UpdateCondition", "DeleteCondition"}

Desired == [default : BOOLEAN \cup {Nil}, conds : Seq(Params)]

ASSUME GateAssumption ==
    /\ BuiltIn \in GateNames
    /\ NoName \notin GateNames
    /\ Nil \notin MRs
    /\ DefaultOp \in Ops
    /\ SpecName \in [MRs -> GateNames \ {BuiltIn}]
    /\ Wants \in [MRs -> SUBSET Desired]
    /\ InitExt \in [MRs -> SUBSET (GateNames \cup {NoName})]
    /\ FaultyCalls \subseteq Calls
    /\ {MaxEdits, MaxAdmin, MaxFaults, MaxCrashes} \subseteq Nat

VARIABLES
    \* SonarQube
    gates,      \* names of the gates that exist
    conds,      \* conds[n]: the conditions of gate n
    default,    \* the default gate
    \* the API server
    live,       \* the MRs that exist
    mr,         \* mr[c]: the stored object
    \* the workers
    pc,         \* pc[c]: the step the worker of c is at
    mem,        \* mem[c]: the worker's copy of the object
    stale,      \* stale[c]: the object changed since the copy was read
    verdict,    \* verdict[c]: what Observe returned
    todo,       \* todo[c]: the condition calls still to make
    \* bookkeeping of the model
    budget,     \* what is left of the bounds
    creator     \* creator[n]: the MR whose Create call made gate n

sonarVars  == <<gates, conds, default>>
apiVars    == <<live, mr>>
workerVars == <<pc, mem, stale, verdict, todo>>
vars == <<sonarVars, apiVars, workerVars, budget, creator>>

----------------------------------------------------------------------------
(* Objects.                                                                 *)

\* default, conds: spec.forProvider; seen: status.atProvider.conditions.
Object == [ext : GateNames \cup {NoName}, default : BOOLEAN \cup {Nil},
           conds : Seq(Params), seen : SUBSET Observation,
           pending : BOOLEAN, final : BOOLEAN, deleting : BOOLEAN]

NoObject == [ext |-> NoName, default |-> Nil, conds |-> <<>>, seen |-> {},
             pending |-> FALSE, final |-> FALSE, deleting |-> FALSE]

Todo == [del : SUBSET Observation, cre : SUBSET Params,
         upd : SUBSET [spec : Params, obs : Observation]]
NoTodo == [del |-> {}, cre |-> {}, upd |-> {}]

\* Which id takes the place of which when a list of conditions is decoded over
\* another, up to the end of the shorter one.  The same ids come in one order.
Lineups(old, new) ==
    IF old = new THEN {[id \in old |-> id]}
    ELSE {f \in UNION {[ids -> new] : ids \in SUBSET old} :
             /\ \A i, j \in DOMAIN f : f[i] = f[j] => i = j
             /\ DOMAIN f = old \/ {f[i] : i \in DOMAIN f} = new}

\* The conditions decoded from a reply take the place of those in memory, or
\* stay if it has none (omitempty).  A late initialised id points into the
\* latter (findMatchingObservationId), so it reads what is decoded there.
Decode(sent, stored) ==
    LET Pointer(i) == sent.conds[i].id # stored.conds[i].id
        Read(f) == [i \in DOMAIN sent.conds |->
                       IF Pointer(i) /\ sent.conds[i].id \in DOMAIN f
                         THEN [sent.conds[i] EXCEPT !.id = f[@]] ELSE sent.conds[i]]
    IN  IF stored.seen = {} THEN {sent}
        ELSE {[sent EXCEPT !.seen = stored.seen, !.conds = Read(f)] :
                 f \in Lineups(IdsOf(sent.seen), IdsOf(stored.seen))}

INSTANCE ManagedReconciler

PCs == {"idle", "observe", "finalize", "pending", "create", "createDefault", "record",
        "persist", "update", "sync", "report", "destroy", "unfinalize"}

TypeOK ==
    /\ gates \in SUBSET GateNames
    /\ conds \in [GateNames -> SUBSET Observation]
    /\ default \in GateNames
    /\ live \in SUBSET MRs
    /\ mr \in [MRs -> Object]
    /\ pc \in [MRs -> PCs]
    /\ mem \in [MRs -> Object]
    /\ stale \in [MRs -> BOOLEAN]
    /\ verdict \in [MRs -> Verdict]
    /\ todo \in [MRs -> Todo]
    /\ budget \in Budget
    /\ creator \in [GateNames -> MRs \cup {Nil}]

Init ==
    /\ \E S \in SUBSET GateNames : gates = S \cup {BuiltIn}
    /\ conds = [n \in GateNames |-> {}]
    /\ default = BuiltIn
    /\ live = MRs
    /\ \E want \in [MRs -> UNION {Wants[c] : c \in MRs}],
          ext \in [MRs -> GateNames \cup {NoName}] :
          /\ \A c \in MRs : want[c] \in Wants[c] /\ ext[c] \in InitExt[c]
          /\ mr = [c \in MRs |-> [NoObject EXCEPT !.ext = ext[c],
                       !.default = want[c].default, !.conds = want[c].conds]]
    /\ pc = [c \in MRs |-> "idle"]
    /\ mem = [c \in MRs |-> NoObject]
    /\ stale = [c \in MRs |-> FALSE]
    /\ verdict = [c \in MRs |-> Absent]
    /\ todo = [c \in MRs |-> NoTodo]
    /\ budget = [edits |-> MaxEdits, admin |-> MaxAdmin,
                 faults |-> MaxFaults, crashes |-> MaxCrashes]
    /\ creator = [n \in GateNames |-> Nil]

----------------------------------------------------------------------------
(* SonarQube and the API server, as the provider uses them.                 *)

AllConditions == UNION {conds[n] : n \in GateNames}

\* Ids are never reused: a new one is unknown to every object and worker.
KnownIds ==
    IdsOf(AllConditions) \cup UNION
        { IdsOf(o.seen) \cup {o.conds[i].id : i \in DOMAIN o.conds} :
            o \in {mr[c] : c \in live} \cup {mem[c] : c \in MRs} }
NewIds == Ids \ KnownIds
NewId == CHOOSE id \in NewIds : TRUE

\* Mutant: an unset operator is sent as it is.
HeldRaw(p, id) == [id |-> id, metric |-> p.metric, error |-> p.error, op |-> p.op]

Held(p, id) ==
    [id |-> id, metric |-> p.metric, error |-> p.error,
     op |-> IF p.op = Nil THEN DefaultOp ELSE p.op]

----------------------------------------------------------------------------
(* The external client: Observe and Create.                                 *)

\* Mutant: a gate that is not found is an error, and the MR queued again.
ObserveAbsentAsError(c) ==
    /\ pc[c] = "observe"
    /\ mem[c].ext \notin gates
    /\ Goto(c, "report")
    /\ UNCHANGED <<sonarVars, apiVars, mem, stale, verdict, todo, budget, creator>>

\* Observe, nothing found: the external name is empty or of no gate, or Show
\* failed for any other reason.  Every error reads as "does not exist".
ObserveAbsent(c) ==
    /\ pc[c] = "observe"
    /\ \/ mem[c].ext \notin gates /\ UNCHANGED budget
       \/ mem[c].ext \in gates /\ Fault("Show")
    /\ ObserveReturns(c, Absent)
    /\ UNCHANGED <<sonarVars, apiVars, mem, stale, todo, creator>>

\* Observe, the gate found: the status takes what was seen, the desired state
\* is late initialised from it, and the verdict compares the two.
ObservePresent(c) ==
    LET ext  == mem[c].ext
        seen == conds[ext]
        dflt == AssignIfNil(mem[c].default, default = ext)
        cs   == LateInitConditions(mem[c].conds, seen)
        v    == [exists   |-> TRUE,
                 late     |-> dflt # mem[c].default
                              \/ WereConditionsLateInitialized(mem[c].conds, cs),
                 upToDate |-> IsQualityGateUpToDate(SpecName[c], dflt, ext, default = ext,
                                                    Associations(cs, seen))]
    IN  /\ pc[c] = "observe"
        /\ ext \in gates
        /\ mem' = [mem EXCEPT ![c].seen = seen, ![c].default = dflt, ![c].conds = cs]
        /\ ObserveReturns(c, v)
        /\ UNCHANGED <<sonarVars, apiVars, stale, todo, budget, creator>>

\* Mutant: the external name is set at the end of Create, so not when a
\* SetAsDefault call is to follow.
CreateOkNameLast(c) ==
    /\ pc[c] = "create"
    /\ SpecName[c] \notin gates
    /\ gates' = gates \cup {SpecName[c]}
    /\ conds' = [conds EXCEPT ![SpecName[c]] = {}]
    /\ creator' = [creator EXCEPT ![SpecName[c]] = c]
    /\ mem' = [mem EXCEPT ![c].ext = IF mem[c].default = TRUE THEN @ ELSE SpecName[c]]
    /\ Goto(c, IF mem[c].default = TRUE THEN "createDefault" ELSE "record")
    /\ UNCHANGED <<default, apiVars, stale, verdict, todo, budget>>

\* Create, the call that makes the gate.  The external name is set from the
\* reply, before anything else can fail.
CreateOk(c) ==
    /\ pc[c] = "create"
    /\ SpecName[c] \notin gates
    /\ gates' = gates \cup {SpecName[c]}
    /\ conds' = [conds EXCEPT ![SpecName[c]] = {}]
    /\ creator' = [creator EXCEPT ![SpecName[c]] = c]
    /\ mem' = [mem EXCEPT ![c].ext = SpecName[c]]
    /\ Goto(c, IF mem[c].default = TRUE THEN "createDefault" ELSE "record")
    /\ UNCHANGED <<default, apiVars, stale, verdict, todo, budget>>

\* Mutant: the external name is set before the call, and stays when it fails.
CreateFailsNamed(c) ==
    /\ pc[c] = "create"
    /\ SpecName[c] \in gates
    /\ mem' = [mem EXCEPT ![c].ext = SpecName[c]]
    /\ Goto(c, "record")
    /\ UNCHANGED <<sonarVars, apiVars, stale, verdict, todo, budget, creator>>

\* Create fails: SonarQube has a gate of that name, or could not be reached.
CreateFails(c) ==
    /\ pc[c] = "create"
    /\ \/ SpecName[c] \in gates /\ UNCHANGED budget
       \/ SpecName[c] \notin gates /\ Fault("Create")
    /\ Goto(c, "record")
    /\ UNCHANGED <<sonarVars, apiVars, mem, stale, verdict, todo, creator>>

\* Create fails for the provider only: the gate is made, the reply lost.
CreateReplyLost(c) ==
    /\ pc[c] = "create"
    /\ SpecName[c] \notin gates
    /\ Fault("CreateReply")
    /\ gates' = gates \cup {SpecName[c]}
    /\ conds' = [conds EXCEPT ![SpecName[c]] = {}]
    /\ creator' = [creator EXCEPT ![SpecName[c]] = c]
    /\ Goto(c, "record")
    /\ UNCHANGED <<default, apiVars, mem, stale, verdict, todo>>

\* Create, the SetAsDefault call for the gate just made.  If it fails Create
\* returns the error; the external name stays set on the copy.
CreateSetAsDefault(c) ==
    /\ pc[c] = "createDefault"
    /\ \/ SpecName[c] \in gates /\ default' = SpecName[c] /\ UNCHANGED budget
       \/ SpecName[c] \notin gates /\ UNCHANGED <<default, budget>>
       \/ Fault("SetAsDefault") /\ UNCHANGED default
    /\ Goto(c, "record")
    /\ UNCHANGED <<gates, conds, apiVars, mem, stale, verdict, todo, creator>>

----------------------------------------------------------------------------
(* Update and syncQualityGateConditions.                                    *)

\* The calls the associations ask for, read off the desired list and the
\* status the copy holds by now.
Plan(object) ==
    LET assocs == Associations(object.conds, object.seen)
    IN  [del |-> FindMissing(assocs), cre |-> FindNonExisting(assocs),
         upd |-> FindNotUpToDate(assocs)]

Continue(c, t) ==
    /\ todo' = [todo EXCEPT ![c] = t]
    /\ Goto(c, IF t = NoTodo THEN "report" ELSE "sync")

\* An error ends Update; the status is written and the MR queued again.
Abandon(c) ==
    /\ todo' = [todo EXCEPT ![c] = NoTodo]
    /\ Goto(c, "report")

\* SetAsDefault is called with the name of the spec, not the external name.
UpdateStart(c) ==
    /\ pc[c] = "update"
    /\ \/ /\ mem[c].default = TRUE /\ SpecName[c] \in gates
          /\ default' = SpecName[c]
          /\ Continue(c, Plan(mem[c]))
          /\ UNCHANGED budget
       \/ /\ mem[c].default = TRUE
          /\ \/ SpecName[c] \notin gates /\ UNCHANGED budget
             \/ SpecName[c] \in gates /\ Fault("SetAsDefault")
          /\ Abandon(c)
          /\ UNCHANGED default
       \/ /\ mem[c].default # TRUE
          /\ Continue(c, Plan(mem[c]))
          /\ UNCHANGED <<default, budget>>
    /\ UNCHANGED <<gates, conds, apiVars, mem, stale, verdict, creator>>

\* deleteUnwantedQualityGateConditions: by id, in any order.
DeleteCondition(c) ==
    /\ pc[c] = "sync"
    /\ \E o \in todo[c].del :
          \/ /\ o.id \in IdsOf(AllConditions)
             /\ conds' = [n \in GateNames |-> {x \in conds[n] : x.id # o.id}]
             /\ Continue(c, [todo[c] EXCEPT !.del = @ \ {o}])
             /\ UNCHANGED budget
          \/ /\ \/ o.id \notin IdsOf(AllConditions) /\ UNCHANGED budget
                \/ o.id \in IdsOf(AllConditions) /\ Fault("DeleteCondition")
             /\ Abandon(c)
             /\ UNCHANGED conds
    /\ UNCHANGED <<gates, default, apiVars, mem, stale, verdict, creator>>

\* SonarQube takes a new condition for an existing gate and a metric the gate
\* has no condition on.
Accepts(n, metric) == n \in gates /\ \A o \in conds[n] : o.metric # metric

\* Mutant: the create call names the gate of the spec.
CreateConditionBySpecName(c) ==
    /\ pc[c] = "sync"
    /\ todo[c].del = {}
    /\ \E p \in todo[c].cre :
          /\ Accepts(SpecName[c], p.metric)
          /\ NewIds # {}
          /\ conds' = [conds EXCEPT ![SpecName[c]] = @ \cup {Held(p, NewId)}]
          /\ Continue(c, [todo[c] EXCEPT !.cre = @ \ {p}])
    /\ UNCHANGED <<gates, default, apiVars, mem, stale, verdict, budget, creator>>

\* Mutant: conditions are created before the unwanted ones are deleted.
CreateConditionFirst(c) ==
    LET ext == mem[c].ext
    IN  /\ pc[c] = "sync"
        /\ \E p \in todo[c].cre :
              \/ /\ Accepts(ext, p.metric)
                 /\ NewIds # {}
                 /\ conds' = [conds EXCEPT ![ext] = @ \cup {Held(p, NewId)}]
                 /\ Continue(c, [todo[c] EXCEPT !.cre = @ \ {p}])
              \/ ~Accepts(ext, p.metric) /\ Abandon(c) /\ UNCHANGED conds
        /\ UNCHANGED <<gates, default, apiVars, mem, stale, verdict, budget, creator>>

\* createMissingQualityGateConditions, once nothing is left to delete.
CreateCondition(c) ==
    LET ext == mem[c].ext
    IN  /\ pc[c] = "sync"
        /\ todo[c].del = {}
        /\ \E p \in todo[c].cre :
              \/ /\ Accepts(ext, p.metric)
                 /\ NewIds # {}
                 /\ conds' = [conds EXCEPT ![ext] = @ \cup {Held(p, NewId)}]
                 /\ Continue(c, [todo[c] EXCEPT !.cre = @ \ {p}])
                 /\ UNCHANGED budget
              \/ /\ \/ ~Accepts(ext, p.metric) /\ UNCHANGED budget
                    \/ Accepts(ext, p.metric) /\ Fault("CreateCondition")
                 /\ Abandon(c)
                 /\ UNCHANGED conds
        /\ UNCHANGED <<gates, default, apiVars, mem, stale, verdict, creator>>

\* updateOutdatedQualityGateConditions, once nothing is left to create.
UpdateCondition(c) ==
    /\ pc[c] = "sync"
    /\ todo[c].del = {} /\ todo[c].cre = {}
    /\ \E a \in todo[c].upd :
          \/ /\ a.obs.id \in IdsOf(AllConditions)
             /\ conds' = [n \in GateNames |->
                    {IF x.id = a.obs.id THEN Held(a.spec, x.id) ELSE x : x \in conds[n]}]
             /\ Continue(c, [todo[c] EXCEPT !.upd = @ \ {a}])
             /\ UNCHANGED budget
          \/ /\ \/ a.obs.id \notin IdsOf(AllConditions) /\ UNCHANGED budget
                \/ a.obs.id \in IdsOf(AllConditions) /\ Fault("UpdateCondition")
             /\ Abandon(c)
             /\ UNCHANGED conds
    /\ UNCHANGED <<gates, default, apiVars, mem, stale, verdict, creator>>

----------------------------------------------------------------------------
(* Delete.                                                                  *)

\* SonarQube keeps its default and its built-in gate.
Destroyable(n) == n \in gates /\ n # default /\ n # BuiltIn

\* Mutant: Delete goes by the name of the spec.
DestroyBySpecName(c) ==
    /\ pc[c] = "destroy"
    /\ Destroyable(SpecName[c])
    /\ gates' = gates \ {SpecName[c]}
    /\ conds' = [conds EXCEPT ![SpecName[c]] = {}]
    /\ creator' = [creator EXCEPT ![SpecName[c]] = Nil]
    /\ Goto(c, "report")
    /\ UNCHANGED <<default, apiVars, mem, stale, verdict, todo, budget>>

\* Delete: by external name.
Destroy(c) ==
    LET ext == mem[c].ext
    IN  /\ pc[c] = "destroy"
        /\ \/ /\ Destroyable(ext)
              /\ gates' = gates \ {ext}
              /\ conds' = [conds EXCEPT ![ext] = {}]
              /\ creator' = [creator EXCEPT ![ext] = Nil]
              /\ UNCHANGED budget
           \/ /\ \/ ~Destroyable(ext) /\ UNCHANGED budget
                 \/ Destroyable(ext) /\ Fault("Destroy")
              /\ UNCHANGED <<gates, conds, creator>>
        /\ Goto(c, "report")
        /\ UNCHANGED <<default, apiVars, mem, stale, verdict, todo>>

\* The steps of the reconcile around the external client.
Runtime(c) ==
    /\ \/ Reconcile(c) \/ AddFinalizer(c) \/ AnnounceCreate(c) \/ RecordCreate(c)
       \/ PersistLateInit(c) \/ ReportStatus(c) \/ RemoveFinalizer(c) \/ Conflict(c)
    /\ UNCHANGED <<sonarVars, creator>>

Worker(c) ==
    \/ Runtime(c)
    \/ ObserveAbsent(c) \/ ObservePresent(c)
    \/ CreateOk(c) \/ CreateFails(c) \/ CreateReplyLost(c) \/ CreateSetAsDefault(c)
    \/ UpdateStart(c) \/ DeleteCondition(c) \/ CreateCondition(c) \/ UpdateCondition(c)
    \/ Destroy(c)

----------------------------------------------------------------------------
(* The environment.                                                         *)

\* Ids written back by late initialisation are kept by an edit in place, on
\* the conditions whose metric stays.
KeepIds(new, old) ==
    LET Same(p) == {i \in DOMAIN old : old[i].metric = p.metric}
    IN  [i \in 1..Len(new) |->
            IF Same(new[i]) = {} THEN new[i]
            ELSE [new[i] EXCEPT !.id = old[CHOOSE j \in Same(new[i]) : TRUE].id]]

\* The user writes another desired state: applied as a whole list, which drops
\* the ids, or edited in place.  A default left out keeps the stored one.
EditSpec(c) ==
    /\ \E want \in Wants[c] :
          \E cs \in {want.conds, KeepIds(want.conds, mr[c].conds)} :
             Edit(c, [mr[c] EXCEPT !.default = IF want.default = Nil THEN @ ELSE want.default,
                                   !.conds = cs])
    /\ UNCHANGED <<sonarVars, creator>>

\* The administrator changes SonarQube; the built-in gate is read-only.
AdminAddCondition(n) ==
    /\ Admin
    /\ n # BuiltIn /\ NewIds # {}
    /\ \E m \in Metrics, e \in Errors, op \in Ops :
          /\ Accepts(n, m)
          /\ conds' = [conds EXCEPT ![n] = @ \cup
                           {[id |-> NewId, metric |-> m, error |-> e, op |-> op]}]
    /\ UNCHANGED <<gates, default, creator>>

AdminRemoveCondition(n) ==
    /\ Admin
    /\ \E o \in conds[n] : conds' = [conds EXCEPT ![n] = @ \ {o}]
    /\ UNCHANGED <<gates, default, creator>>

AdminSetDefault(n) ==
    /\ Admin
    /\ n \in gates /\ n # default
    /\ default' = n
    /\ UNCHANGED <<gates, conds, creator>>

AdminDestroy(n) ==
    /\ Admin
    /\ Destroyable(n)
    /\ gates' = gates \ {n}
    /\ conds' = [conds EXCEPT ![n] = {}]
    /\ creator' = [creator EXCEPT ![n] = Nil]
    /\ UNCHANGED <<default>>

Users ==
    \/ \E c \in MRs : EditSpec(c) \/ (DeleteMR(c) /\ UNCHANGED <<sonarVars, creator>>)
    \/ \E n \in GateNames :
          \/ AdminAddCondition(n) \/ AdminRemoveCondition(n)
          \/ AdminSetDefault(n) \/ AdminDestroy(n)

Restart == Crash /\ UNCHANGED <<sonarVars, creator>>

Next == (\E c \in MRs : Worker(c)) \/ Restart \/ Users

Spec == Init /\ [][Next]_vars

\* The work queue hands a worker every MR again, after an error or at the
\* latest after the poll interval, and a reconcile once started runs on.
Fairness == \A c \in MRs : WF_vars(Worker(c))

FairSpec == Spec /\ Fairness

----------------------------------------------------------------------------
(* Properties.                                                              *)

\* No gate is leaked: a gate an MR's Create call made is reachable from the
\* MR, by its recorded external name or through the announced creation that
\* blocks it.  Holds when Show fails only for absent gates and no reply of
\* Create is lost.  Create sets the external name before SetAsDefault may
\* fail, RecordCreate persists it on either outcome, and the finalizer goes
\* only after Observe found nothing.
CreatedGatesTracked ==
    \A c \in MRs : \A n \in gates :
        creator[n] = c => c \in live /\ (mr[c].ext = n \/ mr[c].pending)

\* Why it holds: TrackingInv is inductive (QualityGateProofs).  The record is
\* written by the worker alone, so a copy agrees with it on the external name
\* until Create sets that; no worker that is about to announce, to create or to
\* let its object go has a gate; and one that created keeps the name at hand.
Creating == {"create", "createDefault", "record"}

GateHeld(c, n) ==
    /\ n \in gates /\ n = SpecName[c]
    /\ c \in live /\ mr[c].final
    /\ mr[c].ext = n \/ mr[c].pending

CopyAgrees(c) ==
    /\ ~stale[c] => c \in live
    /\ pc[c] \in Creating <=> mr[c].pending
    /\ mem[c].pending = mr[c].pending
    /\ pc[c] \notin {"createDefault", "record"} => mem[c].ext = mr[c].ext
    /\ pc[c] \in {"pending", "persist"} => mem[c].final
    /\ pc[c] \in Creating => c \in live /\ mr[c].final

HasNoGate(c) ==
    \/ pc[c] \in {"pending", "create", "unfinalize"}
    \/ pc[c] = "finalize" /\ ~verdict[c].exists

Tracked(c) ==
    /\ pc[c] # "idle" => CopyAgrees(c)
    /\ \A n \in GateNames :
          creator[n] = c =>
              /\ GateHeld(c, n)
              /\ ~HasNoGate(c)
              /\ pc[c] \in {"createDefault", "record"} => mem[c].ext = n

TrackingInv == \A c \in MRs : Tracked(c)

\* Of two MRs that specify the same name, and were not told to import it, at
\* most one takes the gate for its own: Create fails for the other and leaves
\* its external name alone.
NoSharedGate ==
    \A c, d \in live : c # d /\ mr[c].ext = mr[d].ext /\ mr[c].ext \in gates =>
        mr[c].deleting \/ mr[d].deleting

\* The gates and their MRs, as ResourceLife has them: the controller keeps its
\* promise whatever is changed by hand, fails or crashes.  Holds when Show fails
\* only for absent gates and no reply of Create is lost.
Life == INSTANCE ResourceLife WITH
            Resources <- GateNames, Nobody <- Nil, there <- gates, owner <- creator,
            leaving <- {c \in live : mr[c].deleting}, name <- [c \in MRs |-> mr[c].ext],
            hands <- budget.admin
KeepsLife == Life!Spec

\* The worker of c takes a step of its own.
Steps(c) == pc[c] # "idle" /\ <<pc[c], todo[c]>>' # <<pc[c], todo[c]>>

\* A worker destroys a gate only for an MR that is being deleted, and only one
\* that MR made or was told to import.
DestroysOnlyOwn ==
    [][\A c \in MRs : pc[c] = "destroy" /\ Steps(c) =>
          \A n \in gates \ gates' :
              /\ c \in live /\ mr[c].deleting
              /\ creator[n] = c \/ (creator[n] = Nil /\ n \in InitExt[c])]_vars

\* Condition calls go by id, from a status that may be old: they reach no
\* other gate than the one the external name names.
OnlyOwnConditions ==
    [][\A c \in MRs : pc[c] = "sync" /\ Steps(c) =>
          \A n \in GateNames \ {mem[c].ext} : conds'[n] = conds[n]]_vars

\* The metric of a condition is left alone where its id is kept.
MetricsKept(specs, obs) ==
    \A i \in DOMAIN specs : \A o \in obs : specs[i].id = o.id => specs[i].metric = o.metric

\* A list and a status with one condition for each metric, the ids of the list
\* on the metrics they stand for.
Unambiguous(object) ==
    /\ DistinctMetrics(object.conds)
    /\ OnePerMetric(object.seen)
    /\ MetricsKept(object.conds, object.seen)

\* What a condition of the gate does for the desired state it goes on doing:
\* none that was seen and is asked for is deleted, or changed into something
\* else.  Holds of reconciles that late initialise nothing, so that no pointer
\* of the list leads into the status: otherwise it is false, see
\* DeletesUnneeded.
WantedConditionsSurvive ==
    [][\A c \in MRs : pc[c] = "sync" /\ Steps(c) /\ ~verdict[c].late /\ Unambiguous(mem[c]) =>
          \A i \in DOMAIN mem[c].conds,
             o \in mem[c].seen \cap (conds[mem[c].ext] \ conds'[mem[c].ext]) :
              Asks(mem[c].conds[i], o) =>
                  \E x \in conds'[mem[c].ext] : x.id = o.id /\ Asks(mem[c].conds[i], x)]_vars


\* A gate in sync with the desired state of its MR.
InSync(c) ==
    /\ mr[c].ext \in gates
    /\ Realises(mr[c].conds, conds[mr[c].ext])
    /\ mr[c].default = TRUE => default = mr[c].ext

\* What no reconcile gets past: an unfinished creation, a gate of that name the
\* MR was not told to import, or a list two of whose conditions ended up with
\* one id, which Observe takes for one condition.
Blocked(c) ==
    \/ mr[c].pending
    \/ mr[c].ext \notin gates /\ SpecName[c] \in gates
    \/ \E i, j \in DOMAIN mr[c].conds :
          i # j /\ mr[c].conds[i].id = mr[c].conds[j].id /\ mr[c].conds[i].id # Nil

\* Left alone, every MR ends up with its gate in sync, whatever was changed by
\* hand, failed or crashed before.
GateConverges ==
    \A c \in MRs : <>[](c \notin live \/ mr[c].deleting \/ Blocked(c) \/ InSync(c))

\* A deleted MR goes, unless its gate is the default one or its creation was
\* left unfinished.
DeletionCompletes ==
    \A c \in MRs :
        <>[](c \in live /\ mr[c].deleting => mr[c].pending \/ mr[c].ext = default)
============================================================================
