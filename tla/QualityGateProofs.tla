------------------------- MODULE QualityGateProofs -------------------------
(***************************************************************************)
(* Theorems about the QualityGate controller, for every set of MRs, gates,  *)
(* metrics and ids, and every bound.                                        *)
(***************************************************************************)
EXTENDS QualityGate, QualityGateConditionsProofs

----------------------------------------------------------------------------
(* The operators of QualityGate.                                            *)

\* The plan of Update: conditions to delete as observed, to create as desired,
\* and to update with both sides at hand.
LEMMA PlanType ==
    ASSUME NEW object \in Object
    PROVE  Plan(object) \in Todo
<1>1. object.conds \in Seq(Params) /\ object.seen \in SUBSET Observation
  BY DEF Object
<1>. DEFINE assocs == Associations(object.conds, object.seen)
<1>2. assocs \subseteq [spec : Params \cup {Nil}, obs : Observation \cup {Nil}]
  BY <1>1, AssociationType
<1>. HIDE DEF assocs
<1>3. FindMissing(assocs) \in SUBSET Observation
  BY <1>2 DEF FindMissing
<1>4. FindNonExisting(assocs) \in SUBSET Params
  BY <1>2 DEF FindNonExisting
<1>5. FindNotUpToDate(assocs) \in SUBSET [spec : Params, obs : Observation]
  BY <1>2 DEF FindNotUpToDate
<1>. QED BY <1>3, <1>4, <1>5 DEF Plan, Todo, assocs

\* What SonarQube holds after a create or an update call is an observation.
LEMMA HeldType ==
    ASSUME NEW p \in Params, NEW id \in Ids
    PROVE  Held(p, id) \in Observation
BY GateAssumption DEF Held, Params, Observation

LEMMA NewIdType == ASSUME NewIds # {} PROVE NewId \in Ids
BY DEF NewId, NewIds

LEMMA KeepIdsType ==
    ASSUME NEW new \in Seq(Params), NEW old \in Seq(Params)
    PROVE  KeepIds(new, old) \in Seq(Params)
<1>0. \A i \in DOMAIN old : old[i] \in Params
  OBVIOUS
<1>1. \A i \in DOMAIN old : old[i].id \in Ids \cup {Nil}
  BY <1>0 DEF Params
<1>2. ASSUME NEW p \in Params,
             NEW S \in SUBSET (DOMAIN old), S # {}
      PROVE  [p EXCEPT !.id = old[CHOOSE j \in S : TRUE].id] \in Params
  BY <1>1, <1>2 DEF Params
<1>. DEFINE Same(p) == {i \in DOMAIN old : old[i].metric = p.metric}
            Kept(p) == IF Same(p) = {} THEN p
                       ELSE [p EXCEPT !.id = old[CHOOSE j \in Same(p) : TRUE].id]
<1>3. \A p \in Params : Kept(p) \in Params
  BY <1>2
<1>4. KeepIds(new, old) = [i \in 1..Len(new) |-> Kept(new[i])]
  BY DEF KeepIds
<1>. HIDE DEF Kept
<1>. QED BY <1>3, <1>4

----------------------------------------------------------------------------
(* Type correctness.                                                        *)

LEMMA InitType == Init => TypeOK
<1>. SUFFICES ASSUME Init PROVE TypeOK
  OBVIOUS
<1>1. PICK want \in [MRs -> UNION {Wants[c] : c \in MRs}],
           ext \in [MRs -> GateNames \cup {NoName}] :
          /\ \A c \in MRs : want[c] \in Wants[c] /\ ext[c] \in InitExt[c]
          /\ mr = [c \in MRs |-> [NoObject EXCEPT !.ext = ext[c],
                       !.default = want[c].default, !.conds = want[c].conds]]
  BY DEF Init
<1>2. \A c \in MRs : want[c] \in Desired
  BY <1>1, GateAssumption
<1>3. mr \in [MRs -> Object]
  BY <1>1, <1>2 DEF NoObject, Object, Desired
<1>a. NoObject \in Object
  BY DEF NoObject, Object
<1>5. mem \in [MRs -> Object]
  BY <1>a DEF Init
<1>6. todo \in [MRs -> Todo] /\ verdict \in [MRs -> Verdict]
  BY DEF Init, NoTodo, Todo, Absent, Verdict
<1>7. budget \in Budget
  BY GateAssumption DEF Init, Budget
<1>. QED BY <1>3, <1>5, <1>6, <1>7, GateAssumption DEF Init, TypeOK, PCs

\* What a fault leaves of the budget.
LEMMA FaultType ==
    ASSUME TypeOK, NEW call, Fault(call)
    PROVE  budget' \in Budget
BY DEF TypeOK, Fault, Budget

\* The end of a reconcile keeps the workers' types.
LEMMA ForgetType ==
    ASSUME TypeOK, NEW c \in MRs, Forget(c)
    PROVE  /\ pc' \in [MRs -> PCs] /\ mem' \in [MRs -> Object]
           /\ stale' \in [MRs -> BOOLEAN] /\ verdict' \in [MRs -> Verdict]
           /\ todo' \in [MRs -> Todo]
<1>1. NoObject \in Object
  BY DEF NoObject, Object
<1>2. Absent \in Verdict /\ NoTodo \in Todo
  BY DEF Absent, Verdict, NoTodo, Todo
<1>. QED BY <1>1, <1>2 DEF TypeOK, Forget, Goto, PCs

\* What decoding a reply leaves of the copy that was sent.
LEMMA LineupType ==
    ASSUME NEW old, NEW new, NEW f \in Lineups(old, new), NEW id \in DOMAIN f
    PROVE  f[id] \in new
<1>1. CASE old = new
  BY <1>1 DEF Lineups
<1>2. CASE old # new
  <2>1. PICK ids \in SUBSET old : f \in [ids -> new]
    BY <1>2 DEF Lineups
  <2>. QED BY <2>1
<1>. QED BY <1>1, <1>2

LEMMA DecodeIs ==
    ASSUME NEW sent \in Object, NEW stored \in Object, NEW o \in Decode(sent, stored)
    PROVE  /\ o \in Object
           /\ o.ext = sent.ext /\ o.default = sent.default /\ o.pending = sent.pending
           /\ o.final = sent.final /\ o.deleting = sent.deleting
           /\ o.seen \in {stored.seen, sent.seen}
           /\ stored.seen = {} => o = sent
<1>1. CASE stored.seen = {}
  BY <1>1 DEF Decode
<1>2. CASE stored.seen # {}
  <2>. DEFINE Pointer(i) == sent.conds[i].id # stored.conds[i].id
              Read(f) == [i \in DOMAIN sent.conds |->
                  IF Pointer(i) /\ sent.conds[i].id \in DOMAIN f
                    THEN [sent.conds[i] EXCEPT !.id = f[@]] ELSE sent.conds[i]]
  <2>1. PICK f \in Lineups(IdsOf(sent.seen), IdsOf(stored.seen)) :
            o = [sent EXCEPT !.seen = stored.seen, !.conds = Read(f)]
    BY <1>2 DEF Decode
  <2>2. \A id \in DOMAIN f : f[id] \in Ids
    <3>1. IdsOf(stored.seen) \subseteq Ids
      BY DEF IdsOf, Object, Observation
    <3>. QED BY <3>1, LineupType
  <2>3. sent.conds \in Seq(Params)
    BY DEF Object
  <2>4. ASSUME NEW p \in Params, NEW id \in Ids PROVE [p EXCEPT !.id = id] \in Params
    BY DEF Params
  <2>5. \A i \in DOMAIN sent.conds : Read(f)[i] \in Params
    <3>. SUFFICES ASSUME NEW i \in DOMAIN sent.conds PROVE Read(f)[i] \in Params
      OBVIOUS
    <3>1. sent.conds[i] \in Params
      BY <2>3
    <3>2. CASE Pointer(i) /\ sent.conds[i].id \in DOMAIN f
      <4>1. [sent.conds[i] EXCEPT !.id = f[sent.conds[i].id]] \in Params
        BY <2>2, <2>4, <3>1, <3>2
      <4>. QED BY <3>2, <4>1
    <3>. QED BY <3>1, <3>2
  <2>6. Read(f) \in Seq(Params)
    <3>1. DOMAIN sent.conds = 1..Len(sent.conds) /\ Len(sent.conds) \in Nat
      BY <2>3
    <3>2. DOMAIN Read(f) = DOMAIN sent.conds
      OBVIOUS
    <3>. DEFINE list == Read(f)
    <3>3. list = [i \in DOMAIN list |-> list[i]]
      OBVIOUS
    <3>4. DOMAIN list = 1..Len(sent.conds) /\ \A i \in DOMAIN list : list[i] \in Params
      BY <2>5, <3>1, <3>2
    <3>. HIDE DEF list
    <3>5. list \in [1..Len(sent.conds) -> Params]
      BY <3>3, <3>4
    <3>6. list \in Seq(Params)
      BY <3>1, <3>5
    <3>. QED BY <3>6 DEF list
  <2>7. PICK list \in Seq(Params) : o = [sent EXCEPT !.seen = stored.seen, !.conds = list]
    BY <2>1, <2>6
  <2>. QED BY <1>2, <2>7 DEF Object
<1>. QED BY <1>1, <1>2

\* A write of the whole copy: the record becomes the copy but for the status,
\* and the copy what decoding leaves of it.
LEMMA ClientUpdateIs ==
    ASSUME TypeOK, NEW c \in MRs, NEW object \in Object, ClientUpdate(c, object)
    PROVE  /\ ~stale[c]
           /\ mr' \in [MRs -> Object] /\ mem' \in [MRs -> Object]
           /\ \A o \in {mr'[c], mem'[c]} :
                 /\ o.ext = object.ext /\ o.final = object.final
                 /\ o.pending = object.pending /\ o.deleting = object.deleting
           /\ mr'[c].conds = object.conds
           /\ mr'[c].seen = mr[c].seen /\ mem'[c].seen \in {mr[c].seen, object.seen}
           /\ mr[c].seen = {} => mem'[c].conds = object.conds /\ mem'[c].seen = object.seen
           /\ \A d \in MRs \ {c} : mr'[d] = mr[d] /\ mem'[d] = mem[d]
<1>1. mr[c] \in Object
  BY DEF TypeOK
<1>2. PICK copy \in Decode(object, mr[c]) : mem' = [mem EXCEPT ![c] = copy]
  BY DEF ClientUpdate
<1>3. /\ copy \in Object /\ copy.ext = object.ext /\ copy.pending = object.pending
      /\ copy.final = object.final /\ copy.deleting = object.deleting
      /\ copy.seen \in {mr[c].seen, object.seen}
      /\ mr[c].seen = {} => copy = object
  BY <1>1, DecodeIs
<1>4. mem' \in [MRs -> Object] /\ mem'[c] = copy /\ \A d \in MRs \ {c} : mem'[d] = mem[d]
  BY <1>2, <1>3 DEF TypeOK
<1>. DEFINE stored == [object EXCEPT !.seen = mr[c].seen]
<1>5. /\ stored \in Object /\ stored.ext = object.ext /\ stored.pending = object.pending
      /\ stored.final = object.final /\ stored.deleting = object.deleting
      /\ stored.conds = object.conds /\ stored.seen = mr[c].seen
  BY <1>1 DEF Object
<1>6. ~stale[c] /\ mr' = [mr EXCEPT ![c] = stored]
  BY DEF ClientUpdate
<1>. HIDE DEF stored
<1>7. mr' \in [MRs -> Object] /\ mr'[c] = stored /\ \A d \in MRs \ {c} : mr'[d] = mr[d]
  BY <1>5, <1>6 DEF TypeOK
<1>. QED BY <1>3, <1>4, <1>5, <1>6, <1>7

LEMMA ContinueType ==
    ASSUME TypeOK, NEW c \in MRs, NEW t \in Todo, Continue(c, t)
    PROVE  todo' \in [MRs -> Todo] /\ pc' \in [MRs -> PCs]
BY DEF TypeOK, Continue, Goto, PCs

LEMMA AbandonType ==
    ASSUME TypeOK, NEW c \in MRs, Abandon(c)
    PROVE  todo' \in [MRs -> Todo] /\ pc' \in [MRs -> PCs]
<1>1. NoTodo \in Todo
  BY DEF NoTodo, Todo
<1>. QED BY <1>1 DEF TypeOK, Abandon, Goto, PCs

LEMMA AfterObserveType == ASSUME NEW v PROVE AfterObserve(v) \in PCs
BY DEF AfterObserve, PCs

\* Every step of a worker keeps the types.
LEMMA WorkerType ==
    ASSUME TypeOK, NEW c \in MRs, Worker(c)
    PROVE  TypeOK'
<1>a. mem[c] \in Object /\ mr[c] \in Object /\ todo[c] \in Todo
  BY DEF TypeOK
<1>1. CASE Reconcile(c) /\ UNCHANGED <<sonarVars, creator>>
  BY <1>1 DEF TypeOK, Reconcile, Goto, PCs, sonarVars, apiVars
<1>2. CASE ObserveAbsent(c)
  <2>1. budget' \in Budget
    BY <1>2, FaultType DEF ObserveAbsent, ObserveReturns, TypeOK
  <2>2. pc' \in [MRs -> PCs]
    BY <1>2, AfterObserveType DEF ObserveAbsent, ObserveReturns, TypeOK, Goto, PCs
  <2>3. verdict' \in [MRs -> Verdict]
    BY <1>2 DEF ObserveAbsent, ObserveReturns, TypeOK, Absent, Verdict
  <2>. QED BY <1>2, <2>1, <2>2, <2>3 DEF TypeOK, ObserveAbsent, sonarVars, apiVars
<1>3. CASE ObservePresent(c)
  <2>. DEFINE ext  == mem[c].ext
              dflt == AssignIfNil(mem[c].default, default = ext)
              cs   == LateInitConditions(mem[c].conds, conds[ext])
              late == dflt # mem[c].default \/ WereConditionsLateInitialized(mem[c].conds, cs)
              utd  == IsQualityGateUpToDate(SpecName[c], dflt, ext, default = ext,
                                            Associations(cs, conds[ext]))
              v    == [exists |-> TRUE, late |-> late, upToDate |-> utd]
  <2>1. mem[c] \in Object /\ ext \in GateNames /\ conds[ext] \in SUBSET Observation
    BY <1>3 DEF ObservePresent, ObserveReturns, TypeOK
  <2>2. cs \in Seq(Params)
    BY <2>1, LateInitType DEF Object
  <2>3. dflt \in BOOLEAN \cup {Nil}
    BY <2>1 DEF AssignIfNil, Object
  <2>4. late \in BOOLEAN /\ utd \in BOOLEAN
    BY DEF WereConditionsLateInitialized, IsQualityGateUpToDate, AreConditionsUpToDate, PtrEq
  <2>5. v \in Verdict
    BY <2>4 DEF Verdict
  <2>. HIDE DEF cs, dflt, late, utd, v
  <2>6. [mem[c] EXCEPT !.seen = conds[ext], !.default = dflt, !.conds = cs] \in Object
    BY <2>1, <2>2, <2>3 DEF Object
  <2>7. mem' = [mem EXCEPT ![c] = [mem[c] EXCEPT !.seen = conds[ext], !.default = dflt, !.conds = cs]]
    BY <1>3 DEF ObservePresent, ObserveReturns, TypeOK, cs, dflt
  <2>8. mem' \in [MRs -> Object]
    BY <2>6, <2>7 DEF TypeOK
  <2>9. verdict' \in [MRs -> Verdict]
    BY <1>3, <2>5 DEF ObservePresent, ObserveReturns, TypeOK, v, late, utd, cs, dflt
  <2>10. pc' \in [MRs -> PCs]
    BY <1>3, AfterObserveType DEF ObservePresent, ObserveReturns, TypeOK, Goto, PCs
  <2>. QED BY <1>3, <2>8, <2>9, <2>10 DEF TypeOK, ObservePresent, sonarVars, apiVars
<1>4. CASE AddFinalizer(c) /\ UNCHANGED <<sonarVars, creator>>
  <2>1. [mem[c] EXCEPT !.final = TRUE] \in Object
    BY <1>a DEF Object
  <2>2. mr' \in [MRs -> Object] /\ mem' \in [MRs -> Object]
    BY <1>4, <2>1, ClientUpdateIs DEF AddFinalizer
  <2>3. pc' \in [MRs -> PCs]
    BY <1>4, AfterObserveType DEF AddFinalizer, Goto, TypeOK
  <2>. QED BY <1>4, <2>2, <2>3 DEF TypeOK, AddFinalizer, sonarVars
<1>5. CASE AnnounceCreate(c) /\ UNCHANGED <<sonarVars, creator>>
  <2>1. [mem[c] EXCEPT !.pending = TRUE] \in Object
    BY <1>a DEF Object
  <2>2. mr' \in [MRs -> Object] /\ mem' \in [MRs -> Object]
    BY <1>5, <2>1, ClientUpdateIs DEF AnnounceCreate
  <2>. QED BY <1>5, <2>2 DEF TypeOK, AnnounceCreate, sonarVars, Goto, PCs
<1>6. CASE CreateOk(c)
  <2>1. SpecName[c] \in GateNames
    BY GateAssumption
  <2>2. [mem[c] EXCEPT !.ext = SpecName[c]] \in Object
    BY <1>a, <2>1 DEF Object
  <2>3. mem' = [mem EXCEPT ![c] = [mem[c] EXCEPT !.ext = SpecName[c]]]
    BY <1>6 DEF CreateOk, TypeOK
  <2>. QED BY <1>6, <2>1, <2>2, <2>3 DEF TypeOK, CreateOk, apiVars, Goto, PCs
<1>7. CASE CreateFails(c)
  <2>1. budget' \in Budget
    BY <1>7, FaultType DEF CreateFails, TypeOK
  <2>. QED BY <1>7, <2>1 DEF TypeOK, CreateFails, sonarVars, apiVars, Goto, PCs
<1>8. CASE CreateReplyLost(c)
  <2>1. budget' \in Budget
    BY <1>8, FaultType DEF CreateReplyLost
  <2>2. SpecName[c] \in GateNames
    BY GateAssumption
  <2>. QED BY <1>8, <2>1, <2>2 DEF TypeOK, CreateReplyLost, apiVars, Goto, PCs
<1>9. CASE CreateSetAsDefault(c)
  <2>1. budget' \in Budget
    BY <1>9, FaultType DEF CreateSetAsDefault, TypeOK
  <2>2. default' \in GateNames
    BY <1>9, GateAssumption DEF CreateSetAsDefault, TypeOK
  <2>. QED BY <1>9, <2>1, <2>2 DEF TypeOK, CreateSetAsDefault, apiVars, Goto, PCs
<1>10. CASE RecordCreate(c) /\ UNCHANGED <<sonarVars, creator>>
  <2>1. [mr[c] EXCEPT !.ext = mem[c].ext, !.pending = FALSE] \in Object
    BY <1>a DEF Object
  <2>2. mr' \in {mr, [mr EXCEPT ![c] = [mr[c] EXCEPT !.ext = mem[c].ext, !.pending = FALSE]]}
    BY <1>10 DEF RecordCreate, TypeOK
  <2>. QED BY <1>10, <2>1, <2>2, ForgetType DEF TypeOK, RecordCreate, sonarVars
<1>11. CASE PersistLateInit(c) /\ UNCHANGED <<sonarVars, creator>>
  <2>1. mr' \in [MRs -> Object] /\ mem' \in [MRs -> Object]
    BY <1>11, ClientUpdateIs DEF PersistLateInit, TypeOK
  <2>. QED BY <1>11, <2>1 DEF TypeOK, PersistLateInit, sonarVars, Goto, PCs
<1>12. CASE UpdateStart(c)
  <2>1. budget' \in Budget
    BY <1>12, FaultType DEF UpdateStart, TypeOK
  <2>2. Plan(mem[c]) \in Todo
    BY PlanType DEF TypeOK
  <2>3. todo' \in [MRs -> Todo] /\ pc' \in [MRs -> PCs]
    BY <1>12, <2>2, ContinueType, AbandonType DEF UpdateStart
  <2>4. default' \in GateNames
    BY <1>12, GateAssumption DEF UpdateStart, TypeOK
  <2>. QED BY <1>12, <2>1, <2>3, <2>4 DEF TypeOK, UpdateStart, apiVars
<1>13. CASE DeleteCondition(c)
  <2>1. PICK o \in todo[c].del :
          \/ /\ conds' = [n \in GateNames |-> {x \in conds[n] : x.id # o.id}]
             /\ Continue(c, [todo[c] EXCEPT !.del = @ \ {o}])
             /\ UNCHANGED budget
          \/ /\ UNCHANGED budget \/ Fault("DeleteCondition")
             /\ Abandon(c)
             /\ UNCHANGED conds
    BY <1>13 DEF DeleteCondition
  <2>2. [todo[c] EXCEPT !.del = @ \ {o}] \in Todo
    BY DEF TypeOK, Todo
  <2>3. todo' \in [MRs -> Todo] /\ pc' \in [MRs -> PCs]
    BY <2>1, <2>2, ContinueType, AbandonType
  <2>4. budget' \in Budget
    BY <2>1, FaultType DEF TypeOK
  <2>5. conds' \in [GateNames -> SUBSET Observation]
    BY <2>1 DEF TypeOK
  <2>. QED BY <1>13, <2>3, <2>4, <2>5 DEF TypeOK, DeleteCondition, apiVars
<1>14. CASE CreateCondition(c)
  <2>. DEFINE ext == mem[c].ext
  <2>1. PICK p \in todo[c].cre :
          \/ /\ Accepts(ext, p.metric)
             /\ NewIds # {}
             /\ conds' = [conds EXCEPT ![ext] = @ \cup {Held(p, NewId)}]
             /\ Continue(c, [todo[c] EXCEPT !.cre = @ \ {p}])
             /\ UNCHANGED budget
          \/ /\ UNCHANGED budget \/ Fault("CreateCondition")
             /\ Abandon(c)
             /\ UNCHANGED conds
    BY <1>14 DEF CreateCondition
  <2>2. [todo[c] EXCEPT !.cre = @ \ {p}] \in Todo /\ p \in Params
    BY DEF TypeOK, Todo
  <2>3. todo' \in [MRs -> Todo] /\ pc' \in [MRs -> PCs]
    BY <2>1, <2>2, ContinueType, AbandonType
  <2>4. budget' \in Budget
    BY <2>1, FaultType DEF TypeOK
  <2>5. conds' \in [GateNames -> SUBSET Observation]
    BY <2>1, <2>2, HeldType, NewIdType DEF TypeOK, Accepts
  <2>. QED BY <1>14, <2>3, <2>4, <2>5 DEF TypeOK, CreateCondition, apiVars
<1>15. CASE UpdateCondition(c)
  <2>1. PICK a \in todo[c].upd :
          \/ /\ conds' = [n \in GateNames |->
                    {IF x.id = a.obs.id THEN Held(a.spec, x.id) ELSE x : x \in conds[n]}]
             /\ Continue(c, [todo[c] EXCEPT !.upd = @ \ {a}])
             /\ UNCHANGED budget
          \/ /\ UNCHANGED budget \/ Fault("UpdateCondition")
             /\ Abandon(c)
             /\ UNCHANGED conds
    BY <1>15 DEF UpdateCondition
  <2>2. [todo[c] EXCEPT !.upd = @ \ {a}] \in Todo /\ a.spec \in Params
    BY <1>a DEF Todo
  <2>3. todo' \in [MRs -> Todo] /\ pc' \in [MRs -> PCs]
    BY <2>1, <2>2, ContinueType, AbandonType
  <2>4. budget' \in Budget
    BY <2>1, FaultType DEF TypeOK
  <2>5. \A n \in GateNames : \A x \in conds[n] :
            x \in Observation /\ Held(a.spec, x.id) \in Observation
    <3>1. \A n \in GateNames : \A x \in conds[n] : x \in Observation /\ x.id \in Ids
      BY DEF TypeOK, Observation
    <3>. QED BY <2>2, <3>1, HeldType
  <2>6. conds' \in [GateNames -> SUBSET Observation]
    BY <2>1, <2>5 DEF TypeOK
  <2>. QED BY <1>15, <2>3, <2>4, <2>6 DEF TypeOK, UpdateCondition, apiVars
<1>16. CASE ReportStatus(c) /\ UNCHANGED <<sonarVars, creator>>
  <2>1. [mr[c] EXCEPT !.seen = mem[c].seen] \in Object
    BY <1>a DEF Object
  <2>2. mr' = [mr EXCEPT ![c] = [mr[c] EXCEPT !.seen = mem[c].seen]]
    BY <1>16 DEF ReportStatus, TypeOK
  <2>. QED BY <1>16, <2>1, <2>2, ForgetType DEF TypeOK, ReportStatus, sonarVars
<1>17. CASE Destroy(c)
  <2>1. budget' \in Budget
    BY <1>17, FaultType DEF Destroy, TypeOK
  <2>2. /\ gates' \in SUBSET GateNames
        /\ conds' \in [GateNames -> SUBSET Observation]
        /\ creator' \in [GateNames -> MRs \cup {Nil}]
    BY <1>17 DEF Destroy, TypeOK
  <2>. QED BY <1>17, <2>1, <2>2 DEF TypeOK, Destroy, apiVars, Goto, PCs
<1>18. CASE RemoveFinalizer(c) /\ UNCHANGED <<sonarVars, creator>>
  BY <1>18, ForgetType DEF TypeOK, RemoveFinalizer, sonarVars
<1>19. CASE Conflict(c) /\ UNCHANGED <<sonarVars, creator>>
  BY <1>19, ForgetType DEF TypeOK, Conflict, sonarVars, apiVars
<1>. QED
  BY <1>1, <1>2, <1>3, <1>4, <1>5, <1>6, <1>7, <1>8, <1>9, <1>10, <1>11, <1>12, <1>13,
     <1>14, <1>15, <1>16, <1>17, <1>18, <1>19 DEF Worker, Runtime

\* So does every step of users, and a crash.
LEMMA UsersType ==
    ASSUME TypeOK, Users \/ Restart
    PROVE  TypeOK'
<1>a. \A c \in MRs : mr[c] \in Object
  BY DEF TypeOK
<1>1. ASSUME NEW c \in MRs, EditSpec(c) PROVE TypeOK'
  <2>. DEFINE Edited(want, cs) ==
                 [mr[c] EXCEPT !.default = IF want.default = Nil THEN @ ELSE want.default,
                               !.conds = cs]
  <2>0. PICK want \in Wants[c] :
          \E cs \in {want.conds, KeepIds(want.conds, mr[c].conds)} :
             mr' = [mr EXCEPT ![c] = Edited(want, cs)]
    BY <1>1 DEF EditSpec, Edit
  <2>1. PICK cs \in {want.conds, KeepIds(want.conds, mr[c].conds)} :
             mr' = [mr EXCEPT ![c] = Edited(want, cs)]
    BY <2>0
  <2>2. want \in Desired
    BY GateAssumption
  <2>3. want.default \in BOOLEAN \cup {Nil} /\ want.conds \in Seq(Params)
    BY <2>2 DEF Desired
  <2>4. mr[c].conds \in Seq(Params)
    BY <1>a DEF Object
  <2>5. cs \in Seq(Params)
    BY <2>1, <2>3, <2>4, KeepIdsType
  <2>6. Edited(want, cs) \in Object
    BY <1>a, <2>3, <2>5 DEF Object
  <2>7. stale' \in [MRs -> BOOLEAN]
    BY <1>1 DEF EditSpec, Edit, Touched, TypeOK
  <2>8. budget' \in Budget
    BY <1>1 DEF EditSpec, Edit, TypeOK, Budget
  <2>. QED BY <1>1, <2>1, <2>3, <2>6, <2>7, <2>8 DEF TypeOK, EditSpec, Edit, sonarVars
<1>2. ASSUME NEW c \in MRs, DeleteMR(c), UNCHANGED <<sonarVars, creator>> PROVE TypeOK'
  <2>1. [mr[c] EXCEPT !.deleting = TRUE] \in Object
    BY <1>a DEF Object
  <2>2. mr' \in {mr, [mr EXCEPT ![c] = [mr[c] EXCEPT !.deleting = TRUE]]}
    BY <1>2 DEF DeleteMR, TypeOK
  <2>3. stale' \in [MRs -> BOOLEAN]
    BY <1>2 DEF DeleteMR, Touched, TypeOK
  <2>. QED BY <1>2, <2>1, <2>2, <2>3 DEF TypeOK, DeleteMR, sonarVars
<1>3. ASSUME Admin PROVE budget' \in Budget
  BY <1>3 DEF Admin, TypeOK, Budget
<1>4. ASSUME NEW n \in GateNames, AdminAddCondition(n) PROVE TypeOK'
  <2>1. \A m \in Metrics, e \in Errors, op \in Ops :
            [id |-> NewId, metric |-> m, error |-> e, op |-> op] \in Observation
    BY <1>4, NewIdType DEF AdminAddCondition, Observation
  <2>2. conds' \in [GateNames -> SUBSET Observation]
    BY <1>4, <2>1 DEF AdminAddCondition, TypeOK
  <2>. QED BY <1>3, <1>4, <2>2 DEF AdminAddCondition, TypeOK, Admin, apiVars, workerVars
<1>5. ASSUME NEW n \in GateNames, AdminRemoveCondition(n) PROVE TypeOK'
  BY <1>3, <1>5 DEF AdminRemoveCondition, TypeOK, Admin, apiVars, workerVars
<1>6. ASSUME NEW n \in GateNames, AdminSetDefault(n) PROVE TypeOK'
  BY <1>3, <1>6 DEF AdminSetDefault, TypeOK, Admin, apiVars, workerVars
<1>7. ASSUME NEW n \in GateNames, AdminDestroy(n) PROVE TypeOK'
  BY <1>3, <1>7 DEF AdminDestroy, TypeOK, Admin, apiVars, workerVars
<1>8. ASSUME Restart PROVE TypeOK'
  <2>1. NoObject \in Object /\ Absent \in Verdict /\ NoTodo \in Todo
    BY DEF NoObject, Object, Absent, Verdict, NoTodo, Todo
  <2>2. budget' \in Budget
    BY <1>8 DEF Restart, Crash, TypeOK, Budget
  <2>. QED BY <1>8, <2>1, <2>2 DEF Restart, Crash, TypeOK, PCs, sonarVars, apiVars
<1>. QED BY <1>1, <1>2, <1>4, <1>5, <1>6, <1>7, <1>8 DEF Users

LEMMA StepType == TypeOK /\ [Next]_vars => TypeOK'
<1>1. ASSUME TypeOK, UNCHANGED vars PROVE TypeOK'
  BY <1>1 DEF TypeOK, vars, sonarVars, apiVars, workerVars
<1>. QED BY <1>1, WorkerType, UsersType DEF Next

\* The variables keep their types: in particular what is stored in the API
\* server and planned by a worker is well formed after late initialisation.
THEOREM TypeCorrect == Spec => []TypeOK
BY InitType, StepType, PTL DEF Spec

----------------------------------------------------------------------------
(* No gate is leaked, as long as a failed Show means an absent gate and a   *)
(* failed Create that nothing was created.                                  *)

ReliableReplies == "Show" \notin FaultyCalls /\ "CreateReply" \notin FaultyCalls

LEMMA InitTracking == Init => TrackingInv
<1>. SUFFICES ASSUME Init, NEW c \in MRs PROVE Tracked(c)
  BY DEF TrackingInv
<1>1. pc[c] = "idle" /\ \A n \in GateNames : creator[n] = Nil
  BY DEF Init
<1>2. c # Nil
  BY GateAssumption
<1>. QED BY <1>1, <1>2 DEF Tracked

\* A step that concerns c alone has to be checked for c alone.
LEMMA LocalStep ==
    ASSUME TypeOK, TrackingInv, NEW c \in MRs, Tracked(c)',
           \A d \in MRs \ {c} :
               /\ mr'[d] = mr[d] /\ mem'[d] = mem[d] /\ pc'[d] = pc[d]
               /\ stale'[d] = stale[d] /\ verdict'[d] = verdict[d]
               /\ d \in live' <=> d \in live
               /\ \A n \in GateNames : creator'[n] = d => creator[n] = d /\ n \in gates'
    PROVE  TrackingInv'
BY DEF TrackingInv, Tracked, CopyAgrees, GateHeld, HasNoGate, Creating

\* The steps of a worker.
LEMMA WorkerTracking ==
    ASSUME ReliableReplies, TypeOK, TrackingInv, NEW c \in MRs, Worker(c)
    PROVE  TrackingInv'
<1>a. /\ mem[c] \in Object /\ mr[c] \in Object /\ verdict[c] \in Verdict
      /\ \A n \in GateNames : creator[n] \in MRs \cup {Nil}
      /\ c # Nil /\ SpecName[c] \in GateNames
  BY GateAssumption DEF TypeOK
<1>b. Tracked(c)
  BY DEF TrackingInv
<1>c. \A d \in MRs, n \in GateNames : creator[n] = d => n \in gates
  BY DEF TrackingInv, Tracked, GateHeld
<1>. USE <1>a, <1>b, <1>c
<1>1. CASE Reconcile(c) /\ UNCHANGED <<sonarVars, creator>>
  <2>1. Tracked(c)'
    BY <1>1 DEF Reconcile, Goto, Tracked, CopyAgrees, GateHeld, HasNoGate, Creating,
                TypeOK, sonarVars, apiVars
  <2>. QED BY <1>1, <2>1, LocalStep DEF Reconcile, Goto, TypeOK, sonarVars, apiVars
<1>2. CASE ObserveAbsent(c)
  <2>1. mem[c].ext \notin gates
    BY <1>2 DEF ObserveAbsent, ObserveReturns, Fault, ReliableReplies
  <2>2. mem[c].ext = mr[c].ext /\ ~mr[c].pending
    BY <1>2 DEF ObserveAbsent, ObserveReturns, Tracked, CopyAgrees, Creating
  <2>3. \A n \in GateNames : creator[n] # c
    BY <2>1, <2>2 DEF Tracked, GateHeld
  <2>4. pc'[c] \in {"unfinalize", "pending", "finalize"} /\ (pc'[c] = "pending" => mem[c].final)
    BY <1>2 DEF ObserveAbsent, ObserveReturns, Goto, AfterObserve, Absent, TypeOK
  <2>5. Tracked(c)'
    BY <1>2, <2>2, <2>3, <2>4 DEF ObserveAbsent, ObserveReturns, Goto, Tracked, CopyAgrees, Creating,
                TypeOK, sonarVars, apiVars
  <2>. QED BY <1>2, <2>5, LocalStep DEF ObserveAbsent, ObserveReturns, Goto, TypeOK, sonarVars, apiVars
<1>3. CASE ObservePresent(c)
  <2>1. /\ mem'[c].ext = mem[c].ext /\ mem'[c].final = mem[c].final
        /\ mem'[c].pending = mem[c].pending
    BY <1>3 DEF ObservePresent, ObserveReturns, TypeOK, Object
  <2>2. \/ pc'[c] = "destroy"
        \/ pc'[c] \in {"persist", "report", "update"} /\ mem[c].final
        \/ pc'[c] = "finalize" /\ verdict'[c].exists
    BY <1>3 DEF ObservePresent, ObserveReturns, Goto, AfterObserve, TypeOK
  <2>3. Tracked(c)'
    BY <1>3, <2>1, <2>2 DEF ObservePresent, ObserveReturns, Tracked, CopyAgrees, GateHeld, HasNoGate, Creating,
                TypeOK, sonarVars, apiVars
  <2>. QED BY <1>3, <2>3, LocalStep DEF ObservePresent, ObserveReturns, Goto, TypeOK, sonarVars, apiVars
<1>4. CASE AddFinalizer(c) /\ UNCHANGED <<sonarVars, creator>>
  <2>1. /\ mem'[c].ext = mem[c].ext /\ mem'[c].final /\ mem'[c].pending = mem[c].pending
        /\ mr'[c].ext = mem'[c].ext /\ mr'[c].final /\ mr'[c].pending = mem'[c].pending
        /\ ~stale[c]
    <3>. DEFINE object == [mem[c] EXCEPT !.final = TRUE]
    <3>1. object \in Object /\ object.ext = mem[c].ext /\ object.final /\ object.pending = mem[c].pending
      BY DEF Object
    <3>2. ClientUpdate(c, object)
      BY <1>4 DEF AddFinalizer
    <3>. HIDE DEF object
    <3>. QED BY <3>1, <3>2, ClientUpdateIs
  <2>2. \/ pc'[c] = "pending" /\ ~verdict[c].exists
        \/ pc'[c] \in {"persist", "report", "update"}
    BY <1>4 DEF AddFinalizer, Goto, AfterObserve, TypeOK
  <2>3. Tracked(c)'
    BY <1>4, <2>1, <2>2 DEF AddFinalizer, Tracked, CopyAgrees, GateHeld, HasNoGate, Creating,
                TypeOK, sonarVars
  <2>. QED BY <1>4, <2>3, LocalStep DEF AddFinalizer, ClientUpdate, Goto, TypeOK, sonarVars
<1>5. CASE AnnounceCreate(c) /\ UNCHANGED <<sonarVars, creator>>
  <2>1. /\ mem'[c].ext = mem[c].ext /\ mem'[c].final = mem[c].final /\ mem'[c].pending
        /\ mr'[c].ext = mem'[c].ext /\ mr'[c].final = mem'[c].final /\ mr'[c].pending
        /\ ~stale[c] /\ pc'[c] = "create"
    <3>. DEFINE object == [mem[c] EXCEPT !.pending = TRUE]
    <3>1. object \in Object /\ object.ext = mem[c].ext /\ object.final = mem[c].final /\ object.pending
      BY DEF Object
    <3>2. ClientUpdate(c, object) /\ pc'[c] = "create"
      BY <1>5 DEF AnnounceCreate, Goto, TypeOK
    <3>. HIDE DEF object
    <3>. QED BY <3>1, <3>2, ClientUpdateIs
  <2>2. Tracked(c)'
    BY <1>5, <2>1 DEF AnnounceCreate, Tracked, CopyAgrees, GateHeld, HasNoGate, Creating,
                TypeOK, sonarVars
  <2>. QED BY <1>5, <2>2, LocalStep DEF AnnounceCreate, ClientUpdate, Goto, TypeOK, sonarVars
<1>6. CASE CreateOk(c)
  <2>1. /\ mem'[c].ext = SpecName[c] /\ mem'[c].final = mem[c].final
        /\ mem'[c].pending = mem[c].pending
        /\ pc'[c] \in {"createDefault", "record"}
    BY <1>6 DEF CreateOk, Goto, TypeOK, Object
  <2>2. \A n \in GateNames : creator[n] # c
    BY <1>6 DEF CreateOk, Tracked, HasNoGate
  <2>3. Tracked(c)'
    BY <1>6, <2>1, <2>2 DEF CreateOk, Tracked, CopyAgrees, GateHeld, HasNoGate, Creating,
                TypeOK, apiVars
  <2>. QED BY <1>6, <2>3, LocalStep DEF CreateOk, Goto, TypeOK, apiVars
<1>7. CASE CreateFails(c)
  <2>1. \A n \in GateNames : creator[n] # c
    BY <1>7 DEF CreateFails, Tracked, HasNoGate
  <2>2. Tracked(c)'
    BY <1>7, <2>1 DEF CreateFails, Goto, Tracked, CopyAgrees, Creating, TypeOK, sonarVars, apiVars
  <2>. QED BY <1>7, <2>2, LocalStep DEF CreateFails, Goto, TypeOK, sonarVars, apiVars
<1>8. CASE CreateReplyLost(c)
  BY <1>8 DEF CreateReplyLost, Fault, ReliableReplies
<1>9. CASE CreateSetAsDefault(c)
  <2>1. Tracked(c)'
    BY <1>9 DEF CreateSetAsDefault, Goto, Tracked, CopyAgrees, GateHeld, HasNoGate, Creating,
                TypeOK, apiVars
  <2>. QED BY <1>9, <2>1, LocalStep DEF CreateSetAsDefault, Goto, TypeOK, apiVars
<1>10. CASE RecordCreate(c) /\ UNCHANGED <<sonarVars, creator>>
  <2>1. c \in live /\ mr[c].final
    BY <1>10 DEF RecordCreate, Tracked, CopyAgrees, Creating
  <2>2. mr'[c].ext = mem[c].ext /\ mr'[c].final /\ pc'[c] = "idle"
    BY <1>10, <2>1 DEF RecordCreate, Forget, Goto, TypeOK, Object
  <2>3. Tracked(c)'
    BY <1>10, <2>1, <2>2 DEF RecordCreate, Tracked, GateHeld, HasNoGate, sonarVars
  <2>. QED BY <1>10, <2>3, LocalStep DEF RecordCreate, Forget, Goto, TypeOK, sonarVars
<1>11. CASE PersistLateInit(c) /\ UNCHANGED <<sonarVars, creator>>
  <2>1. /\ mem'[c].ext = mem[c].ext /\ mem'[c].final = mem[c].final
        /\ mem'[c].pending = mem[c].pending
        /\ mr'[c].ext = mem'[c].ext /\ mr'[c].final = mem'[c].final
        /\ mr'[c].pending = mem'[c].pending
        /\ ~stale[c] /\ pc'[c] \in {"report", "update"}
    <3>1. ClientUpdate(c, mem[c]) /\ pc'[c] \in {"report", "update"}
      BY <1>11 DEF PersistLateInit, Goto, TypeOK
    <3>. QED BY <3>1, ClientUpdateIs
  <2>2. Tracked(c)'
    BY <1>11, <2>1 DEF PersistLateInit, Tracked, CopyAgrees, GateHeld, HasNoGate, Creating,
                TypeOK, sonarVars
  <2>. QED BY <1>11, <2>2, LocalStep DEF PersistLateInit, ClientUpdate, Goto, TypeOK, sonarVars
<1>12. CASE UpdateStart(c) \/ DeleteCondition(c) \/ CreateCondition(c) \/ UpdateCondition(c)
  <2>1. /\ pc[c] \in {"update", "sync"} /\ pc' \in {[pc EXCEPT ![c] = "report"], [pc EXCEPT ![c] = "sync"]}
        /\ UNCHANGED <<gates, apiVars, mem, stale, verdict, creator>>
    BY <1>12 DEF UpdateStart, DeleteCondition, CreateCondition, UpdateCondition,
                 Continue, Abandon, Goto
  <2>2. pc'[c] \in {"report", "sync"} /\ \A d \in MRs \ {c} : pc'[d] = pc[d]
    BY <2>1 DEF TypeOK
  <2>3. Tracked(c)'
    BY <2>1, <2>2 DEF Tracked, CopyAgrees, GateHeld, HasNoGate, Creating, apiVars
  <2>. QED BY <2>1, <2>2, <2>3, LocalStep DEF apiVars
<1>13. CASE ReportStatus(c) /\ UNCHANGED <<sonarVars, creator>>
  <2>1. /\ mr'[c].ext = mr[c].ext /\ mr'[c].final = mr[c].final
        /\ mr'[c].pending = mr[c].pending /\ pc'[c] = "idle"
    BY <1>13 DEF ReportStatus, Forget, Goto, TypeOK, Object
  <2>2. Tracked(c)'
    BY <1>13, <2>1 DEF ReportStatus, Tracked, GateHeld, HasNoGate, sonarVars
  <2>. QED BY <1>13, <2>2, LocalStep DEF ReportStatus, Forget, Goto, TypeOK, sonarVars
<1>14. CASE Destroy(c)
  <2>1. pc'[c] = "report"
    BY <1>14 DEF Destroy, Goto, TypeOK
  <2>2. \A n \in GateNames : creator'[n] # Nil =>
            creator'[n] = creator[n] /\ (n \in gates => n \in gates')
    BY <1>14 DEF Destroy, TypeOK
  <2>3. Tracked(c)'
    BY <1>14, <2>1, <2>2 DEF Destroy, Tracked, CopyAgrees, GateHeld, HasNoGate, Creating, apiVars
  <2>4. \A d \in MRs : d # Nil
    BY GateAssumption
  <2>. QED BY <1>14, <2>2, <2>3, <2>4, LocalStep DEF Destroy, Goto, TypeOK, apiVars
<1>15. CASE RemoveFinalizer(c) /\ UNCHANGED <<sonarVars, creator>>
  <2>1. \A n \in GateNames : creator[n] # c
    BY <1>15 DEF RemoveFinalizer, Tracked, HasNoGate
  <2>2. Tracked(c)'
    BY <1>15, <2>1 DEF RemoveFinalizer, Forget, Goto, Tracked, TypeOK, sonarVars
  <2>. QED BY <1>15, <2>2, LocalStep DEF RemoveFinalizer, Forget, Goto, TypeOK, sonarVars
<1>16. CASE Conflict(c) /\ UNCHANGED <<sonarVars, creator>>
  <2>1. Tracked(c)'
    BY <1>16 DEF Conflict, Forget, Goto, Tracked, GateHeld, HasNoGate, TypeOK, sonarVars, apiVars
  <2>. QED BY <1>16, <2>1, LocalStep DEF Conflict, Forget, Goto, TypeOK, sonarVars, apiVars
<1>. QED
  BY <1>1, <1>2, <1>3, <1>4, <1>5, <1>6, <1>7, <1>8, <1>9, <1>10, <1>11, <1>12, <1>13,
     <1>14, <1>15, <1>16 DEF Worker, Runtime

\* The steps of users and of a crash.
LEMMA UsersTracking ==
    ASSUME TypeOK, TrackingInv, Users \/ Restart
    PROVE  TrackingInv'
<1>a. \A c \in MRs : mr[c] \in Object /\ c # Nil /\ Tracked(c)
  BY GateAssumption DEF TypeOK, TrackingInv
<1>1. ASSUME NEW c \in MRs, EditSpec(c) PROVE TrackingInv'
  <2>1. /\ mr'[c].ext = mr[c].ext /\ mr'[c].final = mr[c].final
        /\ mr'[c].pending = mr[c].pending
    BY <1>1, <1>a DEF EditSpec, Edit, TypeOK, Object
  <2>2. \A d \in MRs \ {c} : mr'[d] = mr[d] /\ stale'[d] = stale[d]
    BY <1>1 DEF EditSpec, Edit, Touched, TypeOK
  <2>3. Tracked(c)'
    BY <1>1, <1>a, <2>1 DEF EditSpec, Edit, Tracked, CopyAgrees, GateHeld, HasNoGate, Creating,
                            sonarVars, Touched, TypeOK
  <2>. QED BY <1>1, <1>a, <2>2, <2>3, LocalStep DEF EditSpec, Edit, sonarVars, Tracked, GateHeld
<1>2. ASSUME NEW c \in MRs, DeleteMR(c), UNCHANGED <<sonarVars, creator>> PROVE TrackingInv'
  <2>1. /\ mr'[c].ext = mr[c].ext /\ mr'[c].final = mr[c].final
        /\ mr'[c].pending = mr[c].pending
    BY <1>2, <1>a DEF DeleteMR, TypeOK, Object
  <2>2. \A d \in MRs \ {c} : mr'[d] = mr[d] /\ stale'[d] = stale[d] /\ (d \in live' <=> d \in live)
    BY <1>2 DEF DeleteMR, Touched, TypeOK
  <2>3. (pc[c] # "idle" => stale'[c]) /\ (mr[c].final => c \in live')
    BY <1>2 DEF DeleteMR, Touched, TypeOK
  <2>4. Tracked(c)'
    BY <1>2, <1>a, <2>1, <2>3 DEF DeleteMR, Tracked, CopyAgrees, GateHeld, HasNoGate, Creating,
                                  sonarVars
  <2>. QED BY <1>2, <1>a, <2>2, <2>4, LocalStep DEF DeleteMR, sonarVars, Tracked, GateHeld
<1>3. ASSUME NEW n \in GateNames,
             \/ AdminAddCondition(n) \/ AdminRemoveCondition(n)
             \/ AdminSetDefault(n) \/ AdminDestroy(n)
      PROVE  TrackingInv'
  <2>1. UNCHANGED <<apiVars, workerVars>>
    BY <1>3 DEF AdminAddCondition, AdminRemoveCondition, AdminSetDefault, AdminDestroy, Admin,
                apiVars, workerVars
  <2>2. \A k \in GateNames : creator'[k] # Nil =>
            creator'[k] = creator[k] /\ (k \in gates => k \in gates')
    BY <1>3 DEF AdminAddCondition, AdminRemoveCondition, AdminSetDefault, AdminDestroy, TypeOK
  <2>. QED BY <1>a, <2>1, <2>2 DEF apiVars, workerVars, TrackingInv, Tracked, CopyAgrees,
                                   GateHeld, HasNoGate, Creating
<1>4. ASSUME Restart PROVE TrackingInv'
  BY <1>4, <1>a DEF Restart, Crash, sonarVars, apiVars, TrackingInv, Tracked, GateHeld, HasNoGate
<1>. QED BY <1>1, <1>2, <1>3, <1>4 DEF Users

LEMMA StepTracking ==
    ASSUME ReliableReplies
    PROVE  TypeOK /\ TrackingInv /\ [Next]_vars => TrackingInv'
<1>1. ASSUME TrackingInv, UNCHANGED vars PROVE TrackingInv'
  BY <1>1 DEF vars, sonarVars, apiVars, workerVars, TrackingInv, Tracked, CopyAgrees,
              GateHeld, HasNoGate, Creating
<1>. QED BY <1>1, WorkerTracking, UsersTracking DEF Next

\* Whatever conflicts, failures, crashes and hands interfere, a gate an MR
\* created stays reachable from it: deleting the MR cannot leave it behind.
THEOREM CreatedGatesStayTracked ==
    ASSUME ReliableReplies
    PROVE  Spec => []CreatedGatesTracked
<1>1. TypeOK /\ TrackingInv => CreatedGatesTracked
  BY DEF TypeOK, TrackingInv, Tracked, GateHeld, CreatedGatesTracked
<1>2. Spec => []TrackingInv
  BY InitTracking, StepTracking, TypeCorrect, PTL DEF Spec
<1>. QED BY <1>1, <1>2, TypeCorrect, PTL

----------------------------------------------------------------------------
(* What a step of a worker does to its object, whatever may fail.           *)

\* The steps, by what they do to the record and the worker's copy of it.
Observes(c)   == ObserveAbsent(c) \/ ObservePresent(c)
Writes(c)     == AddFinalizer(c) \/ AnnounceCreate(c) \/ PersistLateInit(c)
Makes(c)      == CreateOk(c) \/ CreateReplyLost(c)
CallsSonar(c) == \/ CreateFails(c) \/ CreateSetAsDefault(c) \/ UpdateStart(c)
                 \/ DeleteCondition(c) \/ CreateCondition(c) \/ UpdateCondition(c) \/ Destroy(c)
Ends(c)       == RecordCreate(c) \/ ReportStatus(c) \/ RemoveFinalizer(c) \/ Conflict(c)

LEMMA WorkerIs ==
    ASSUME NEW c \in MRs, Worker(c)
    PROVE  \/ Reconcile(c) /\ UNCHANGED <<sonarVars, creator>>
           \/ Observes(c)
           \/ Writes(c) /\ UNCHANGED <<sonarVars, creator>>
           \/ Makes(c)
           \/ CallsSonar(c)
           \/ Ends(c) /\ UNCHANGED <<sonarVars, creator>>
BY DEF Worker, Runtime, Observes, Writes, Makes, CallsSonar, Ends

\* The objects of the others stay as they are.
LEMMA OthersKept ==
    ASSUME TypeOK, NEW c \in MRs, Worker(c), NEW d \in MRs, d # c
    PROVE  /\ mr'[d] = mr[d] /\ mem'[d] = mem[d] /\ pc'[d] = pc[d] /\ stale'[d] = stale[d]
           /\ verdict'[d] = verdict[d] /\ todo'[d] = todo[d]
           /\ d \in live' <=> d \in live
<1>1. CASE Reconcile(c)
  BY <1>1 DEF Reconcile, Goto, TypeOK
<1>2. CASE Observes(c)
  BY <1>2 DEF Observes, ObserveAbsent, ObservePresent, ObserveReturns, Goto, apiVars, TypeOK
<1>3. CASE Writes(c)
  <2>1. /\ mr'[d] = mr[d] /\ mem'[d] = mem[d]
    BY <1>3 DEF Writes, AddFinalizer, AnnounceCreate, PersistLateInit, ClientUpdate, TypeOK
  <2>. QED BY <1>3, <2>1 DEF Writes, AddFinalizer, AnnounceCreate, PersistLateInit, Goto, TypeOK
<1>4. CASE Makes(c)
  BY <1>4 DEF Makes, CreateOk, CreateReplyLost, Goto, apiVars, TypeOK
<1>5. CASE CallsSonar(c)
  BY <1>5 DEF CallsSonar, CreateFails, CreateSetAsDefault, UpdateStart, DeleteCondition,
              CreateCondition, UpdateCondition, Destroy, Continue, Abandon, Goto, apiVars, TypeOK
<1>6. CASE Ends(c)
  BY <1>6 DEF Ends, RecordCreate, ReportStatus, RemoveFinalizer, Conflict, Forget, Goto, TypeOK
<1>. QED BY <1>1, <1>2, <1>3, <1>4, <1>5, <1>6, WorkerIs

LEMMA ReconcileIs ==
    ASSUME TypeOK, NEW c \in MRs, Reconcile(c)
    PROVE  /\ pc[c] = "idle" /\ c \in live /\ ~mr[c].pending
           /\ pc'[c] = "observe" /\ mem'[c] = mr[c]
           /\ UNCHANGED <<live, mr, stale, verdict, todo>>
BY DEF Reconcile, Goto, TypeOK

\* What a worker does after it found no gate, and after it found one.
LEMMA ObserveAbsentIs ==
    ASSUME TypeOK, NEW c \in MRs, ObserveAbsent(c)
    PROVE  /\ pc[c] = "observe" /\ ~verdict'[c].exists
           /\ \/ pc'[c] = "unfinalize"
              \/ pc'[c] = "pending" /\ mem[c].final
              \/ pc'[c] = "finalize"
           /\ "Show" \notin FaultyCalls => mem[c].ext \notin gates
           /\ UNCHANGED <<sonarVars, apiVars, mem, stale, todo, creator>>
BY DEF ObserveAbsent, ObserveReturns, AfterObserve, Absent, Fault, Goto, TypeOK

LEMMA ObservePresentIs ==
    ASSUME TypeOK, NEW c \in MRs, ObservePresent(c)
    PROVE  /\ pc[c] = "observe" /\ verdict'[c].exists /\ mem[c].ext \in gates
           /\ \/ pc'[c] = "destroy" /\ mem[c].deleting
              \/ pc'[c] \in {"persist", "update", "report"} /\ mem[c].final
              \/ pc'[c] = "finalize"
           /\ mem'[c].seen = conds[mem[c].ext]
           /\ mem'[c].conds = LateInitConditions(mem[c].conds, conds[mem[c].ext])
           /\ mem'[c].ext = mem[c].ext /\ mem'[c].final = mem[c].final
           /\ mem'[c].pending = mem[c].pending /\ mem'[c].deleting = mem[c].deleting
           /\ UNCHANGED <<sonarVars, apiVars, stale, todo, creator>>
<1>1. /\ pc[c] = "observe" /\ verdict'[c].exists /\ mem[c].ext \in gates
      /\ \/ pc'[c] = "destroy" /\ mem[c].deleting
         \/ pc'[c] \in {"persist", "update", "report"} /\ mem[c].final
         \/ pc'[c] = "finalize"
      /\ UNCHANGED <<sonarVars, apiVars, stale, todo, creator>>
  BY DEF ObservePresent, ObserveReturns, AfterObserve, Goto, TypeOK
<1>2. mem[c] \in Object
  BY DEF TypeOK
<1>3. PICK dflt :
          mem' = [mem EXCEPT ![c].seen = conds[mem[c].ext], ![c].default = dflt,
                      ![c].conds = LateInitConditions(mem[c].conds, conds[mem[c].ext])]
  BY DEF ObservePresent
<1>4. /\ mem'[c].seen = conds[mem[c].ext]
      /\ mem'[c].conds = LateInitConditions(mem[c].conds, conds[mem[c].ext])
      /\ mem'[c].ext = mem[c].ext /\ mem'[c].final = mem[c].final
      /\ mem'[c].pending = mem[c].pending /\ mem'[c].deleting = mem[c].deleting
  BY <1>2, <1>3 DEF Object, TypeOK
<1>. QED BY <1>1, <1>4

LEMMA WritesIs ==
    ASSUME TypeOK, NEW c \in MRs, Writes(c)
    PROVE  /\ ~stale[c]
           /\ \A o \in {mr'[c], mem'[c]} :
                 /\ o.ext = mem[c].ext /\ o.deleting = mem[c].deleting
                 /\ o.final <=> mem[c].final \/ pc[c] = "finalize"
                 /\ o.pending <=> mem[c].pending \/ pc[c] = "pending"
           /\ mr'[c].conds = mem[c].conds
           /\ mr'[c].seen = mr[c].seen /\ mem'[c].seen \in {mr[c].seen, mem[c].seen}
           /\ mr[c].seen = {} => mem'[c].conds = mem[c].conds /\ mem'[c].seen = mem[c].seen
           /\ \/ pc[c] = "finalize" /\ pc'[c] = "pending" /\ ~verdict[c].exists
              \/ /\ pc[c] = "finalize" /\ pc'[c] \in {"persist", "update", "report"}
                 /\ verdict[c].exists
              \/ pc[c] = "pending" /\ pc'[c] = "create"
              \/ pc[c] = "persist" /\ pc'[c] \in {"update", "report"}
           /\ UNCHANGED <<live, stale, verdict, todo, budget>>
<1>. USE DEF TypeOK, Object, Writes
<1>1. CASE AddFinalizer(c)
  <2>. DEFINE object == [mem[c] EXCEPT !.final = TRUE]
  <2>1. /\ object \in Object /\ object.ext = mem[c].ext /\ object.conds = mem[c].conds
        /\ object.final /\ object.pending = mem[c].pending /\ object.seen = mem[c].seen
        /\ object.deleting = mem[c].deleting
    OBVIOUS
  <2>2. ClientUpdate(c, object) /\ pc[c] = "finalize" /\ UNCHANGED <<live, stale, verdict, todo, budget>>
    BY <1>1 DEF AddFinalizer
  <2>. HIDE DEF object
  <2>3. \/ pc'[c] = "pending" /\ ~verdict[c].exists
        \/ pc'[c] \in {"persist", "update", "report"} /\ verdict[c].exists
    BY <1>1 DEF AddFinalizer, AfterObserve, Goto
  <2>. QED BY <2>1, <2>2, <2>3, ClientUpdateIs
<1>2. CASE AnnounceCreate(c)
  <2>. DEFINE object == [mem[c] EXCEPT !.pending = TRUE]
  <2>1. /\ object \in Object /\ object.ext = mem[c].ext /\ object.conds = mem[c].conds
        /\ object.pending /\ object.final = mem[c].final /\ object.seen = mem[c].seen
        /\ object.deleting = mem[c].deleting
    OBVIOUS
  <2>2. ClientUpdate(c, object) /\ pc[c] = "pending" /\ UNCHANGED <<live, stale, verdict, todo, budget>>
    BY <1>2 DEF AnnounceCreate
  <2>. HIDE DEF object
  <2>3. pc'[c] = "create"
    BY <1>2 DEF AnnounceCreate, Goto
  <2>. QED BY <2>1, <2>2, <2>3, ClientUpdateIs
<1>3. CASE PersistLateInit(c)
  <2>1. ClientUpdate(c, mem[c]) /\ pc[c] = "persist" /\ UNCHANGED <<live, stale, verdict, todo, budget>>
    BY <1>3 DEF PersistLateInit
  <2>2. pc'[c] \in {"update", "report"}
    BY <1>3 DEF PersistLateInit, Goto
  <2>. QED BY <2>1, <2>2, ClientUpdateIs
<1>. QED BY <1>1, <1>2, <1>3

LEMMA MakesIs ==
    ASSUME TypeOK, NEW c \in MRs, Makes(c)
    PROVE  /\ pc[c] = "create" /\ SpecName[c] \notin gates
           /\ gates' = gates \cup {SpecName[c]} /\ conds' = [conds EXCEPT ![SpecName[c]] = {}]
           /\ creator' = [creator EXCEPT ![SpecName[c]] = c]
           /\ \/ pc'[c] \in {"createDefault", "record"} /\ mem'[c].ext = SpecName[c]
              \/ pc'[c] = "record" /\ mem'[c].ext = mem[c].ext
           /\ mem'[c].conds = mem[c].conds /\ mem'[c].seen = mem[c].seen
           /\ mem'[c].final = mem[c].final /\ mem'[c].pending = mem[c].pending
           /\ mem'[c].deleting = mem[c].deleting
           /\ UNCHANGED <<apiVars, stale, verdict, todo>>
<1>1. CASE CreateOk(c)
  BY <1>1 DEF CreateOk, Goto, TypeOK, Object
<1>2. CASE CreateReplyLost(c)
  BY <1>2 DEF CreateReplyLost, Goto, TypeOK
<1>. QED BY <1>1, <1>2 DEF Makes

LEMMA CallsIs ==
    ASSUME TypeOK, NEW c \in MRs, CallsSonar(c)
    PROVE  /\ \/ pc[c] = "create" /\ pc'[c] = "record"
              \/ pc[c] = "createDefault" /\ pc'[c] = "record"
              \/ pc[c] \in {"update", "sync"} /\ pc'[c] \in {"report", "sync"}
              \/ pc[c] = "destroy" /\ pc'[c] = "report"
           /\ UNCHANGED <<apiVars, mem, stale, verdict>>
BY DEF CallsSonar, CreateFails, CreateSetAsDefault, UpdateStart, DeleteCondition, CreateCondition,
       UpdateCondition, Destroy, Continue, Abandon, Goto, TypeOK

LEMMA EndsIs ==
    ASSUME TypeOK, NEW c \in MRs, Ends(c)
    PROVE  /\ pc'[c] = "idle" /\ mem'[c] = NoObject /\ ~stale'[c]
           /\ \/ /\ pc[c] = "record" /\ c \in live /\ mr'[c].ext = mem[c].ext /\ ~mr'[c].pending
                 /\ mr'[c].seen = mr[c].seen
              \/ /\ pc[c] = "record" /\ c \notin live /\ mr' = mr
              \/ /\ pc[c] = "report" /\ ~stale[c] /\ mr'[c].seen = mem[c].seen
                /\ mr'[c].ext = mr[c].ext /\ mr'[c].pending = mr[c].pending
              \/ pc[c] \notin {"record", "report"} /\ mr' = mr
              \/ pc[c] = "report" /\ mr' = mr
           /\ mr'[c].conds = mr[c].conds /\ mr'[c].final = mr[c].final
           /\ mr'[c].deleting = mr[c].deleting
           /\ \/ live' = live
              \/ pc[c] = "unfinalize" /\ live' = live \ {c}
<1>1. CASE RecordCreate(c)
  BY <1>1 DEF RecordCreate, Forget, Goto, TypeOK, Object
<1>2. CASE ReportStatus(c)
  BY <1>2 DEF ReportStatus, Forget, Goto, TypeOK, Object
<1>3. CASE RemoveFinalizer(c) \/ Conflict(c)
  BY <1>3 DEF RemoveFinalizer, Conflict, Forget, Goto, TypeOK
<1>. QED BY <1>1, <1>2, <1>3 DEF Ends

\* What a user does to an object: the external name is not the user's to change,
\* and a worker that holds a copy will find it stale.
LEMMA EditSpecIs ==
    ASSUME TypeOK, NEW c \in MRs, EditSpec(c)
    PROVE  /\ c \in live /\ ~mr[c].deleting /\ (pc[c] # "idle" => stale'[c])
           /\ mr'[c].ext = mr[c].ext /\ mr'[c].seen = mr[c].seen /\ mr'[c].final = mr[c].final
           /\ mr'[c].pending = mr[c].pending /\ mr'[c].deleting = mr[c].deleting
           /\ \A d \in MRs \ {c} : mr'[d] = mr[d] /\ stale'[d] = stale[d]
           /\ UNCHANGED <<sonarVars, creator, live, pc, mem, verdict, todo>>
<1>1. PICK dflt, cs : Edit(c, [mr[c] EXCEPT !.default = dflt, !.conds = cs])
  BY DEF EditSpec
<1>. DEFINE object == [mr[c] EXCEPT !.default = dflt, !.conds = cs]
<1>2. /\ object.ext = mr[c].ext /\ object.seen = mr[c].seen /\ object.final = mr[c].final
      /\ object.pending = mr[c].pending /\ object.deleting = mr[c].deleting
  BY DEF TypeOK, Object
<1>. HIDE DEF object
<1>3. /\ c \in live /\ ~mr[c].deleting /\ (pc[c] # "idle" => stale'[c]) /\ mr'[c] = object
      /\ \A d \in MRs \ {c} : mr'[d] = mr[d] /\ stale'[d] = stale[d]
      /\ UNCHANGED <<live, pc, mem, verdict, todo>>
  BY <1>1 DEF Edit, Touched, TypeOK, object
<1>. QED BY <1>2, <1>3 DEF EditSpec

LEMMA DeleteMRIs ==
    ASSUME TypeOK, NEW c \in MRs, DeleteMR(c)
    PROVE  /\ c \in live /\ ~mr[c].deleting /\ (pc[c] # "idle" => stale'[c])
           /\ mr'[c].ext = mr[c].ext /\ mr'[c].seen = mr[c].seen /\ mr'[c].final = mr[c].final
           /\ mr'[c].pending = mr[c].pending /\ mr'[c].conds = mr[c].conds
           /\ \/ mr'[c].deleting /\ live' = live
              \/ mr' = mr /\ live' = live \ {c} /\ ~mr[c].final
           /\ \A d \in MRs \ {c} : mr'[d] = mr[d] /\ stale'[d] = stale[d]
           /\ UNCHANGED <<pc, mem, verdict, todo>>
<1>1. /\ c \in live /\ ~mr[c].deleting /\ (pc[c] # "idle" => stale'[c])
      /\ \A d \in MRs \ {c} : stale'[d] = stale[d]
      /\ UNCHANGED <<pc, mem, verdict, todo>>
  BY DEF DeleteMR, Touched, TypeOK
<1>2. CASE mr[c].final
  <2>1. mr' = [mr EXCEPT ![c] = [mr[c] EXCEPT !.deleting = TRUE]] /\ live' = live
    BY <1>2 DEF DeleteMR
  <2>2. mr'[c] = [mr[c] EXCEPT !.deleting = TRUE] /\ \A d \in MRs \ {c} : mr'[d] = mr[d]
    BY <2>1 DEF TypeOK
  <2>3. /\ mr'[c].ext = mr[c].ext /\ mr'[c].seen = mr[c].seen /\ mr'[c].final = mr[c].final
        /\ mr'[c].pending = mr[c].pending /\ mr'[c].conds = mr[c].conds /\ mr'[c].deleting
    BY <2>2 DEF TypeOK, Object
  <2>. QED BY <1>1, <2>1, <2>2, <2>3
<1>3. CASE ~mr[c].final
  BY <1>1, <1>3 DEF DeleteMR
<1>. QED BY <1>1, <1>2, <1>3

AdminDoes(n) == AdminAddCondition(n) \/ AdminRemoveCondition(n) \/ AdminSetDefault(n) \/ AdminDestroy(n)

LEMMA AdminIs ==
    ASSUME NEW n \in GateNames, AdminDoes(n)
    PROVE  UNCHANGED <<apiVars, workerVars>>
BY DEF AdminDoes, AdminAddCondition, AdminRemoveCondition, AdminSetDefault, AdminDestroy, Admin,
       apiVars, workerVars

LEMMA RestartIs ==
    ASSUME Restart
    PROVE  /\ \A c \in MRs : pc'[c] = "idle" /\ mem'[c] = NoObject
           /\ UNCHANGED <<sonarVars, apiVars, creator>>
BY DEF Restart, Crash, apiVars

----------------------------------------------------------------------------
(* The copies of the workers.                                               *)

\* CopyAgrees, of every worker at work.  Nothing the provider calls has to be
\* reliable for it.
CopiesInv == \A c \in MRs : pc[c] # "idle" => CopyAgrees(c)

\* A step that concerns c alone has to be checked for c alone.
LEMMA LocalCopies ==
    ASSUME CopiesInv, NEW c \in MRs, pc'[c] # "idle" => CopyAgrees(c)',
           \A d \in MRs \ {c} : /\ mr'[d] = mr[d] /\ mem'[d] = mem[d] /\ pc'[d] = pc[d]
                                /\ stale'[d] = stale[d]
                                /\ d \in live' <=> d \in live
    PROVE  CopiesInv'
BY DEF CopiesInv, CopyAgrees, Creating

LEMMA WorkerCopies ==
    ASSUME TypeOK, CopiesInv, NEW c \in MRs, Worker(c)
    PROVE  CopiesInv'
<1>a. \A o \in {mr[c], mem[c]} : o.pending \in BOOLEAN /\ o.final \in BOOLEAN
  BY DEF TypeOK, Object
<1>b. pc[c] # "idle" => CopyAgrees(c)
  BY DEF CopiesInv
<1>. SUFFICES pc'[c] # "idle" => CopyAgrees(c)'
  BY OthersKept, LocalCopies
<1>. USE DEF CopyAgrees, Creating
<1>1. CASE Reconcile(c)
  BY <1>1, <1>a, ReconcileIs
<1>2. CASE ObserveAbsent(c)
  BY <1>2, <1>b, ObserveAbsentIs DEF apiVars
<1>3. CASE ObservePresent(c)
  BY <1>3, <1>b, ObservePresentIs DEF apiVars
<1>4. CASE Writes(c)
  <2>1. mr'[c].pending \in BOOLEAN /\ mem'[c].pending \in BOOLEAN
    BY WorkerType DEF TypeOK, Object
  <2>2. /\ ~stale[c] /\ UNCHANGED <<live, stale>>
        /\ mr'[c].ext = mem[c].ext /\ mem'[c].ext = mem[c].ext
        /\ mr'[c].final <=> mem[c].final \/ pc[c] = "finalize"
        /\ mem'[c].final <=> mem[c].final \/ pc[c] = "finalize"
        /\ mr'[c].pending <=> mem[c].pending \/ pc[c] = "pending"
        /\ mem'[c].pending <=> mem[c].pending \/ pc[c] = "pending"
    BY <1>4, WritesIs
  <2>3. mem'[c].pending = mr'[c].pending
    BY <2>1, <2>2
  <2>4. \/ pc[c] = "finalize" /\ pc'[c] \in {"pending", "persist", "update", "report"}
        \/ pc[c] = "pending" /\ pc'[c] = "create"
        \/ pc[c] = "persist" /\ pc'[c] \in {"update", "report"}
    BY <1>4, WritesIs
  <2>. QED BY <1>a, <1>b, <2>2, <2>3, <2>4
<1>5. CASE Makes(c)
  BY <1>5, <1>b, MakesIs DEF apiVars
<1>6. CASE CallsSonar(c)
  BY <1>6, <1>b, CallsIs DEF apiVars
<1>7. CASE Ends(c)
  BY <1>7, EndsIs
<1>. QED BY <1>1, <1>2, <1>3, <1>4, <1>5, <1>6, <1>7, WorkerIs DEF Observes

LEMMA UsersCopies ==
    ASSUME TypeOK, CopiesInv, Users \/ Restart
    PROVE  CopiesInv'
<1>1. ASSUME NEW c \in MRs, EditSpec(c) PROVE CopiesInv'
  <2>0. /\ pc[c] # "idle" => stale'[c]
        /\ mr'[c].ext = mr[c].ext /\ mr'[c].final = mr[c].final /\ mr'[c].pending = mr[c].pending
        /\ UNCHANGED <<live, pc, mem>>
    BY <1>1, EditSpecIs
  <2>1. pc'[c] # "idle" => CopyAgrees(c)'
    BY <1>1, <2>0 DEF CopiesInv, CopyAgrees, Creating
  <2>2. \A d \in MRs \ {c} : /\ mr'[d] = mr[d] /\ mem'[d] = mem[d] /\ pc'[d] = pc[d]
                             /\ stale'[d] = stale[d]
                             /\ d \in live' <=> d \in live
    BY <1>1, EditSpecIs
  <2>. QED BY <1>1, <2>1, <2>2, LocalCopies
<1>2. ASSUME NEW c \in MRs, DeleteMR(c) PROVE CopiesInv'
  <2>0. /\ (pc[c] # "idle" => stale'[c]) /\ UNCHANGED <<pc, mem>>
        /\ mr'[c].ext = mr[c].ext /\ mr'[c].final = mr[c].final /\ mr'[c].pending = mr[c].pending
        /\ mr[c].final => c \in live'
    BY <1>2, DeleteMRIs
  <2>1. pc'[c] # "idle" => CopyAgrees(c)'
    BY <1>2, <2>0 DEF CopiesInv, CopyAgrees, Creating
  <2>2. \A d \in MRs \ {c} : d \in live' <=> d \in live
    BY <1>2, DeleteMRIs
  <2>. QED BY <1>2, <2>1, <2>2, DeleteMRIs, LocalCopies
<1>3. ASSUME NEW n \in GateNames, AdminDoes(n) PROVE CopiesInv'
  BY <1>3, AdminIs DEF apiVars, workerVars, CopiesInv, CopyAgrees, Creating
<1>4. CASE Restart
  BY <1>4, RestartIs DEF CopiesInv
<1>. QED BY <1>1, <1>2, <1>3, <1>4 DEF Users, AdminDoes

LEMMA CopiesInvariant == Spec => []CopiesInv
<1>1. Init => CopiesInv
  BY DEF Init, CopiesInv
<1>2. ASSUME CopiesInv, UNCHANGED vars PROVE CopiesInv'
  BY <1>2 DEF vars, apiVars, workerVars, CopiesInv, CopyAgrees, Creating
<1>3. TypeOK /\ CopiesInv /\ [Next]_vars => CopiesInv'
  BY <1>2, WorkerCopies, UsersCopies DEF Next
<1>. QED BY <1>1, <1>3, TypeCorrect, PTL DEF Spec

----------------------------------------------------------------------------
(* Who is being deleted.                                                    *)

\* A worker's copy knows of a deletion if it is current, and deletions are not
\* taken back: what is destroyed is destroyed for an MR being deleted.
LeavingOK(c) ==
    pc[c] # "idle" =>
        /\ ~stale[c] => mem[c].deleting = mr[c].deleting
        /\ mem[c].deleting => c \in live /\ mr[c].deleting
        /\ pc[c] = "destroy" => mem[c].deleting

LeavingInv == \A c \in MRs : LeavingOK(c)

LEMMA LocalLeaving ==
    ASSUME LeavingInv, NEW c \in MRs, LeavingOK(c)',
           \A d \in MRs \ {c} : /\ mr'[d] = mr[d] /\ mem'[d] = mem[d] /\ pc'[d] = pc[d]
                                /\ stale'[d] = stale[d]
                                /\ d \in live' <=> d \in live
    PROVE  LeavingInv'
BY DEF LeavingInv, LeavingOK

LEMMA WorkerLeaving ==
    ASSUME TypeOK, CopiesInv, LeavingInv, NEW c \in MRs, Worker(c)
    PROVE  LeavingInv'
<1>a. LeavingOK(c) /\ (pc[c] # "idle" /\ ~stale[c] => c \in live)
  BY DEF LeavingInv, CopiesInv, CopyAgrees
<1>. SUFFICES LeavingOK(c)'
  BY OthersKept, LocalLeaving
<1>1. CASE Reconcile(c)
  BY <1>1, ReconcileIs DEF LeavingOK
<1>2. CASE ObserveAbsent(c)
  BY <1>2, <1>a, ObserveAbsentIs DEF LeavingOK, apiVars
<1>3. CASE ObservePresent(c)
  BY <1>3, <1>a, ObservePresentIs DEF LeavingOK, apiVars
<1>4. CASE Writes(c)
  BY <1>4, <1>a, WritesIs DEF LeavingOK
<1>5. CASE Makes(c)
  BY <1>5, <1>a, MakesIs DEF LeavingOK, apiVars
<1>6. CASE CallsSonar(c)
  BY <1>6, <1>a, CallsIs DEF LeavingOK, apiVars
<1>7. CASE Ends(c)
  BY <1>7, EndsIs DEF LeavingOK
<1>. QED BY <1>1, <1>2, <1>3, <1>4, <1>5, <1>6, <1>7, WorkerIs DEF Observes

LEMMA UsersLeaving ==
    ASSUME TypeOK, LeavingInv, Users \/ Restart
    PROVE  LeavingInv'
<1>1. ASSUME NEW c \in MRs, EditSpec(c) PROVE LeavingInv'
  <2>1. LeavingOK(c)'
    BY <1>1, EditSpecIs DEF LeavingInv, LeavingOK
  <2>2. UNCHANGED <<live, pc, mem>> /\ \A d \in MRs \ {c} : mr'[d] = mr[d] /\ stale'[d] = stale[d]
    BY <1>1, EditSpecIs
  <2>. QED BY <1>1, <2>1, <2>2, LocalLeaving
<1>2. ASSUME NEW c \in MRs, DeleteMR(c) PROVE LeavingInv'
  <2>1. LeavingOK(c)'
    BY <1>2, DeleteMRIs DEF LeavingInv, LeavingOK
  <2>2. \A d \in MRs \ {c} : d \in live' <=> d \in live
    BY <1>2, DeleteMRIs
  <2>. QED BY <1>2, <2>1, <2>2, DeleteMRIs, LocalLeaving
<1>3. ASSUME NEW n \in GateNames, AdminDoes(n) PROVE LeavingInv'
  BY <1>3, AdminIs DEF apiVars, workerVars, LeavingInv, LeavingOK
<1>4. CASE Restart
  BY <1>4, RestartIs DEF LeavingInv, LeavingOK
<1>. QED BY <1>1, <1>2, <1>3, <1>4 DEF Users, AdminDoes

LEMMA LeavingInvariant == Spec => []LeavingInv
<1>1. Init => LeavingInv
  BY DEF Init, LeavingInv, LeavingOK
<1>2. ASSUME LeavingInv, UNCHANGED vars PROVE LeavingInv'
  BY <1>2 DEF vars, apiVars, workerVars, LeavingInv, LeavingOK
<1>3. TypeOK /\ CopiesInv /\ LeavingInv /\ [Next]_vars => LeavingInv'
  BY <1>2, WorkerLeaving, UsersLeaving DEF Next
<1>. QED BY <1>1, <1>3, TypeCorrect, CopiesInvariant, PTL DEF Spec

----------------------------------------------------------------------------
(* A step, as far as names and gates go.                                    *)

\* Gates appear by Create calls only, under the name the MR specifies.
GateStep(n) ==
    \/ (n \in gates' <=> n \in gates) /\ creator'[n] = creator[n]
    \/ n \notin gates' /\ creator'[n] = Nil
    \/ n \notin gates /\ n \in gates' /\ \E c \in MRs : creator'[n] = c /\ n = SpecName[c]

LEMMA GatesStep ==
    ASSUME TypeOK, [Next]_vars, NEW n \in GateNames
    PROVE  GateStep(n)
<1>1. ASSUME NEW c \in MRs, Worker(c) PROVE GateStep(n)
  <2>1. CASE Observes(c)
    BY <2>1, ObserveAbsentIs, ObservePresentIs DEF Observes, sonarVars, GateStep
  <2>2. CASE Makes(c)
    BY <2>2, MakesIs DEF TypeOK, GateStep
  <2>3. CASE CallsSonar(c)
    <3>1. CASE Destroy(c)
      BY <3>1 DEF Destroy, TypeOK, GateStep
    <3>2. CASE ~Destroy(c)
      BY <2>3, <3>2 DEF CallsSonar, CreateFails, CreateSetAsDefault, UpdateStart, DeleteCondition,
                        CreateCondition, UpdateCondition, sonarVars, GateStep
    <3>. QED BY <3>1, <3>2
  <2>4. CASE UNCHANGED <<sonarVars, creator>>
    BY <2>4 DEF sonarVars, GateStep
  <2>. QED BY <1>1, <2>1, <2>2, <2>3, <2>4, WorkerIs
<1>2. ASSUME NEW m \in GateNames, AdminDoes(m) PROVE GateStep(n)
  BY <1>2 DEF AdminDoes, AdminAddCondition, AdminRemoveCondition, AdminSetDefault, AdminDestroy,
              TypeOK, GateStep
<1>3. CASE UNCHANGED <<gates, creator>>
  BY <1>3 DEF GateStep
<1>. QED BY <1>1, <1>2, <1>3 DEF Next, Users, EditSpec, Restart, AdminDoes, sonarVars, vars

\* External names: the worker's copy gets one from the record or from its Create
\* call, the record gets the copy's.
NameStep(c) ==
    /\ mr'[c].ext \in {mr[c].ext, mem[c].ext}
    /\ \/ mem'[c].ext \in {mem[c].ext, mr[c].ext, NoName}
       \/ mem'[c].ext = SpecName[c] /\ creator'[SpecName[c]] = c

LEMMA NamesStep ==
    ASSUME TypeOK, [Next]_vars, NEW c \in MRs
    PROVE  NameStep(c)
<1>0. NoObject.ext = NoName
  BY DEF NoObject
<1>1. CASE Worker(c)
  <2>1. CASE Reconcile(c)
    BY <2>1, ReconcileIs DEF NameStep
  <2>2. CASE Observes(c)
    BY <2>2, ObserveAbsentIs, ObservePresentIs DEF Observes, apiVars, NameStep
  <2>3. CASE Writes(c)
    BY <2>3, WritesIs DEF NameStep
  <2>4. CASE Makes(c)
    <3>1. creator'[SpecName[c]] = c
      BY <2>4, MakesIs, GateAssumption DEF TypeOK
    <3>. QED BY <2>4, <3>1, MakesIs DEF apiVars, NameStep
  <2>5. CASE CallsSonar(c)
    BY <2>5, CallsIs DEF apiVars, NameStep
  <2>6. CASE Ends(c)
    BY <1>0, <2>6, EndsIs DEF NameStep
  <2>. QED BY <1>1, <2>1, <2>2, <2>3, <2>4, <2>5, <2>6, WorkerIs
<1>2. ASSUME NEW d \in MRs, d # c, Worker(d) \/ EditSpec(d) \/ DeleteMR(d) PROVE NameStep(c)
  BY <1>2, OthersKept, EditSpecIs, DeleteMRIs DEF NameStep
<1>3. CASE EditSpec(c) \/ DeleteMR(c)
  BY <1>3, EditSpecIs, DeleteMRIs DEF NameStep
<1>4. ASSUME NEW n \in GateNames, AdminDoes(n) PROVE NameStep(c)
  BY <1>4, AdminIs DEF apiVars, workerVars, NameStep
<1>5. CASE Restart
  BY <1>0, <1>5, RestartIs DEF apiVars, NameStep
<1>6. CASE UNCHANGED vars
  BY <1>6 DEF vars, apiVars, workerVars, NameStep
<1>. QED BY <1>1, <1>2, <1>3, <1>4, <1>5, <1>6 DEF Next, Users, AdminDoes

\* The external names an MR can have.
Names(c) == InitExt[c] \cup {SpecName[c], NoName}

NamesInv == \A c \in MRs : mr[c].ext \in Names(c) /\ mem[c].ext \in Names(c)

LEMMA NamesStart ==
    Init => \A c \in MRs : mr[c].ext \in InitExt[c] /\ mem[c].ext = NoName
<1>. SUFFICES ASSUME Init PROVE \A c \in MRs : mr[c].ext \in InitExt[c] /\ mem[c].ext = NoName
  OBVIOUS
<1>1. PICK want, ext :
          /\ \A c \in MRs : ext[c] \in InitExt[c]
          /\ mr = [c \in MRs |-> [NoObject EXCEPT !.ext = ext[c],
                       !.default = want[c].default, !.conds = want[c].conds]]
  BY DEF Init
<1>2. \A c \in MRs : mr[c].ext = ext[c] /\ mem[c].ext = NoName
  BY <1>1 DEF Init, NoObject
<1>. QED BY <1>1, <1>2

LEMMA InitNames == Init => NamesInv
BY NamesStart DEF NamesInv, Names

LEMMA StepNames == TypeOK /\ NamesInv /\ [Next]_vars => NamesInv'
BY NamesStep DEF NamesInv, Names, NameStep

LEMMA NamesInvariant == Spec => []NamesInv
BY InitNames, StepNames, TypeCorrect, PTL DEF Spec

----------------------------------------------------------------------------
(* A gate is destroyed for the MR it belongs to.                            *)

\* No MR specifies, or was told to import, a gate that another one specifies.
\* (Of two MRs of one name the one that is deleted destroys, by name, the gate
\* the other has made in the meantime.)
OwnNames ==
    \A c, d \in MRs : c # d => SpecName[d] \notin InitExt[c] \cup {SpecName[c]}

\* A gate an MR made bears the name it specifies.  One that no MR made bears the
\* external name of an MR only if the MR was told so: what is destroyed under
\* that name comes back by the MR's own Create call.
OwnInv ==
    /\ \A n \in GateNames : creator[n] # Nil => n = SpecName[creator[n]]
    /\ \A c \in MRs, n \in gates :
          creator[n] = Nil /\ n \in {mr[c].ext, mem[c].ext} => n \in InitExt[c]

LEMMA InitOwn == Init => OwnInv
<1>. SUFFICES ASSUME Init PROVE OwnInv
  OBVIOUS
<1>1. gates \subseteq GateNames /\ \A n \in GateNames : creator[n] = Nil
  BY GateAssumption DEF Init
<1>2. NoName \notin gates
  BY <1>1, GateAssumption
<1>3. ASSUME NEW c \in MRs, NEW n \in gates, n \in {mr[c].ext, mem[c].ext} PROVE n \in InitExt[c]
  BY <1>2, <1>3, NamesStart
<1>. QED BY <1>1, <1>3 DEF OwnInv

LEMMA StepOwn == TypeOK /\ OwnInv /\ [Next]_vars => OwnInv'
<1>. SUFFICES ASSUME TypeOK, OwnInv, [Next]_vars PROVE OwnInv'
  OBVIOUS
<1>a. gates \subseteq GateNames /\ gates' \subseteq GateNames
  BY StepType DEF TypeOK
<1>b. \A c \in MRs : c # Nil
  BY GateAssumption
<1>1. ASSUME NEW n \in GateNames, creator'[n] # Nil PROVE n = SpecName[creator'[n]]
  BY <1>1, GatesStep DEF OwnInv, GateStep
<1>2. ASSUME NEW n \in gates', creator'[n] = Nil PROVE n \in gates /\ creator[n] = Nil
  BY <1>a, <1>b, <1>2, GatesStep DEF GateStep
<1>3. ASSUME NEW c \in MRs, NEW n \in gates', creator'[n] = Nil, n \in {mr'[c].ext, mem'[c].ext}
      PROVE  n \in InitExt[c]
  <2>1. n \in gates /\ creator[n] = Nil /\ n # NoName
    BY <1>a, <1>2, <1>3, GateAssumption
  <2>2. n \in {mr[c].ext, mem[c].ext}
    BY <1>b, <1>3, <2>1, NamesStep DEF NameStep
  <2>. QED BY <2>1, <2>2 DEF OwnInv
<1>. QED BY <1>1, <1>3 DEF OwnInv

\* What a worker destroys, and for whom.
LEMMA DestroyStep ==
    ASSUME OwnNames, TypeOK, LeavingInv, NamesInv, OwnInv, [Next]_vars,
           NEW c \in MRs, pc[c] = "destroy", Steps(c), NEW n \in gates \ gates'
    PROVE  /\ c \in live /\ mr[c].deleting
           /\ creator[n] = c \/ (creator[n] = Nil /\ n \in InitExt[c])
<1>a. gates \subseteq GateNames /\ creator \in [GateNames -> MRs \cup {Nil}]
  BY DEF TypeOK
<1>1. Worker(c)
  <2>1. ASSUME NEW d \in MRs, d # c, Worker(d) PROVE FALSE
    BY <2>1, OthersKept DEF Steps
  <2>2. ASSUME NEW d \in MRs, EditSpec(d) \/ DeleteMR(d) PROVE FALSE
    BY <2>2, EditSpecIs, DeleteMRIs DEF Steps
  <2>3. ASSUME NEW m \in GateNames, AdminDoes(m) PROVE FALSE
    BY <2>3, AdminIs DEF Steps, workerVars
  <2>4. CASE Restart
    BY <2>4, RestartIs DEF sonarVars
  <2>. QED BY <2>1, <2>2, <2>3, <2>4 DEF Next, Users, AdminDoes, vars, sonarVars
<1>2. Destroy(c)
  <2>1. CallsSonar(c)
    BY <1>1, WorkerIs, ReconcileIs, ObserveAbsentIs, ObservePresentIs, WritesIs, MakesIs, EndsIs
       DEF Observes, sonarVars
  <2>. QED BY <2>1 DEF CallsSonar, CreateFails, CreateSetAsDefault, UpdateStart, DeleteCondition,
                       CreateCondition, UpdateCondition
<1>3. n = mem[c].ext
  BY <1>2 DEF Destroy
<1>4. c \in live /\ mr[c].deleting
  BY DEF LeavingInv, LeavingOK
<1>5. CASE creator[n] = Nil
  BY <1>3, <1>4, <1>5 DEF OwnInv
<1>6. CASE creator[n] # Nil
  <2>1. creator[n] \in MRs /\ n = SpecName[creator[n]] /\ n # NoName
    BY <1>a, <1>6, GateAssumption DEF OwnInv
  <2>2. n \in InitExt[c] \cup {SpecName[c]}
    BY <1>3, <2>1 DEF NamesInv, Names
  <2>. QED BY <1>4, <2>1, <2>2 DEF OwnNames
<1>. QED BY <1>5, <1>6

\* A worker destroys a gate only for an MR that is being deleted, and only one
\* that MR made or was told to import, whatever fails and whatever is changed by
\* hand, as long as the MRs keep to names of their own.
THEOREM OnlyOwnGatesDestroyed ==
    ASSUME OwnNames
    PROVE  Spec => DestroysOnlyOwn
<1>1. TypeOK /\ LeavingInv /\ NamesInv /\ OwnInv /\ [Next]_vars =>
          [\A c \in MRs : pc[c] = "destroy" /\ Steps(c) =>
              \A n \in gates \ gates' :
                  /\ c \in live /\ mr[c].deleting
                  /\ creator[n] = c \/ (creator[n] = Nil /\ n \in InitExt[c])]_vars
  BY DestroyStep
<1>2. Spec => []OwnInv
  BY InitOwn, StepOwn, TypeCorrect, PTL DEF Spec
<1>. QED BY <1>1, <1>2, TypeCorrect, LeavingInvariant, NamesInvariant, PTL DEF Spec, DestroysOnlyOwn

----------------------------------------------------------------------------
(* Two MRs that specify one name.                                           *)

\* No MR was told to import what another one specifies or imports.
OwnImports ==
    \A c, d \in MRs : c # d =>
        \A n \in InitExt[c] \cap GateNames : n \notin InitExt[d] \cup {SpecName[d]}

\* (Of three the one being deleted destroys the gate of the second, and the
\* third makes it again while the second still bears its name.)
AtMostTwo ==
    \A c, d, e \in MRs : SpecName[c] = SpecName[d] /\ SpecName[d] = SpecName[e] =>
        c = d \/ d = e \/ c = e

\* The MR has, or is about to record, n for its external name.
Holds(c, n) ==
    \/ c \in live /\ mr[c].ext = n
    \/ pc[c] \in {"createDefault", "record"} /\ mem[c].ext = n

Leaving(c) == c \notin live \/ mr[c].deleting

\* Of two MRs that have one name one is on its way out; and a name that names no
\* gate, so that another MR may make it again, is had by an MR on its way out
\* unless every other one is.
SharedInv ==
    \A c, d \in MRs, n \in GateNames :
        c # d /\ Holds(c, n) /\ (Holds(d, n) \/ (n \notin gates /\ SpecName[d] = n)) =>
            Leaving(c) \/ Leaving(d)

\* Nothing is left of a bound of zero.
HandsOff == budget.admin = 0

LEMMA StepHandsOff == TypeOK /\ HandsOff /\ [Next]_vars => HandsOff'
<1>. SUFFICES ASSUME TypeOK, HandsOff, [Next]_vars PROVE HandsOff'
  OBVIOUS
<1>a. budget \in Budget
  BY DEF TypeOK
<1>1. ASSUME NEW c \in MRs, Worker(c) PROVE HandsOff'
  <2>1. UNCHANGED budget \/ \E call \in Calls : Fault(call)
    BY <1>1 DEF Worker, Runtime, Reconcile, AddFinalizer, AnnounceCreate, RecordCreate,
                PersistLateInit, ReportStatus, RemoveFinalizer, Conflict, ObserveAbsent,
                ObservePresent, CreateOk, CreateFails, CreateReplyLost, CreateSetAsDefault,
                UpdateStart, DeleteCondition, CreateCondition, UpdateCondition, Destroy, Calls
  <2>. QED BY <1>a, <2>1 DEF Fault, Budget, HandsOff
<1>2. ASSUME NEW c \in MRs, EditSpec(c) \/ DeleteMR(c) PROVE HandsOff'
  BY <1>2, <1>a DEF EditSpec, Edit, DeleteMR, Budget, HandsOff
<1>3. ASSUME NEW n \in GateNames, AdminDoes(n) PROVE FALSE
  BY <1>3 DEF AdminDoes, AdminAddCondition, AdminRemoveCondition, AdminSetDefault, AdminDestroy,
              Admin, HandsOff
<1>4. CASE Restart
  BY <1>4, <1>a DEF Restart, Crash, Budget, HandsOff
<1>5. CASE UNCHANGED vars
  BY <1>5 DEF vars, HandsOff
<1>. QED BY <1>1, <1>2, <1>3, <1>4, <1>5 DEF Next, Users, AdminDoes

\* Nobody who is on the way out comes back.
LEMMA LeavingStep ==
    ASSUME TypeOK, LeavingInv, [Next]_vars, NEW c \in MRs, Leaving(c)
    PROVE  Leaving(c)'
<1>1. CASE Worker(c)
  <2>1. CASE Reconcile(c)
    BY <2>1, ReconcileIs DEF Leaving
  <2>2. CASE Observes(c)
    BY <2>2, ObserveAbsentIs, ObservePresentIs DEF Observes, apiVars, Leaving
  <2>3. CASE Writes(c)
    BY <2>3, WritesIs DEF LeavingInv, LeavingOK, Leaving
  <2>4. CASE Makes(c) \/ CallsSonar(c)
    BY <2>4, MakesIs, CallsIs DEF apiVars, Leaving
  <2>5. CASE Ends(c)
    BY <2>5, EndsIs DEF Leaving
  <2>. QED BY <1>1, <2>1, <2>2, <2>3, <2>4, <2>5, WorkerIs
<1>2. ASSUME NEW d \in MRs, d # c, Worker(d) \/ EditSpec(d) \/ DeleteMR(d) PROVE Leaving(c)'
  BY <1>2, OthersKept, EditSpecIs, DeleteMRIs DEF Leaving
<1>3. CASE EditSpec(c) \/ DeleteMR(c)
  BY <1>3, EditSpecIs, DeleteMRIs DEF Leaving
<1>4. ASSUME NEW n \in GateNames, AdminDoes(n) PROVE Leaving(c)'
  BY <1>4, AdminIs DEF apiVars, Leaving
<1>5. CASE Restart \/ UNCHANGED vars
  BY <1>5, RestartIs DEF vars, apiVars, Leaving
<1>. QED BY <1>1, <1>2, <1>3, <1>4, <1>5 DEF Next, Users, AdminDoes

\* A name is new to an MR only after its Create call.
LEMMA HoldsStep ==
    ASSUME TypeOK, CopiesInv, [Next]_vars, NEW c \in MRs, NEW n, Holds(c, n)', ~Holds(c, n)
    PROVE  Makes(c) /\ n = SpecName[c]
<1>1. CASE Worker(c)
  <2>1. CASE Reconcile(c)
    BY <2>1, ReconcileIs DEF Holds
  <2>2. CASE Observes(c)
    BY <2>2, ObserveAbsentIs, ObservePresentIs DEF Observes, apiVars, Holds
  <2>3. CASE Writes(c)
    BY <2>3, WritesIs DEF CopiesInv, CopyAgrees, Holds
  <2>4. CASE Makes(c)
    BY <2>4, MakesIs DEF CopiesInv, CopyAgrees, Creating, apiVars, Holds
  <2>5. CASE CallsSonar(c)
    BY <2>5, CallsIs DEF CopiesInv, CopyAgrees, Creating, apiVars, Holds
  <2>6. CASE Ends(c)
    BY <2>6, EndsIs DEF Holds
  <2>. QED BY <1>1, <2>1, <2>2, <2>3, <2>4, <2>5, <2>6, WorkerIs
<1>2. ASSUME NEW d \in MRs, d # c, Worker(d) \/ EditSpec(d) \/ DeleteMR(d) PROVE FALSE
  BY <1>2, OthersKept, EditSpecIs, DeleteMRIs DEF Holds
<1>3. CASE EditSpec(c) \/ DeleteMR(c)
  BY <1>3, EditSpecIs, DeleteMRIs DEF Holds
<1>4. ASSUME NEW m \in GateNames, AdminDoes(m) PROVE FALSE
  BY <1>4, AdminIs DEF apiVars, workerVars, Holds
<1>5. CASE Restart
  BY <1>5, RestartIs DEF apiVars, Holds
<1>6. CASE UNCHANGED vars
  BY <1>6 DEF vars, apiVars, workerVars, Holds
<1>. QED BY <1>1, <1>2, <1>3, <1>4, <1>5, <1>6 DEF Next, Users, AdminDoes

\* A gate goes for an MR that is being deleted, if not by hand.
LEMMA GoneStep ==
    ASSUME TypeOK, HandsOff, LeavingInv, [Next]_vars, NEW n \in gates \ gates'
    PROVE  \E e \in MRs : mem[e].ext = n /\ Leaving(e)
<1>1. ASSUME NEW c \in MRs, Worker(c) PROVE Destroy(c)
  <2>1. ~Makes(c)
    BY MakesIs
  <2>2. CallsSonar(c)
    BY <1>1, <2>1, WorkerIs, ReconcileIs, ObserveAbsentIs, ObservePresentIs DEF Observes, sonarVars
  <2>. QED BY <2>2 DEF CallsSonar, CreateFails, CreateSetAsDefault, UpdateStart, DeleteCondition,
                       CreateCondition, UpdateCondition, sonarVars
<1>2. ASSUME NEW c \in MRs, Destroy(c) PROVE mem[c].ext = n /\ Leaving(c)
  BY <1>2 DEF Destroy, LeavingInv, LeavingOK, Leaving
<1>3. ASSUME NEW m \in GateNames, AdminDoes(m) PROVE FALSE
  BY <1>3 DEF AdminDoes, AdminAddCondition, AdminRemoveCondition, AdminSetDefault, AdminDestroy,
              Admin, HandsOff
<1>4. gates' # gates
  OBVIOUS
<1>. QED BY <1>1, <1>2, <1>3, <1>4 DEF Next, Users, AdminDoes, EditSpec, Restart, sonarVars, vars

LEMMA InitShared == OwnImports /\ Init => SharedInv
<1>. SUFFICES ASSUME OwnImports, Init PROVE SharedInv
  OBVIOUS
<1>1. ASSUME NEW c \in MRs, NEW n \in GateNames, Holds(c, n) PROVE n \in InitExt[c]
  BY <1>1, NamesStart DEF Init, Holds
<1>. QED BY <1>1 DEF OwnImports, SharedInv

LEMMA StepShared ==
    ASSUME OwnImports, AtMostTwo, TypeOK, HandsOff, CopiesInv, LeavingInv, NamesInv, SharedInv,
           [Next]_vars
    PROVE  SharedInv'
<1>. SUFFICES ASSUME NEW c \in MRs, NEW d \in MRs, NEW n \in GateNames, c # d, Holds(c, n)',
                     Holds(d, n)' \/ (n \notin gates' /\ SpecName[d] = n)
              PROVE  Leaving(c)' \/ Leaving(d)'
  BY DEF SharedInv
<1>a. NamesInv'
  BY StepNames
<1>b. n \in InitExt[c] \cup {SpecName[c]}
  BY <1>a, GateAssumption DEF NamesInv, Names, Holds
\* As imports are no other's business, the name is the one both specify.
<1>1. n = SpecName[d]
  <2>1. CASE Holds(d, n)'
    <3>1. n \in InitExt[d] \cup {SpecName[d]}
      BY <1>a, <2>1, GateAssumption DEF NamesInv, Names, Holds
    <3>. QED BY <1>b, <3>1 DEF OwnImports
  <2>. QED BY <2>1
<1>2. n = SpecName[c]
  BY <1>b, <1>1 DEF OwnImports
<1>3. Leaving(c) \/ Leaving(d)
  <2>1. CASE Makes(c) \/ Makes(d)
    <3>1. n \notin gates /\ n \in gates'
      BY <1>1, <1>2, <2>1, MakesIs
    <3>2. Holds(c, n)' /\ Holds(d, n)'
      BY <3>1
    <3>3. Holds(c, n) \/ Holds(d, n)
      <4>1. ~(Makes(c) /\ Makes(d))
        BY OthersKept, MakesIs DEF Worker, Makes
      <4>. QED BY <3>2, <4>1, HoldsStep
    <3>. QED BY <1>1, <1>2, <3>1, <3>3 DEF SharedInv
  <2>2. CASE ~Makes(c) /\ ~Makes(d)
    <3>1. Holds(c, n) /\ (Holds(d, n)' => Holds(d, n))
      BY <2>2, HoldsStep
    <3>2. CASE Holds(d, n) \/ n \notin gates
      BY <1>1, <3>1, <3>2 DEF SharedInv
    <3>3. CASE n \in gates \ gates'
      <4>1. PICK e \in MRs : mem[e].ext = n /\ Leaving(e)
        BY <3>3, GoneStep
      <4>2. n \in InitExt[e] \cup {SpecName[e]}
        BY <4>1, GateAssumption DEF NamesInv, Names
      <4>3. e = c \/ e = d
        BY <1>1, <1>2, <4>2 DEF OwnImports, AtMostTwo
      <4>. QED BY <4>1, <4>3
    <3>. QED BY <3>1, <3>2, <3>3
  <2>. QED BY <2>1, <2>2
<1>. QED BY <1>3, LeavingStep

\* Of two MRs that specify one name, and import none of each other's, at most one
\* takes the gate for its own, or the other is on its way out: whatever fails,
\* and whenever the provider crashes, as long as nobody destroys gates by hand.
THEOREM GatesAreNotShared ==
    ASSUME OwnImports, AtMostTwo, MaxAdmin = 0
    PROVE  Spec => []NoSharedGate
<1>1. TypeOK /\ SharedInv => NoSharedGate
  BY DEF TypeOK, SharedInv, NoSharedGate, Holds, Leaving
<1>2. Init => HandsOff
  <2>1. Init => budget = [edits |-> MaxEdits, admin |-> MaxAdmin,
                          faults |-> MaxFaults, crashes |-> MaxCrashes]
    BY DEF Init
  <2>. QED BY <2>1 DEF HandsOff
<1>3. Spec => []HandsOff
  BY <1>2, StepHandsOff, TypeCorrect, PTL DEF Spec
<1>4. Spec => []SharedInv
  BY <1>3, InitShared, StepShared, TypeCorrect, CopiesInvariant, LeavingInvariant,
     NamesInvariant, PTL DEF Spec
<1>. QED BY <1>1, <1>4, TypeCorrect, PTL

----------------------------------------------------------------------------
(* The controller implements ResourceLife: a step of its own, of a user or  *)
(* of an administrator is a step of ResourceLife or changes nothing there.   *)

\* What ResourceLife sees.
Seen == <<live, {c \in live : mr[c].deleting}, [c \in MRs |-> mr[c].ext],
          gates, creator, budget.admin>>

\* A step that leaves of each object what ResourceLife sees is none there.
LEMMA StepUnseen ==
    ASSUME UNCHANGED <<live, gates, creator>>, budget'.admin = budget.admin,
           \A d \in MRs : mr'[d].ext = mr[d].ext /\ mr'[d].deleting = mr[d].deleting,
           live \subseteq MRs
    PROVE  UNCHANGED Seen
<1>1. {d \in live' : mr'[d].deleting} = {d \in live : mr[d].deleting}
  OBVIOUS
<1>2. [d \in MRs |-> mr'[d].ext] = [d \in MRs |-> mr[d].ext]
  OBVIOUS
<1>. QED BY <1>1, <1>2 DEF Seen

LEMMA InitLife == Init => Life!Init
<1>. SUFFICES ASSUME Init PROVE Life!Init
  OBVIOUS
<1>1. mr \in [MRs -> Object]
  BY InitType DEF TypeOK
<1>2. \A c \in MRs : ~mr[c].deleting
  <2>1. PICK want, ext : mr = [c \in MRs |-> [NoObject EXCEPT !.ext = ext[c],
                       !.default = want[c].default, !.conds = want[c].conds]]
    BY DEF Init
  <2>. QED BY <2>1 DEF NoObject
<1>3. {c \in live : mr[c].deleting} = {}
  BY <1>2 DEF Init
<1>4. gates \subseteq GateNames /\ creator = [n \in GateNames |-> Nil] /\ live = MRs
  BY GateAssumption DEF Init
<1>5. budget.admin \in Nat
  BY GateAssumption DEF Init
<1>. QED BY <1>3, <1>4, <1>5 DEF Life!Init

LEMMA FaultUnseen ==
    ASSUME TypeOK, NEW call, Fault(call)
    PROVE  budget'.admin = budget.admin
<1>1. budget \in Budget
  BY DEF TypeOK
<1>. QED BY <1>1 DEF Fault, Budget

LEMMA WorkerLife ==
    ASSUME ReliableReplies, TypeOK, TrackingInv, LeavingInv, NEW c \in MRs, Worker(c)
    PROVE  Life!Next \/ UNCHANGED Seen
<1>a. /\ mem[c] \in Object /\ mr[c] \in Object /\ live \subseteq MRs
      /\ mr \in [MRs -> Object] /\ SpecName[c] \in GateNames
      /\ gates \subseteq GateNames /\ mem[c].ext \in GateNames \cup {NoName}
      /\ c # Nil
  BY GateAssumption DEF TypeOK, Object
<1>b. LeavingOK(c) /\ Tracked(c)
  BY DEF LeavingInv, TrackingInv
<1>1. CASE (Reconcile(c) \/ Conflict(c)) /\ UNCHANGED <<sonarVars, creator>>
  BY <1>1, <1>a, StepUnseen DEF Reconcile, Conflict, sonarVars
<1>2. CASE \/ ObserveAbsent(c) \/ ObservePresent(c) \/ CreateFails(c) \/ CreateSetAsDefault(c)
           \/ UpdateStart(c) \/ DeleteCondition(c) \/ CreateCondition(c) \/ UpdateCondition(c)
  <2>1. /\ UNCHANGED <<gates, apiVars, creator>>
        /\ UNCHANGED budget \/ \E call \in Calls : Fault(call)
    BY <1>2 DEF ObserveAbsent, ObservePresent, CreateFails, CreateSetAsDefault, UpdateStart,
                DeleteCondition, CreateCondition, UpdateCondition, sonarVars, Calls
  <2>2. budget'.admin = budget.admin
    BY <2>1, FaultUnseen
  <2>. QED BY <1>a, <2>1, <2>2, StepUnseen DEF apiVars
<1>3. CASE Writes(c) /\ UNCHANGED <<sonarVars, creator>>
  <2>0. ~stale[c] /\ pc[c] \in {"finalize", "pending", "persist"} /\ UNCHANGED <<live, budget>>
    BY <1>3, WritesIs
  <2>1. mem[c].ext = mr[c].ext
    BY <1>b, <2>0 DEF Tracked, CopyAgrees
  <2>2. mem[c].deleting = mr[c].deleting
    BY <1>b, <2>0 DEF LeavingOK
  <2>3. mr'[c].ext = mr[c].ext /\ mr'[c].deleting = mr[c].deleting
    BY <1>3, <2>1, <2>2, WritesIs
  <2>4. \A d \in MRs \ {c} : mr'[d] = mr[d]
    BY OthersKept
  <2>. QED BY <1>3, <1>a, <2>0, <2>3, <2>4, StepUnseen DEF sonarVars
<1>4. CASE CreateOk(c)
  <2>1. c \in live /\ \A n \in gates : creator[n] # c
    BY <1>4, <1>a, <1>b DEF CreateOk, Tracked, CopyAgrees, HasNoGate, Creating
  <2>2. Life!Has(c) = {}
    BY <2>1 DEF Life!Has
  <2>3. /\ SpecName[c] \notin gates /\ gates' = gates \cup {SpecName[c]}
        /\ creator' = [creator EXCEPT ![SpecName[c]] = c]
        /\ UNCHANGED <<live, mr, budget>>
    BY <1>4 DEF CreateOk, apiVars
  <2>4. Life!Make(c, SpecName[c])
    BY <2>1, <2>2, <2>3 DEF Life!Make
  <2>. QED BY <1>a, <2>4 DEF Life!Next
<1>5. CASE CreateReplyLost(c)
  BY <1>5 DEF CreateReplyLost, Fault, ReliableReplies
<1>6. CASE RecordCreate(c) /\ UNCHANGED <<sonarVars, creator>>
  <2>1. c \in live /\ \A n \in gates : creator[n] = c => n = mem[c].ext
    BY <1>6, <1>a, <1>b DEF RecordCreate, Tracked, CopyAgrees, Creating
  <2>2. /\ mr'[c].ext = mem[c].ext
        /\ \A d \in MRs \ {c} : mr'[d] = mr[d]
        /\ \A d \in MRs : mr'[d].deleting = mr[d].deleting
        /\ UNCHANGED <<live, budget, gates, creator>>
    BY <1>6, <1>a, <2>1 DEF RecordCreate, sonarVars, Object
  <2>3. [d \in MRs |-> mr[d].ext]'[c] = mem[c].ext
    BY <2>2
  <2>4. \A d \in MRs \ {c} : [e \in MRs |-> mr[e].ext]'[d] = [e \in MRs |-> mr[e].ext][d]
    BY <2>2
  <2>5. {d \in live : mr[d].deleting}' = {d \in live : mr[d].deleting}
    BY <1>a, <2>2
  <2>6. Life!Has(c) \subseteq {mem[c].ext}
    BY <2>1 DEF Life!Has
  <2>7. Life!Record(c)
    BY <2>1, <2>2, <2>3, <2>4, <2>5, <2>6 DEF Life!Record
  <2>. QED BY <2>7 DEF Life!Next
<1>7. CASE ReportStatus(c) /\ UNCHANGED <<sonarVars, creator>>
  <2>1. \A d \in MRs : mr'[d].ext = mr[d].ext /\ mr'[d].deleting = mr[d].deleting
    BY <1>7, <1>a DEF ReportStatus, Object
  <2>. QED BY <1>7, <1>a, <2>1, StepUnseen DEF ReportStatus, sonarVars
<1>8. CASE Destroy(c)
  <2>1. UNCHANGED <<live, mr>>
    BY <1>8 DEF Destroy, apiVars
  <2>2. CASE UNCHANGED <<gates, creator>>
    <3>1. budget'.admin = budget.admin
      BY <1>8, FaultUnseen DEF Destroy
    <3>. QED BY <1>a, <2>1, <2>2, <3>1, StepUnseen
  <2>3. CASE /\ mem[c].ext \in gates
             /\ gates' = gates \ {mem[c].ext}
             /\ creator' = [creator EXCEPT ![mem[c].ext] = Nil]
             /\ UNCHANGED budget
    <3>1. {d \in live : mr[d].deleting} # {}
      BY <1>8, <1>b DEF Destroy, LeavingOK
    <3>2. Life!Destroy(mem[c].ext)
      BY <2>1, <2>3, <3>1 DEF Life!Destroy, Life!Gone
    <3>. QED BY <1>a, <2>3, <3>2 DEF Life!Next
  <2>. QED BY <1>8, <2>2, <2>3 DEF Destroy, Destroyable
<1>9. CASE RemoveFinalizer(c) /\ UNCHANGED <<sonarVars, creator>>
  <2>1. c \in live /\ \A n \in gates : creator[n] # c
    BY <1>9, <1>a, <1>b DEF RemoveFinalizer, Tracked, CopyAgrees, HasNoGate
  <2>2. live' = live \ {c} /\ UNCHANGED <<mr, budget, gates, creator>>
    BY <1>9 DEF RemoveFinalizer, sonarVars
  <2>3. {d \in live : mr[d].deleting}' = {d \in live : mr[d].deleting} \ {c}
    BY <2>2
  <2>4. Life!Leave(c)
    BY <2>1, <2>2, <2>3 DEF Life!Leave, Life!Has
  <2>. QED BY <2>4 DEF Life!Next
<1>. QED BY <1>1, <1>2, <1>3, <1>4, <1>5, <1>6, <1>7, <1>8, <1>9 DEF Worker, Runtime, Writes

LEMMA UsersLife ==
    ASSUME TypeOK, TrackingInv, Users \/ Restart
    PROVE  Life!Next \/ UNCHANGED Seen
<1>a. /\ live \subseteq MRs /\ mr \in [MRs -> Object] /\ budget \in Budget
      /\ \A c \in MRs : mr[c] \in Object
  BY DEF TypeOK
<1>1. ASSUME NEW c \in MRs, EditSpec(c) PROVE UNCHANGED Seen
  <2>1. \A d \in MRs : mr'[d].ext = mr[d].ext /\ mr'[d].deleting = mr[d].deleting
    BY <1>1, <1>a DEF EditSpec, Edit, Object
  <2>2. UNCHANGED <<live, gates, creator>> /\ budget'.admin = budget.admin
    BY <1>1, <1>a DEF EditSpec, Edit, sonarVars, Budget
  <2>. QED BY <1>a, <2>1, <2>2, StepUnseen
<1>2. ASSUME NEW c \in MRs, DeleteMR(c), UNCHANGED <<sonarVars, creator>> PROVE Life!Next
  <2>1. c \in live /\ ~mr[c].deleting /\ UNCHANGED <<gates, creator, budget>>
    BY <1>2 DEF DeleteMR, sonarVars
  <2>2. CASE mr[c].final
    <3>1. /\ mr'[c].ext = mr[c].ext /\ mr'[c].deleting
          /\ \A d \in MRs \ {c} : mr'[d] = mr[d]
          /\ UNCHANGED live
      BY <1>2, <1>a, <2>2 DEF DeleteMR, Object
    <3>2. {d \in live : mr[d].deleting}' = {d \in live : mr[d].deleting} \cup {c}
      BY <1>a, <2>1, <3>1
    <3>3. [d \in MRs |-> mr[d].ext]' = [d \in MRs |-> mr[d].ext]
      BY <3>1
    <3>4. Life!Retire(c)
      BY <2>1, <3>1, <3>2, <3>3 DEF Life!Retire
    <3>. QED BY <3>4 DEF Life!Next
  <2>3. CASE ~mr[c].final
    <3>1. live' = live \ {c} /\ UNCHANGED mr
      BY <1>2, <2>3 DEF DeleteMR
    <3>2. Life!Has(c) = {}
      BY <2>3, <1>2 DEF Life!Has, TrackingInv, Tracked, GateHeld, TypeOK
    <3>3. {d \in live : mr[d].deleting}' = {d \in live : mr[d].deleting} \ {c}
      BY <3>1
    <3>4. Life!Leave(c)
      BY <2>1, <3>1, <3>2, <3>3 DEF Life!Leave
    <3>. QED BY <3>4 DEF Life!Next
  <2>. QED BY <2>2, <2>3
<1>3. ASSUME NEW n \in GateNames,
             \/ AdminAddCondition(n) \/ AdminRemoveCondition(n)
             \/ AdminSetDefault(n) \/ AdminDestroy(n)
      PROVE  Life!Next
  <2>1. /\ budget.admin > 0 /\ budget'.admin = budget.admin - 1
        /\ UNCHANGED <<live, mr>>
    BY <1>3, <1>a DEF AdminAddCondition, AdminRemoveCondition, AdminSetDefault, AdminDestroy,
                      Admin, Budget
  <2>2. \/ UNCHANGED <<gates, creator>>
        \/ gates' = gates \ {n} /\ creator' = [creator EXCEPT ![n] = Nil]
    BY <1>3 DEF AdminAddCondition, AdminRemoveCondition, AdminSetDefault, AdminDestroy
  <2>3. Life!ByHand
    BY <2>1, <2>2 DEF Life!ByHand, Life!Gone
  <2>. QED BY <2>3 DEF Life!Next
<1>4. ASSUME Restart PROVE UNCHANGED Seen
  <2>1. budget'.admin = budget.admin /\ UNCHANGED <<live, mr, gates, creator>>
    BY <1>4, <1>a DEF Restart, Crash, Budget, sonarVars
  <2>. QED BY <1>a, <2>1, StepUnseen
<1>. QED BY <1>1, <1>2, <1>3, <1>4 DEF Users

LEMMA StepLife ==
    ASSUME ReliableReplies
    PROVE  TypeOK /\ TrackingInv /\ LeavingInv /\ [Next]_vars => [Life!Next]_(Life!vars)
<1>1. ASSUME UNCHANGED vars PROVE UNCHANGED Seen
  BY <1>1 DEF vars, sonarVars, apiVars, Seen
<1>2. UNCHANGED Seen <=> UNCHANGED Life!vars
  BY DEF Seen, Life!vars
<1>. QED BY <1>1, <1>2, WorkerLife, UsersLife DEF Next

\* The controller keeps what ResourceLife promises: it makes at most one gate
\* for an MR, records no other name than that gate's, destroys gates only
\* while an MR is being deleted, and lets an MR go only when it has none.
THEOREM GatesKeepLife ==
    ASSUME ReliableReplies
    PROVE  Spec => KeepsLife
<1>1. Spec => []TrackingInv
  BY InitTracking, StepTracking, TypeCorrect, PTL DEF Spec
<1>. QED
  BY <1>1, LeavingInvariant, InitLife, StepLife, TypeCorrect, PTL DEF Spec, KeepsLife, Life!Spec

----------------------------------------------------------------------------
(* Ids, and the gates whose conditions have them.                           *)

\* An id is one condition's of one gate, and a gate that is not there has none.
IdsInv ==
    /\ \A m, n \in GateNames : \A o \in conds[m], x \in conds[n] :
          o.id = x.id => m = n /\ o = x
    /\ \A n \in GateNames \ gates : conds[n] = {}

\* Among the conditions cs of the gates those seen are on gate n, or gone.
On(cs, n, seen) == \A m \in GateNames : \A o \in cs[m] : o.id \in IdsOf(seen) => m = n
Gone(cs, seen)  == \A m \in GateNames : \A o \in cs[m] : o.id \notin IdsOf(seen)

\* The worker found no gate, and may go on to make one under another name.
Without(c) ==
    \/ pc[c] \in {"pending", "create", "createDefault", "record"}
    \/ pc[c] = "finalize" /\ ~verdict[c].exists

\* The conditions in the status of the record and of the copy are on the gate of
\* the external name beside it, or gone; and gone while that name may change.
SeenOn(c) ==
    /\ c \in live => On(conds, mr[c].ext, mr[c].seen)
    /\ On(conds, mem[c].ext, mem[c].seen)
    /\ Without(c) => /\ c \in live => Gone(conds, mr[c].seen)
                     /\ Gone(conds, mem[c].seen)
    /\ pc[c] = "sync" =>
          /\ todo[c].del \subseteq mem[c].seen
          /\ \A a \in todo[c].upd : a.obs \in mem[c].seen

SeenInv == \A c \in MRs : SeenOn(c)

LEMMA NewIdIs == ASSUME NewIds # {} PROVE NewId \in Ids \ KnownIds
BY DEF NewId, NewIds

LEMMA Known ==
    /\ \A n \in GateNames : IdsOf(conds[n]) \subseteq KnownIds
    /\ \A c \in MRs : /\ c \in live => IdsOf(mr[c].seen) \subseteq KnownIds
                      /\ IdsOf(mem[c].seen) \subseteq KnownIds
<1>1. ASSUME NEW n \in GateNames PROVE IdsOf(conds[n]) \subseteq KnownIds
  BY DEF KnownIds, IdsOf, AllConditions
<1>2. ASSUME NEW c \in MRs PROVE IdsOf(mem[c].seen) \subseteq KnownIds
  BY DEF KnownIds
<1>3. ASSUME NEW c \in MRs, c \in live PROVE IdsOf(mr[c].seen) \subseteq KnownIds
  BY <1>3 DEF KnownIds
<1>. QED BY <1>1, <1>2, <1>3

\* The ways conditions change: gates lose some, one gets a new one, or one is
\* changed in place.
Lost  == /\ \A n \in GateNames : conds'[n] \subseteq conds[n]
         /\ \A n \in GateNames \ gates' : conds'[n] = {}
Added == /\ NewIds # {} /\ gates' = gates
         /\ \E n \in gates, x \in Observation :
               /\ Accepts(n, x.metric) /\ x.id = NewId
               /\ conds' = [conds EXCEPT ![n] = @ \cup {x}]
ChangedTo(id, p) == conds' = [n \in GateNames |->
                        {IF x.id = id THEN Held(p, x.id) ELSE x : x \in conds[n]}]
Changed == /\ gates' = gates
           /\ \E c \in MRs : /\ pc[c] = "sync"
                             /\ \E a \in todo[c].upd : ChangedTo(a.obs.id, a.spec)

LEMMA CondsAre ==
    ASSUME TypeOK, IdsInv, [Next]_vars
    PROVE  Lost \/ Added \/ Changed
<1>1. CASE UNCHANGED <<gates, conds>>
  BY <1>1 DEF IdsInv, Lost
<1>2. ASSUME NEW c \in MRs, Worker(c) PROVE Lost \/ Added \/ Changed
  <2>1. CASE UNCHANGED sonarVars
    BY <1>1, <2>1 DEF sonarVars
  <2>2. CASE Makes(c)
    BY <2>2, MakesIs, GateAssumption DEF TypeOK, IdsInv, Lost
  <2>3. CASE Destroy(c)
    BY <1>1, <2>3 DEF Destroy, Destroyable, TypeOK, IdsInv, Lost
  <2>4. CASE CreateFails(c) \/ CreateSetAsDefault(c) \/ UpdateStart(c)
    BY <1>1, <2>4 DEF CreateFails, CreateSetAsDefault, UpdateStart, sonarVars
  <2>5. CASE DeleteCondition(c)
    BY <1>1, <2>5 DEF DeleteCondition, TypeOK, IdsInv, Lost
  <2>6. CASE CreateCondition(c)
    <3>1. CASE conds' # conds
      <4>1. PICK p \in todo[c].cre : /\ Accepts(mem[c].ext, p.metric) /\ NewIds # {}
                                     /\ conds' = [conds EXCEPT ![mem[c].ext] =
                                                      @ \cup {Held(p, NewId)}]
        BY <2>6, <3>1 DEF CreateCondition
      <4>2. Held(p, NewId) \in Observation /\ Held(p, NewId).id = NewId
        BY <4>1, NewIdIs, HeldType DEF TypeOK, Todo, Held
      <4>3. Held(p, NewId).metric = p.metric
        BY DEF Held
      <4>. QED BY <2>6, <4>1, <4>2, <4>3 DEF CreateCondition, Accepts, Added
    <3>. QED BY <1>1, <2>6, <3>1 DEF CreateCondition
  <2>7. CASE UpdateCondition(c)
    <3>1. CASE conds' # conds
      <4>1. PICK a \in todo[c].upd : ChangedTo(a.obs.id, a.spec)
        BY <2>7, <3>1 DEF UpdateCondition, ChangedTo
      <4>. QED BY <2>7, <4>1 DEF UpdateCondition, Changed
    <3>. QED BY <1>1, <2>7, <3>1 DEF UpdateCondition
  <2>. QED BY <1>2, <2>1, <2>2, <2>3, <2>4, <2>5, <2>6, <2>7, WorkerIs, ObserveAbsentIs,
              ObservePresentIs DEF Observes, CallsSonar
<1>3. ASSUME NEW n \in GateNames, AdminDoes(n) PROVE Lost \/ Added \/ Changed
  <2>1. CASE AdminAddCondition(n)
    <3>1. PICK x \in Observation : /\ Accepts(n, x.metric) /\ n \in gates /\ x.id = NewId
                                   /\ conds' = [conds EXCEPT ![n] = @ \cup {x}]
      BY <2>1, NewIdIs DEF AdminAddCondition, Accepts, Observation
    <3>. QED BY <2>1, <3>1 DEF AdminAddCondition, Added
  <2>2. CASE AdminRemoveCondition(n)
    BY <2>2 DEF AdminRemoveCondition, TypeOK, IdsInv, Lost
  <2>3. CASE AdminSetDefault(n)
    BY <1>1, <2>3 DEF AdminSetDefault
  <2>4. CASE AdminDestroy(n)
    BY <2>4 DEF AdminDestroy, TypeOK, IdsInv, Lost
  <2>. QED BY <1>3, <2>1, <2>2, <2>3, <2>4 DEF AdminDoes
<1>. QED BY <1>1, <1>2, <1>3 DEF Next, Users, AdminDoes, EditSpec, Restart, sonarVars, vars

\* Every id there is after a step was there before, or is new.
IdsStay == \A n \in GateNames : \A x \in conds'[n] :
               x.id \notin KnownIds \/ \E o \in conds[n] : o.id = x.id

LEMMA CondsStep ==
    ASSUME TypeOK, IdsInv, [Next]_vars
    PROVE  IdsInv' /\ IdsStay
<1>1. CASE Lost
  BY <1>1 DEF Lost, IdsInv, IdsStay
<1>2. CASE Added
  <2>1. PICK n \in gates, x \in Observation :
            x.id = NewId /\ conds' = [conds EXCEPT ![n] = @ \cup {x}]
    BY <1>2 DEF Added
  <2>2. \A m \in GateNames : \A o \in conds[m] : o.id # x.id
    BY <1>2, <2>1, NewIdIs, Known DEF Added, IdsOf
  <2>3. /\ gates' = gates /\ n \in GateNames
        /\ \A m \in GateNames : \A o \in conds'[m] : o \in conds[m] \/ (m = n /\ o = x)
    BY <1>2, <2>1 DEF Added, TypeOK
  <2>4. x.id \notin KnownIds
    BY <1>2, <2>1, NewIdIs DEF Added
  <2>5. \A m \in GateNames \ gates' : conds'[m] = {}
    BY <2>1, <2>3 DEF IdsInv
  <2>. QED BY <2>2, <2>3, <2>4, <2>5 DEF IdsInv, IdsStay
<1>3. CASE Changed
  <2>0. PICK c \in MRs : \E a \in todo[c].upd : ChangedTo(a.obs.id, a.spec)
    BY <1>3 DEF Changed
  <2>1. PICK a \in todo[c].upd : ChangedTo(a.obs.id, a.spec)
    BY <2>0
  <2>. DEFINE f(x) == IF x.id = a.obs.id THEN Held(a.spec, x.id) ELSE x
  <2>2. \A x : f(x).id = x.id
    BY DEF Held
  <2>3. \A n \in GateNames : \A o \in conds'[n] : \E x \in conds[n] : o = f(x)
    BY <2>1 DEF ChangedTo
  <2>. HIDE DEF f
  <2>4. \A n \in GateNames : conds[n] = {} => conds'[n] = {}
    BY <2>3
  <2>5. ASSUME NEW m \in GateNames, NEW n \in GateNames, NEW o \in conds'[m], NEW x \in conds'[n],
               o.id = x.id
        PROVE  m = n /\ o = x
    <3>1. PICK y \in conds[m] : o = f(y)
      BY <2>3
    <3>2. PICK z \in conds[n] : x = f(z)
      BY <2>3
    <3>3. y.id = z.id
      BY <2>2, <2>5, <3>1, <3>2
    <3>4. m = n /\ y = z
      BY <3>3 DEF IdsInv
    <3>. QED BY <3>1, <3>2, <3>4
  <2>6. \A n \in GateNames \ gates' : conds'[n] = {}
    BY <1>3, <2>4 DEF Changed, IdsInv
  <2>7. IdsStay
    BY <2>2, <2>3 DEF IdsStay
  <2>8. IdsInv'
    BY <2>5, <2>6 DEF IdsInv
  <2>. QED BY <2>7, <2>8
<1>. QED BY <1>1, <1>2, <1>3, CondsAre

LEMMA StaysOn ==
    ASSUME IdsStay, NEW S, IdsOf(S) \subseteq KnownIds
    PROVE  /\ \A n : On(conds, n, S) => On(conds', n, S)
           /\ Gone(conds, S) => Gone(conds', S)
BY DEF IdsStay, On, Gone

\* What keeps its status, name and plan keeps SeenOn.
LEMMA SeenKept ==
    ASSUME SeenInv, IdsStay, NEW c \in MRs,
           mr'[c].ext = mr[c].ext, mr'[c].seen = mr[c].seen, mem'[c] = mem[c],
           pc'[c] = pc[c], verdict'[c] = verdict[c], todo'[c] = todo[c],
           c \in live' => c \in live
    PROVE  SeenOn(c)'
<1>1. SeenOn(c)
  BY DEF SeenInv
<1>2. /\ c \in live => IdsOf(mr[c].seen) \subseteq KnownIds
      /\ IdsOf(mem[c].seen) \subseteq KnownIds
  BY Known
<1>. QED BY <1>1, <1>2, StaysOn DEF SeenOn, Without

\* What is planned is planned for conditions seen.
LEMMA PlanSeen ==
    ASSUME NEW object \in Object
    PROVE  /\ Plan(object).del \subseteq object.seen
           /\ \A a \in Plan(object).upd : a.obs \in object.seen
<1>1. object.conds \in Seq(Params) /\ object.seen \in SUBSET Observation
  BY DEF Object
<1>2. ASSUME NEW a \in Associations(object.conds, object.seen), a.obs # Nil
      PROVE  a.obs \in object.seen
  BY <1>2 DEF Associations, ObservationAt
<1>. QED BY <1>2 DEF Plan, FindMissing, FindNotUpToDate

\* What a step does to the worker's plan.
LEMMA TodoIs ==
    ASSUME TypeOK, NEW c \in MRs, CallsSonar(c), pc'[c] = "sync"
    PROVE  \/ pc[c] = "update" /\ todo'[c] = Plan(mem[c])
           \/ /\ pc[c] = "sync" /\ todo'[c].del \subseteq todo[c].del
              /\ todo'[c].cre \subseteq todo[c].cre /\ todo'[c].upd \subseteq todo[c].upd
<1>a. todo[c] \in Todo
  BY DEF TypeOK
<1>1. CASE CreateFails(c) \/ CreateSetAsDefault(c) \/ Destroy(c)
  BY <1>1 DEF CreateFails, CreateSetAsDefault, Destroy, Goto, TypeOK
<1>2. CASE UpdateStart(c)
  BY <1>2 DEF UpdateStart, Continue, Abandon, Goto, TypeOK
<1>3. CASE DeleteCondition(c)
  <2>1. PICK o : todo'[c] = [todo[c] EXCEPT !.del = @ \ {o}]
    BY <1>3 DEF DeleteCondition, Continue, Abandon, Goto, TypeOK
  <2>. QED BY <1>3, <1>a, <2>1 DEF DeleteCondition, Todo
<1>4. CASE CreateCondition(c)
  <2>1. PICK p : todo'[c] = [todo[c] EXCEPT !.cre = @ \ {p}]
    BY <1>4 DEF CreateCondition, Continue, Abandon, Goto, TypeOK
  <2>. QED BY <1>4, <1>a, <2>1 DEF CreateCondition, Todo
<1>5. CASE UpdateCondition(c)
  <2>1. PICK a : todo'[c] = [todo[c] EXCEPT !.upd = @ \ {a}]
    BY <1>5 DEF UpdateCondition, Continue, Abandon, Goto, TypeOK
  <2>. QED BY <1>5, <1>a, <2>1 DEF UpdateCondition, Todo
<1>. QED BY <1>1, <1>2, <1>3, <1>4, <1>5 DEF CallsSonar

\* Show fails only for a gate that is not there.
ReliableShow == "Show" \notin FaultyCalls

LEMMA WorkerSeen ==
    ASSUME ReliableShow, TypeOK, CopiesInv, IdsInv, IdsStay, SeenInv, NEW c \in MRs, Worker(c)
    PROVE  SeenOn(c)'
<1>a. /\ SeenOn(c)
      /\ pc[c] # "idle" => CopyAgrees(c)
      /\ live' \subseteq live
      /\ mem[c] \in Object
  <2>1. live' \subseteq live
    BY WorkerIs, ReconcileIs, ObserveAbsentIs, ObservePresentIs, WritesIs, MakesIs, CallsIs, EndsIs
       DEF Observes, apiVars
  <2>. QED BY <2>1 DEF SeenInv, CopiesInv, TypeOK
<1>b. /\ c \in live => IdsOf(mr[c].seen) \subseteq KnownIds
      /\ IdsOf(mem[c].seen) \subseteq KnownIds
  BY Known
\* What was known of c holds of the conditions there are now.
<1>c. /\ c \in live => On(conds', mr[c].ext, mr[c].seen)
      /\ On(conds', mem[c].ext, mem[c].seen)
      /\ Without(c) => /\ c \in live => Gone(conds', mr[c].seen)
                       /\ Gone(conds', mem[c].seen)
  BY <1>a, <1>b, StaysOn DEF SeenOn
<1>d. \A S, n : Gone(conds', S) => On(conds', n, S)
  BY DEF Gone, On
<1>1. CASE Reconcile(c)
  BY <1>1, <1>c, ReconcileIs DEF SeenOn, Without
<1>2. CASE ObserveAbsent(c)
  <2>1. /\ pc[c] = "observe" /\ pc'[c] # "sync" /\ mem[c].ext \notin gates
        /\ UNCHANGED <<conds, apiVars, mem>>
    BY <1>2, ObserveAbsentIs DEF ReliableShow, sonarVars
  <2>2. \A n \in GateNames : n = mem[c].ext => conds[n] = {}
    BY <2>1 DEF IdsInv
  <2>3. Gone(conds, mem[c].seen)
    BY <1>a, <2>2 DEF SeenOn, On, Gone
  <2>4. c \in live => Gone(conds, mr[c].seen)
    BY <1>a, <2>1, <2>2 DEF CopyAgrees, SeenOn, On, Gone
  <2>. QED BY <1>a, <2>1, <2>3, <2>4 DEF SeenOn, apiVars
<1>3. CASE ObservePresent(c)
  <2>1. /\ ~Without(c)' /\ pc'[c] # "sync" /\ UNCHANGED <<conds, apiVars>>
        /\ mem'[c].ext = mem[c].ext /\ mem'[c].seen = conds[mem[c].ext] /\ mem[c].ext \in gates
    BY <1>3, ObservePresentIs DEF Without, sonarVars
  <2>2. On(conds, mem[c].ext, conds[mem[c].ext])
    BY <2>1 DEF TypeOK, IdsInv, On, IdsOf
  <2>. QED BY <1>a, <2>1, <2>2 DEF SeenOn, apiVars
<1>4. CASE Writes(c)
  <2>1. /\ c \in live /\ mem[c].ext = mr[c].ext
        /\ mr'[c].ext = mem[c].ext /\ mem'[c].ext = mem[c].ext
        /\ mr'[c].seen = mr[c].seen /\ mem'[c].seen \in {mr[c].seen, mem[c].seen}
        /\ pc'[c] # "sync"
    BY <1>4, <1>a, WritesIs DEF CopyAgrees
  <2>2. Without(c)' => Without(c)
    BY <1>4, WritesIs DEF Without
  <2>. QED BY <1>a, <1>c, <2>1, <2>2 DEF SeenOn
<1>5. CASE Makes(c)
  <2>1. /\ Without(c) /\ mem'[c].seen = mem[c].seen /\ pc'[c] # "sync" /\ UNCHANGED apiVars
    BY <1>5, MakesIs DEF Without
  <2>. QED BY <1>a, <1>c, <1>d, <2>1 DEF SeenOn, apiVars
<1>6. CASE CallsSonar(c)
  <2>1. UNCHANGED <<apiVars, mem, verdict>> /\ (Without(c)' => Without(c))
    BY <1>6, CallsIs DEF Without
  <2>2. ASSUME pc'[c] = "sync"
        PROVE  /\ todo'[c].del \subseteq mem[c].seen
               /\ \A a \in todo'[c].upd : a.obs \in mem[c].seen
    BY <1>6, <1>a, <2>2, TodoIs, PlanSeen DEF SeenOn
  <2>. QED BY <1>a, <1>c, <2>1, <2>2 DEF SeenOn, apiVars
<1>7. CASE Ends(c)
  <2>1. /\ ~Without(c)' /\ pc'[c] # "sync" /\ mem'[c] = NoObject
    BY <1>7, EndsIs DEF Without
  <2>2. On(conds', mem'[c].ext, mem'[c].seen)
    BY <2>1 DEF NoObject, On, IdsOf
  <2>3. ASSUME c \in live' PROVE On(conds', mr'[c].ext, mr'[c].seen)
    <3>1. CASE pc[c] = "record" /\ mr'[c].seen = mr[c].seen
      BY <1>a, <1>c, <1>d, <2>3, <3>1 DEF Without
    <3>2. CASE mr' = mr
      BY <1>a, <1>c, <2>3, <3>2
    <3>3. CASE pc[c] = "report" /\ mr'[c].seen = mem[c].seen /\ mr'[c].ext = mr[c].ext
      <4>1. mem[c].ext = mr[c].ext
        BY <1>a, <3>3 DEF CopyAgrees
      <4>. QED BY <1>c, <3>3, <4>1
    <3>. QED BY <1>7, <3>1, <3>2, <3>3, EndsIs
  <2>. QED BY <2>1, <2>2, <2>3 DEF SeenOn
<1>. QED BY <1>1, <1>2, <1>3, <1>4, <1>5, <1>6, <1>7, WorkerIs DEF Observes

LEMMA StepSeen ==
    ASSUME ReliableShow
    PROVE  TypeOK /\ CopiesInv /\ IdsInv /\ SeenInv /\ [Next]_vars => SeenInv'
<1>. SUFFICES ASSUME TypeOK, CopiesInv, IdsInv, SeenInv, [Next]_vars, NEW c \in MRs
              PROVE  SeenOn(c)'
  BY DEF SeenInv
<1>a. IdsStay
  BY CondsStep
<1>1. CASE Worker(c)
  BY <1>1, <1>a, WorkerSeen
<1>2. ASSUME NEW d \in MRs, d # c, Worker(d) PROVE SeenOn(c)'
  BY <1>2, <1>a, OthersKept, SeenKept
<1>3. ASSUME NEW d \in MRs, EditSpec(d) PROVE SeenOn(c)'
  <2>1. mr'[c].ext = mr[c].ext /\ mr'[c].seen = mr[c].seen /\ UNCHANGED <<live, pc, mem, verdict, todo>>
    BY <1>3, EditSpecIs
  <2>. QED BY <1>a, <2>1, SeenKept
<1>4. ASSUME NEW d \in MRs, DeleteMR(d) PROVE SeenOn(c)'
  <2>1. /\ mr'[c].ext = mr[c].ext /\ mr'[c].seen = mr[c].seen /\ UNCHANGED <<pc, mem, verdict, todo>>
        /\ live' \subseteq live
    BY <1>4, DeleteMRIs
  <2>. QED BY <1>a, <2>1, SeenKept
<1>5. ASSUME NEW n \in GateNames, AdminDoes(n) PROVE SeenOn(c)'
  BY <1>5, <1>a, AdminIs, SeenKept DEF apiVars, workerVars
<1>6. CASE Restart
  <2>1. pc'[c] = "idle" /\ mem'[c] = NoObject /\ UNCHANGED <<conds, live, mr>>
    BY <1>6, RestartIs DEF sonarVars, apiVars
  <2>2. On(conds', mem'[c].ext, mem'[c].seen)
    BY <2>1 DEF NoObject, On, IdsOf
  <2>. QED BY <2>1, <2>2 DEF SeenInv, SeenOn, Without
<1>7. CASE UNCHANGED vars
  BY <1>7, <1>a, SeenKept DEF vars, apiVars, workerVars
<1>. QED BY <1>1, <1>2, <1>3, <1>4, <1>5, <1>6, <1>7 DEF Next, Users, AdminDoes

LEMMA InitSeen == Init => IdsInv /\ SeenInv
<1>. SUFFICES ASSUME Init PROVE IdsInv /\ SeenInv
  OBVIOUS
<1>1. /\ conds = [n \in GateNames |-> {}]
      /\ \A c \in MRs : pc[c] = "idle"
  BY DEF Init
<1>. QED BY <1>1 DEF IdsInv, SeenInv, SeenOn, On, Gone, Without

LEMMA SyncStep ==
    ASSUME TypeOK, SeenInv, [Next]_vars, NEW c \in MRs, pc[c] = "sync", Steps(c),
           NEW n \in GateNames \ {mem[c].ext}
    PROVE  conds'[n] = conds[n]
<1>1. CASE Worker(c)
  <2>a. CASE UNCHANGED sonarVars
    BY <2>a DEF sonarVars
  <2>b. CallsSonar(c) \/ UNCHANGED sonarVars
    BY <1>1, WorkerIs, MakesIs, ObserveAbsentIs, ObservePresentIs DEF Observes
  <2>c. /\ On(conds, mem[c].ext, mem[c].seen)
        /\ todo[c].del \subseteq mem[c].seen
        /\ \A a \in todo[c].upd : a.obs \in mem[c].seen
    BY DEF SeenInv, SeenOn
  \* An id of the plan is not on another gate.
  <2>d. \A x \in conds[n] : x.id \notin IdsOf(mem[c].seen)
    BY <2>c DEF On
  <2>1. CASE DeleteCondition(c)
    <3>1. CASE conds' # conds
      <4>1. PICK o \in todo[c].del : conds' = [m \in GateNames |-> {x \in conds[m] : x.id # o.id}]
        BY <2>1, <3>1 DEF DeleteCondition
      <4>2. \A x \in conds[n] : x.id # o.id
        BY <2>c, <2>d DEF IdsOf
      <4>. QED BY <4>1, <4>2
    <3>. QED BY <3>1
  <2>2. CASE CreateCondition(c)
    BY <2>2 DEF CreateCondition, TypeOK
  <2>3. CASE UpdateCondition(c)
    <3>1. CASE conds' # conds
      <4>1. PICK a \in todo[c].upd : conds' = [m \in GateNames |->
                {IF x.id = a.obs.id THEN Held(a.spec, x.id) ELSE x : x \in conds[m]}]
        BY <2>3, <3>1 DEF UpdateCondition
      <4>2. \A x \in conds[n] : x.id # a.obs.id
        BY <2>c, <2>d DEF IdsOf
      <4>3. conds'[n] = {IF x.id = a.obs.id THEN Held(a.spec, x.id) ELSE x : x \in conds[n]}
        BY <4>1
      <4>. QED BY <4>2, <4>3
    <3>. QED BY <3>1
  <2>. QED BY <2>a, <2>b, <2>1, <2>2, <2>3 DEF CallsSonar, CreateFails, CreateSetAsDefault,
              UpdateStart, Destroy, sonarVars
<1>2. ASSUME NEW d \in MRs, d # c, Worker(d) \/ EditSpec(d) \/ DeleteMR(d) PROVE FALSE
  BY <1>2, OthersKept, EditSpecIs, DeleteMRIs DEF Steps
<1>3. CASE EditSpec(c) \/ DeleteMR(c)
  BY <1>3, EditSpecIs, DeleteMRIs DEF Steps
<1>4. ASSUME NEW m \in GateNames, AdminDoes(m) PROVE FALSE
  BY <1>4, AdminIs DEF workerVars, Steps
<1>5. CASE Restart
  BY <1>5, RestartIs DEF sonarVars
<1>6. CASE UNCHANGED vars
  BY <1>6 DEF vars, sonarVars
<1>. QED BY <1>1, <1>2, <1>3, <1>4, <1>5, <1>6 DEF Next, Users, AdminDoes

\* The condition calls of a worker reach no gate but the one its MR names,
\* whatever else fails and whatever is changed by hand, as long as Show fails
\* only for gates that are not there.
THEOREM OwnConditionsOnly ==
    ASSUME ReliableShow
    PROVE  Spec => OnlyOwnConditions
<1>1. TypeOK /\ SeenInv /\ [Next]_vars =>
          [\A c \in MRs : pc[c] = "sync" /\ Steps(c) =>
              \A n \in GateNames \ {mem[c].ext} : conds'[n] = conds[n]]_vars
  BY SyncStep
<1>2. TypeOK /\ IdsInv /\ [Next]_vars => IdsInv'
  BY CondsStep
<1>3. Spec => []IdsInv
  BY <1>2, InitSeen, TypeCorrect, PTL DEF Spec
<1>4. Spec => []SeenInv
  BY <1>3, InitSeen, StepSeen, TypeCorrect, CopiesInvariant, PTL DEF Spec
<1>. QED BY <1>1, <1>4, TypeCorrect, PTL DEF Spec, OnlyOwnConditions

----------------------------------------------------------------------------
(* What a condition does for the desired state.                             *)

\* Only Observe's worker sets the finalizer, and before it is set nothing was
\* ever reported: the write that sets it decodes no conditions.
FinalOK(c) ==
    /\ ~mr[c].final => mr[c].seen = {}
    /\ mr[c].deleting => mr[c].final
    /\ pc[c] # "idle" =>
          /\ mem[c].final = mr[c].final
          /\ mem[c].deleting => mem[c].final
    /\ pc[c] = "finalize" => ~mem[c].final
    /\ pc[c] \notin {"idle", "observe", "finalize", "unfinalize"} => mem[c].final

FinalInv == \A c \in MRs : FinalOK(c)

\* The desired conditions that ask for one seen have ids of conditions seen.
Linked(object) ==
    \A j \in DOMAIN object.conds, o \in object.seen :
        Asks(object.conds[j], o) => object.conds[j].id \in IdsOf(object.seen)

\* The calls planned: none deletes what the list names, every update is of the
\* condition the list names.
PlanOK(c) ==
    /\ \A o \in todo[c].del :
          o \in mem[c].seen /\ \A j \in DOMAIN mem[c].conds : mem[c].conds[j].id # o.id
    /\ \A a \in todo[c].upd :
          /\ a.obs \in mem[c].seen
          /\ \E j \in DOMAIN mem[c].conds : a.spec = mem[c].conds[j] /\ a.spec.id = a.obs.id

\* The worker found its gate; if it late initialised nothing, it holds the list
\* and the status as they were compared.
Looked(c) ==
    \/ pc[c] \in {"persist", "update", "sync"}
    \/ pc[c] = "finalize" /\ verdict[c].exists

LinkedOK(c) ==
    /\ DistinctIds(mr[c].seen) /\ DistinctIds(mem[c].seen)
    /\ pc[c] = "persist" => verdict[c].late
    /\ Looked(c) => mem[c].ext \in GateNames /\ (verdict[c].late \/ Linked(mem[c]))
    /\ pc[c] = "sync" => PlanOK(c)

LinkedInv == \A c \in MRs : LinkedOK(c)

LEMMA LateInitAt ==
    ASSUME NEW list \in Seq(Params), NEW obs \in SUBSET Observation
    PROVE  LET new == LateInitConditions(list, obs)
           IN  /\ DOMAIN new = DOMAIN list
               /\ \A j \in DOMAIN list :
                     /\ new[j].metric = list[j].metric
                     /\ \/ new[j].id = list[j].id
                        \/ \E o \in obs : new[j].id = o.id /\ o.metric = list[j].metric
                     /\ \A o \in obs : Asks(new[j], o) => new[j].id \in IdsOf(obs)
<1>. DEFINE new == LateInitConditions(list, obs)
<1>1. DOMAIN new = DOMAIN list /\ \A j \in DOMAIN list : new[j] = LateInitCondition(list[j], obs)
  BY DEF LateInitConditions
<1>2. ASSUME NEW j \in DOMAIN list
      PROVE  /\ new[j].metric = list[j].metric
             /\ new[j].id = list[j].id \/ \E o \in Matching(list[j], obs) : new[j].id = o.id
             /\ new[j].id \in IdsOf(obs) \/ Matching(new[j], obs) = {}
  BY <1>1, LateInitConditionIs
<1>. HIDE DEF new
<1>3. ASSUME NEW j \in DOMAIN list, NEW o \in obs, Asks(new[j], o)
      PROVE  new[j].id \in IdsOf(obs)
  BY <1>2, <1>3 DEF Matching, Asks, PtrEq
<1>4. ASSUME NEW j \in DOMAIN list
      PROVE  \/ new[j].id = list[j].id
             \/ \E o \in obs : new[j].id = o.id /\ o.metric = list[j].metric
  BY <1>2 DEF Matching
<1>. QED BY <1>1, <1>2, <1>3, <1>4 DEF new

\* The plan, of what is in the copy.
LEMMA PlanIs ==
    ASSUME NEW object \in Object, DistinctIds(object.seen)
    PROVE  /\ \A o \in Plan(object).del :
                 o \in object.seen /\ \A j \in DOMAIN object.conds : object.conds[j].id # o.id
           /\ \A a \in Plan(object).upd :
                 /\ a.obs \in object.seen
                 /\ \E j \in DOMAIN object.conds :
                       a.spec = object.conds[j] /\ a.spec.id = a.obs.id
<1>0. object.conds \in Seq(Params) /\ object.seen \in SUBSET Observation
  BY DEF Object
<1>1. Plan(object).del = {o \in object.seen : \A j \in DOMAIN object.conds : object.conds[j].id # o.id}
  BY <1>0, FindMissingIs DEF Plan
<1>2. \A a \in Plan(object).upd :
          a \in Associations(object.conds, object.seen) /\ a.spec # Nil /\ a.obs # Nil
  BY DEF Plan, FindNotUpToDate
<1>3. \A a \in Plan(object).upd :
          /\ a.obs \in object.seen
          /\ \E j \in DOMAIN object.conds : a.spec = object.conds[j] /\ object.conds[j].id = a.obs.id
  BY <1>0, <1>2, PairsAre
<1>. QED BY <1>1, <1>3

\* What Observe says of late initialisation is what it did to the ids.
LEMMA ObservedLinked ==
    ASSUME TypeOK, NEW c \in MRs, ObservePresent(c)
    PROVE  /\ pc'[c] = "persist" => verdict'[c].late
           /\ Linked(mem[c])'
<1>. DEFINE ext == mem[c].ext
            new == LateInitConditions(mem[c].conds, conds[ext])
<1>1. /\ ext \in GateNames /\ conds[ext] \in SUBSET Observation
      /\ mem[c].conds \in Seq(Params)
  BY ObservePresentIs DEF TypeOK, Object
<1>2. mem'[c].seen = conds[ext] /\ mem'[c].conds = new
  BY ObservePresentIs
<1>3. \A j \in DOMAIN new : \A o \in conds[ext] : Asks(new[j], o) => new[j].id \in IdsOf(conds[ext])
  BY <1>1, LateInitAt
<1>. HIDE DEF new
<1>4. pc'[c] = "persist" => verdict'[c].late
  BY DEF ObservePresent, ObserveReturns, AfterObserve, Goto, TypeOK
<1>. QED BY <1>2, <1>3, <1>4 DEF Linked

LEMMA WorkerFinal ==
    ASSUME TypeOK, FinalInv, CopiesInv, NEW c \in MRs, Worker(c)
    PROVE  FinalOK(c)'
<1>a. FinalOK(c) /\ (pc[c] # "idle" => CopyAgrees(c))
  BY DEF FinalInv, CopiesInv
<1>. USE DEF FinalOK
<1>b. mr[c] \in Object /\ mem[c] \in Object /\ mr'[c] \in Object /\ mem'[c] \in Object
  BY WorkerType DEF TypeOK
<1>c. \A o \in {mr[c], mem[c], mr'[c], mem'[c]} : o.final \in BOOLEAN /\ o.deleting \in BOOLEAN
  BY <1>b DEF Object
<1>1. CASE Reconcile(c)
  BY <1>1, <1>a, ReconcileIs
<1>2. CASE ObserveAbsent(c)
  <2>1. pc'[c] = "finalize" => ~mem[c].final
    BY <1>2 DEF ObserveAbsent, ObserveReturns, AfterObserve, Absent, Goto, TypeOK
  <2>. QED BY <1>2, <1>a, <2>1, ObserveAbsentIs DEF apiVars
<1>3. CASE ObservePresent(c)
  <2>1. pc'[c] = "finalize" => ~mem[c].final
    BY <1>3 DEF ObservePresent, ObserveReturns, AfterObserve, Goto, TypeOK
  <2>. QED BY <1>3, <1>a, <2>1, ObservePresentIs DEF apiVars
<1>4. CASE Writes(c)
  <2>1. /\ mr'[c].final <=> mem[c].final \/ pc[c] = "finalize"
        /\ mem'[c].final <=> mem[c].final \/ pc[c] = "finalize"
        /\ mr'[c].deleting = mem[c].deleting /\ mem'[c].deleting = mem[c].deleting
        /\ mr'[c].seen = mr[c].seen
        /\ pc[c] \in {"finalize", "pending", "persist"}
        /\ pc'[c] \in {"pending", "persist", "update", "report", "create"}
    BY <1>4, WritesIs
  <2>. QED BY <1>a, <1>c, <2>1
<1>5. CASE Makes(c)
  BY <1>5, <1>a, MakesIs DEF apiVars
<1>6. CASE CallsSonar(c)
  BY <1>6, <1>a, CallsIs DEF apiVars
<1>7. CASE Ends(c)
  BY <1>7, <1>a, EndsIs
<1>. QED BY <1>1, <1>2, <1>3, <1>4, <1>5, <1>6, <1>7, WorkerIs DEF Observes

\* At the start nothing was reported, and no worker is at work.
LEMMA InitStatus ==
    ASSUME Init
    PROVE  \A c \in MRs : /\ mr[c].seen = {} /\ ~mr[c].deleting
                          /\ pc[c] = "idle" /\ mem[c].seen = {}
<1>1. PICK want, ext :
          /\ \A c \in MRs : want[c] \in Wants[c]
          /\ mr = [c \in MRs |-> [NoObject EXCEPT !.ext = ext[c],
                       !.default = want[c].default, !.conds = want[c].conds]]
  BY DEF Init
<1>2. \A c \in MRs : pc[c] = "idle" /\ mem[c] = NoObject
  BY DEF Init
<1>3. \A c \in MRs : mr[c].seen = {} /\ ~mr[c].deleting
  BY <1>1 DEF NoObject
<1>4. \A c \in MRs : mem[c].seen = {}
  BY <1>2 DEF NoObject
<1>. QED BY <1>2, <1>3, <1>4

LEMMA FinalInvariant == Spec => []FinalInv
<1>1. ASSUME Init, NEW c \in MRs PROVE FinalOK(c)
  BY <1>1, InitStatus DEF FinalOK
<1>2. ASSUME TypeOK, CopiesInv, FinalInv, [Next]_vars, NEW c \in MRs PROVE FinalOK(c)'
  <2>a. FinalOK(c)
    BY <1>2 DEF FinalInv
  <2>1. CASE Worker(c)
    BY <1>2, <2>1, WorkerFinal
  <2>2. ASSUME NEW d \in MRs, d # c, Worker(d) PROVE FinalOK(c)'
    BY <1>2, <2>2, <2>a, OthersKept DEF FinalOK
  <2>3. ASSUME NEW d \in MRs, EditSpec(d) PROVE FinalOK(c)'
    <3>1. /\ mr'[c].final = mr[c].final /\ mr'[c].seen = mr[c].seen
          /\ mr'[c].deleting = mr[c].deleting /\ UNCHANGED <<pc, mem>>
      BY <1>2, <2>3, EditSpecIs
    <3>. QED BY <2>a, <3>1 DEF FinalOK
  <2>4. ASSUME NEW d \in MRs, DeleteMR(d) PROVE FinalOK(c)'
    <3>1. /\ mr'[c].final = mr[c].final /\ mr'[c].seen = mr[c].seen /\ UNCHANGED <<pc, mem>>
      BY <1>2, <2>4, DeleteMRIs
    <3>2. mr'[c].deleting => mr[c].deleting \/ mr[c].final
      BY <1>2, <2>4 DEF DeleteMR, TypeOK
    <3>. QED BY <2>a, <3>1, <3>2 DEF FinalOK
  <2>5. ASSUME NEW n \in GateNames, AdminDoes(n) PROVE FinalOK(c)'
    BY <2>5, <2>a, AdminIs DEF apiVars, workerVars, FinalOK
  <2>6. CASE Restart
    BY <2>6, <2>a, RestartIs DEF apiVars, FinalOK
  <2>7. CASE UNCHANGED vars
    BY <2>7, <2>a DEF vars, apiVars, workerVars, FinalOK
  <2>. QED BY <1>2, <2>1, <2>2, <2>3, <2>4, <2>5, <2>6, <2>7 DEF Next, Users, AdminDoes
<1>3. Init => FinalInv
  BY <1>1 DEF FinalInv
<1>4. TypeOK /\ CopiesInv /\ FinalInv /\ [Next]_vars => FinalInv'
  BY <1>2 DEF FinalInv
<1>. QED BY <1>3, <1>4, TypeCorrect, CopiesInvariant, PTL DEF Spec

LEMMA WorkerLinked ==
    ASSUME TypeOK, IdsInv, FinalInv, LinkedInv, NEW c \in MRs, Worker(c)
    PROVE  LinkedOK(c)'
<1>a. LinkedOK(c) /\ FinalOK(c) /\ mem[c] \in Object /\ verdict[c] \in Verdict
  BY DEF LinkedInv, FinalInv, TypeOK
<1>b. DistinctIds(NoObject.seen)
  BY DEF NoObject, DistinctIds
<1>1. CASE Reconcile(c)
  BY <1>1, <1>a, ReconcileIs DEF LinkedOK, Looked
<1>2. CASE ObserveAbsent(c)
  BY <1>2, <1>a, ObserveAbsentIs DEF LinkedOK, Looked, apiVars
<1>3. CASE ObservePresent(c)
  <2>1. DistinctIds(conds[mem[c].ext])
    BY <1>3, <1>a, ObservePresentIs DEF IdsInv, DistinctIds, TypeOK
  <2>2. (pc'[c] = "persist" => verdict'[c].late) /\ Linked(mem[c])'
    BY <1>3, ObservedLinked
  <2>3. pc'[c] # "sync" /\ mem'[c].ext = mem[c].ext /\ mem[c].ext \in GateNames /\ mr' = mr
        /\ mem'[c].seen = conds[mem[c].ext]
    BY <1>3, ObservePresentIs DEF TypeOK, apiVars
  <2>. QED BY <1>a, <2>1, <2>2, <2>3 DEF LinkedOK
<1>4. CASE Writes(c)
  <2>1. DistinctIds(mr'[c].seen) /\ DistinctIds(mem'[c].seen)
    BY <1>4, <1>a, WritesIs DEF LinkedOK
  <2>2. pc'[c] = "persist" => verdict'[c].late
    BY <1>4 DEF Writes, AddFinalizer, AnnounceCreate, PersistLateInit, AfterObserve, Goto, TypeOK
  <2>3. ASSUME ~verdict'[c].late, pc'[c] = "update" PROVE Linked(mem[c])'
    <3>1. pc[c] = "finalize" /\ verdict[c].exists /\ verdict' = verdict
      BY <1>4, <1>a, <2>3, WritesIs DEF LinkedOK
    <3>2. Linked(mem[c])
      BY <1>a, <2>3, <3>1 DEF LinkedOK, Looked
    <3>3. mem'[c].conds = mem[c].conds /\ mem'[c].seen = mem[c].seen
      BY <1>4, <1>a, <3>1, WritesIs DEF FinalOK
    <3>. QED BY <3>2, <3>3 DEF Linked
  <2>4. pc'[c] \notin {"sync", "finalize"}
    BY <1>4, WritesIs
  <2>5. pc'[c] \in {"persist", "update"} => Looked(c) /\ mem'[c].ext = mem[c].ext
    BY <1>4, WritesIs DEF Looked
  <2>. QED BY <1>a, <2>1, <2>2, <2>3, <2>4, <2>5 DEF LinkedOK, Looked
<1>5. CASE Makes(c)
  BY <1>5, <1>a, MakesIs DEF LinkedOK, Looked, apiVars
<1>6. CASE CallsSonar(c)
  <2>1. UNCHANGED <<apiVars, mem, verdict>> /\ (pc'[c] = "sync" => pc[c] \in {"update", "sync"})
        /\ pc'[c] \notin {"persist", "update", "finalize"}
    BY <1>6, CallsIs
  <2>2. ASSUME pc'[c] = "sync" PROVE PlanOK(c)'
    <3>1. CASE todo'[c] = Plan(mem[c])
      BY <1>a, <2>1, <3>1, PlanIs DEF LinkedOK, PlanOK
    <3>2. CASE pc[c] = "sync" /\ todo'[c].del \subseteq todo[c].del /\ todo'[c].upd \subseteq todo[c].upd
      BY <1>a, <2>1, <3>2 DEF LinkedOK, PlanOK
    <3>. QED BY <1>6, <2>2, <3>1, <3>2, TodoIs
  <2>. QED BY <1>a, <2>1, <2>2 DEF LinkedOK, Looked, Linked, apiVars
<1>7. CASE Ends(c)
  <2>1. pc'[c] = "idle" /\ mem'[c] = NoObject /\ mr'[c].seen \in {mr[c].seen, mem[c].seen}
    BY <1>7, EndsIs
  <2>. QED BY <1>a, <1>b, <2>1 DEF LinkedOK, Looked
<1>. QED BY <1>1, <1>2, <1>3, <1>4, <1>5, <1>6, <1>7, WorkerIs DEF Observes

LEMMA StepLinked == TypeOK /\ IdsInv /\ FinalInv /\ LinkedInv /\ [Next]_vars => LinkedInv'
<1>. SUFFICES ASSUME TypeOK, IdsInv, FinalInv, LinkedInv, [Next]_vars, NEW c \in MRs
              PROVE  LinkedOK(c)'
  BY DEF LinkedInv
<1>a. LinkedOK(c)
  BY DEF LinkedInv
\* What leaves the worker and the status of c alone.
<1>0. ASSUME mr'[c].seen = mr[c].seen, mem'[c] = mem[c], pc'[c] = pc[c],
             verdict'[c] = verdict[c], todo'[c] = todo[c]
      PROVE  LinkedOK(c)'
  BY <1>0, <1>a DEF LinkedOK, Looked, Linked, PlanOK
<1>1. CASE Worker(c)
  BY <1>1, WorkerLinked
<1>2. ASSUME NEW d \in MRs, d # c, Worker(d) PROVE LinkedOK(c)'
  BY <1>0, <1>2, OthersKept
<1>3. ASSUME NEW d \in MRs, EditSpec(d) \/ DeleteMR(d) PROVE LinkedOK(c)'
  <2>1. mr'[c].seen = mr[c].seen /\ UNCHANGED <<pc, mem, verdict, todo>>
    BY <1>3, EditSpecIs, DeleteMRIs
  <2>. QED BY <1>0, <2>1
<1>4. ASSUME NEW n \in GateNames, AdminDoes(n) PROVE LinkedOK(c)'
  BY <1>0, <1>4, AdminIs DEF apiVars, workerVars
<1>5. CASE Restart
  <2>1. pc'[c] = "idle" /\ mem'[c] = NoObject /\ mr' = mr
    BY <1>5, RestartIs DEF apiVars
  <2>. QED BY <1>a, <2>1 DEF LinkedOK, Looked, NoObject, DistinctIds
<1>6. CASE UNCHANGED vars
  BY <1>0, <1>6 DEF vars, apiVars, workerVars
<1>. QED BY <1>1, <1>2, <1>3, <1>4, <1>5, <1>6 DEF Next, Users, AdminDoes

LEMMA InitLinked == Init => LinkedInv
BY InitStatus DEF LinkedInv, LinkedOK, Looked, DistinctIds

\* A condition call of c spares what the list of c asks for.
LEMMA WantedStep ==
    ASSUME TypeOK, LinkedInv, [Next]_vars, NEW c \in MRs, pc[c] = "sync", Steps(c),
           ~verdict[c].late, Unambiguous(mem[c]), NEW i \in DOMAIN mem[c].conds,
           NEW o \in mem[c].seen \cap (conds[mem[c].ext] \ conds'[mem[c].ext]),
           Asks(mem[c].conds[i], o)
    PROVE  \E x \in conds'[mem[c].ext] : x.id = o.id /\ Asks(mem[c].conds[i], x)
<1>. DEFINE ext == mem[c].ext
            list == mem[c].conds
<1>a. ext \in GateNames /\ PlanOK(c)
  BY DEF LinkedInv, LinkedOK, Looked
\* The list names the condition it asks for.
<1>b. list[i].id = o.id
  <2>1. PICK x \in mem[c].seen : x.id = list[i].id
    BY DEF LinkedInv, LinkedOK, Looked, Linked, IdsOf
  <2>2. x.metric = o.metric
    BY <2>1 DEF Unambiguous, MetricsKept, Asks
  <2>. QED BY <2>1, <2>2 DEF Unambiguous, OnePerMetric
<1>1. CASE Worker(c)
  <2>0. CallsSonar(c)
    BY <1>1, <1>a, WorkerIs, MakesIs, ObserveAbsentIs, ObservePresentIs DEF Observes, sonarVars
  <2>1. CASE DeleteCondition(c)
    <3>1. PICK d \in todo[c].del : conds' = [n \in GateNames |-> {x \in conds[n] : x.id # d.id}]
      BY <2>1 DEF DeleteCondition
    <3>2. o.id = d.id
      BY <1>a, <3>1
    <3>. QED BY <1>a, <1>b, <3>1, <3>2 DEF PlanOK
  <2>2. CASE CreateCondition(c)
    BY <1>a, <2>2 DEF CreateCondition, TypeOK
  <2>3. CASE UpdateCondition(c)
    <3>1. PICK a \in todo[c].upd : conds' = [n \in GateNames |->
              {IF x.id = a.obs.id THEN Held(a.spec, x.id) ELSE x : x \in conds[n]}]
      BY <2>3 DEF UpdateCondition
    <3>2. (IF o.id = a.obs.id THEN Held(a.spec, o.id) ELSE o) \in conds'[ext]
      BY <1>a, <3>1
    <3>3. o.id = a.obs.id /\ Held(a.spec, o.id) \in conds'[ext]
      BY <3>2
    <3>4. PICK k \in DOMAIN list : a.spec = list[k] /\ a.spec.id = a.obs.id
      BY <1>a, <3>1 DEF PlanOK
    <3>5. list[k].metric = o.metric
      BY <3>3, <3>4 DEF Unambiguous, MetricsKept
    <3>6. k = i
      BY <3>5 DEF Asks, Unambiguous, DistinctMetrics
    <3>7. Asks(list[i], Held(a.spec, o.id)) /\ Held(a.spec, o.id).id = o.id
      BY <3>4, <3>6 DEF Asks, Held
    <3>. QED BY <3>3, <3>7
  <2>. QED BY <2>0, <2>1, <2>2, <2>3 DEF CallsSonar, CreateFails, CreateSetAsDefault,
              UpdateStart, Destroy, sonarVars
<1>2. ASSUME NEW d \in MRs, d # c, Worker(d) \/ EditSpec(d) \/ DeleteMR(d) PROVE FALSE
  BY <1>2, OthersKept, EditSpecIs, DeleteMRIs DEF Steps
<1>3. CASE EditSpec(c) \/ DeleteMR(c)
  BY <1>3, EditSpecIs, DeleteMRIs DEF Steps
<1>4. ASSUME NEW m \in GateNames, AdminDoes(m) PROVE FALSE
  BY <1>4, AdminIs DEF workerVars, Steps
<1>5. CASE Restart
  BY <1>5, RestartIs DEF sonarVars
<1>6. CASE UNCHANGED vars
  BY <1>6 DEF vars, sonarVars
<1>. QED BY <1>1, <1>2, <1>3, <1>4, <1>5, <1>6 DEF Next, Users, AdminDoes

\* A reconcile that late initialised nothing neither deletes nor turns into
\* something else a condition it saw and its list asks for, whatever failed, was
\* changed by hand or was edited before, and whatever ids stand in the list.
THEOREM WantedConditionsAreKept == Spec => WantedConditionsSurvive
<1>1. TypeOK /\ LinkedInv /\ [Next]_vars =>
          [\A c \in MRs : pc[c] = "sync" /\ Steps(c) /\ ~verdict[c].late /\ Unambiguous(mem[c]) =>
              \A i \in DOMAIN mem[c].conds,
                 o \in mem[c].seen \cap (conds[mem[c].ext] \ conds'[mem[c].ext]) :
                  Asks(mem[c].conds[i], o) =>
                      \E x \in conds'[mem[c].ext] : x.id = o.id /\ Asks(mem[c].conds[i], x)]_vars
  BY WantedStep
<1>2. TypeOK /\ IdsInv /\ [Next]_vars => IdsInv'
  BY CondsStep
<1>3. Spec => []IdsInv
  BY <1>2, InitSeen, TypeCorrect, PTL DEF Spec
<1>4. Spec => []LinkedInv
  BY <1>3, InitLinked, StepLinked, TypeCorrect, FinalInvariant, PTL DEF Spec
<1>. QED BY <1>1, <1>4, TypeCorrect, PTL DEF Spec, WantedConditionsSurvive
============================================================================
