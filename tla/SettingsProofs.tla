---------------------------- MODULE SettingsProofs ----------------------------
(***************************************************************************)
(* Theorems about the Settings controller, for every set of resources,      *)
(* keys and values, every default and every bound.                          *)
(***************************************************************************)
EXTENDS Settings, TLAPS

----------------------------------------------------------------------------
(* Maps of keys, and what the client package makes of them.                 *)

LEMMA PartialMapIs ==
    ASSUME NEW S, NEW f
    PROVE  f \in PartialMaps(S) <=> DOMAIN f \subseteq Keys /\ f \in [DOMAIN f -> S]
BY DEF PartialMaps

LEMMA NothingIs ==
    ASSUME NEW S
    PROVE  Nothing \in PartialMaps(S) /\ DOMAIN Nothing = {}
BY PartialMapIs DEF Nothing

\* What the Values call yields is shown for the keys asked for and no other.
LEMMA ObservationType ==
    ASSUME TypeOK, NEW keys \in SUBSET Keys
    PROVE  Observation(keys) \in PartialMaps(Held) /\ DOMAIN Observation(keys) \subseteq keys
<1>1. \A k \in Keys : Shown(k) \in Held \cup {Nil}
  BY SettingsAssumption DEF TypeOK, Shown
<1>2. DOMAIN Observation(keys) = {k \in keys : Shown(k) # Nil}
  BY DEF Observation
<1>3. Observation(keys) \in [DOMAIN Observation(keys) -> Held]
  BY <1>1, <1>2 DEF Observation
<1>. QED BY <1>2, <1>3, PartialMapIs

\* A Set call leaves a setting as SonarQube holds settings.
LEMMA SetOptionsType ==
    ASSUME NEW p \in Params
    PROVE  SetOptions(p) \in Held
BY SettingsAssumption DEF SetOptions, Sent, Params, Held

LEMMA DeletingType ==
    ASSUME NEW o \in Object
    PROVE  [o EXCEPT !.deleting = TRUE] \in Object
BY DEF Object

\* What was never stored is decoded over nothing.
LEMMA DecodedOverIs ==
    ASSUME NEW seen \in PartialMaps(Held), NEW stored \in PartialMaps(Held)
    PROVE  /\ DecodedOver(seen, stored) \in PartialMaps(Held)
           /\ stored = Nothing => DecodedOver(seen, stored) = seen
<1>. DEFINE over == DecodedOver(seen, stored)
<1>1. /\ DOMAIN seen \subseteq Keys /\ \A k \in DOMAIN seen : seen[k] \in Held
      /\ DOMAIN stored \subseteq Keys /\ \A k \in DOMAIN stored : stored[k] \in Held
      /\ seen \in [DOMAIN seen -> Held]
  BY PartialMapIs
<1>2. DOMAIN over \subseteq Keys /\ over \in [DOMAIN over -> Held]
  BY <1>1 DEF DecodedOver
<1>3. ASSUME stored = Nothing PROVE over = seen
  <2>1. DOMAIN stored = {}
    BY <1>3, NothingIs
  <2>. QED BY <1>1, <2>1 DEF DecodedOver
<1>. QED BY <1>2, <1>3, PartialMapIs

LEMMA NoObjectType == NoObject \in Object
BY NothingIs DEF NoObject, Object

----------------------------------------------------------------------------
(* The inductive invariant.                                                 *)

\* The status a worker goes by holds no key its map does not have.  It would,
\* could a worker act on a status read under an older map: AddFinalizer does
\* decode the stored status over the one read, but only a resource that has its
\* finalizer has ever stored one, and Update sets what the desired map has.
WorkerInv(c) ==
    /\ ~mr[c].final => mr[c].seen = Nothing
    /\ pc[c] # "idle" => mem[c].final = mr[c].final
    /\ pc[c] \in {"observe", "report"} /\ ~mem[c].final => mem[c].seen = Nothing
    /\ pc[c] = "finalize" => ~mem[c].final
    /\ pc[c] \in {"update", "set", "reset"} => mem[c].final
    /\ pc[c] \in {"finalize", "update", "set", "reset"} =>
          Obsolete(mem[c].want, mem[c].seen) = {}
    /\ pc[c] = "set" => todo[c] \subseteq DOMAIN mem[c].want

SettingsInv == TypeOK /\ \A c \in MRs : WorkerInv(c)

----------------------------------------------------------------------------
(* Type correctness.                                                        *)

LEMMA InitType == Init => TypeOK
<1>. SUFFICES ASSUME Init PROVE TypeOK
  OBVIOUS
<1>1. PICK want \in [MRs -> UNION {Wants[c] : c \in MRs}] :
          /\ \A c \in MRs : want[c] \in Wants[c]
          /\ mr = [c \in MRs |-> [NoObject EXCEPT !.want = want[c]]]
  BY DEF Init
<1>2. \A c \in MRs : want[c] \in PartialMaps(Params)
  BY <1>1, SettingsAssumption
<1>3. \A c \in MRs : [NoObject EXCEPT !.want = want[c]] \in Object
  BY <1>2, NothingIs DEF NoObject, Object
<1>4. mr \in [MRs -> Object]
  BY <1>1, <1>3
<1>5. mem \in [MRs -> Object]
  BY NoObjectType DEF Init
<1>6. budget \in Budget
  BY SettingsAssumption DEF Init, Budget
<1>. QED BY <1>4, <1>5, <1>6 DEF Init, TypeOK, PCs

\* What a worker does to its own bookkeeping keeps the types.
LEMMA ForgetType ==
    ASSUME TypeOK, NEW c \in MRs, Forget(c)
    PROVE  /\ pc' \in [MRs -> PCs] /\ mem' \in [MRs -> Object]
           /\ stale' \in [MRs -> BOOLEAN] /\ todo' \in [MRs -> SUBSET Keys]
BY NoObjectType DEF TypeOK, Forget, Goto, PCs

LEMMA FaultType == TypeOK /\ Fault => budget' \in Budget
BY DEF TypeOK, Fault, Budget

LEMMA WorkerType ==
    ASSUME TypeOK, NEW c \in MRs, WorkerInv(c), Worker(c)
    PROVE  TypeOK'
<1>1. CASE Reconcile(c)
  BY <1>1 DEF Reconcile, Goto, TypeOK, PCs
<1>2. CASE ObserveDeleting(c)
  BY <1>2 DEF ObserveDeleting, Goto, TypeOK, PCs
<1>3. CASE Observe(c)
  <2>. DEFINE seen == Observation(DOMAIN mem[c].want)
              next == IF ~mem[c].final THEN "finalize"
                      ELSE IF AreSettingsUpToDate(mem[c].want, seen) THEN "report" ELSE "update"
  <2>1. mem[c] \in Object /\ DOMAIN mem[c].want \subseteq Keys
    BY PartialMapIs DEF TypeOK, Object
  <2>2. seen \in PartialMaps(Held)
    BY <2>1, ObservationType
  <2>3. mem' = [mem EXCEPT ![c].seen = seen] /\ pc' = [pc EXCEPT ![c] = next]
    BY <1>3 DEF Observe, Goto
  <2>4. next \in PCs
    BY DEF PCs
  <2>. HIDE DEF seen, next
  <2>5. mem' \in [MRs -> Object]
    BY <2>1, <2>2, <2>3 DEF TypeOK, Object
  <2>6. pc' \in [MRs -> PCs]
    BY <2>3, <2>4 DEF TypeOK
  <2>. QED BY <1>3, <2>5, <2>6 DEF Observe, TypeOK
<1>4. CASE ObserveFails(c)
  BY <1>4, FaultType DEF ObserveFails, Goto, TypeOK, PCs
<1>5. CASE AddFinalizer(c)
  <2>. DEFINE next == IF AreSettingsUpToDate(mem[c].want, mem[c].seen) THEN "report" ELSE "update"
              final == [mem[c] EXCEPT !.final = TRUE]
  <2>1. mem[c] \in Object /\ mr[c] \in Object
    BY DEF TypeOK
  <2>2. final \in Object /\ final.seen = mem[c].seen
    BY <2>1 DEF Object
  <2>3. mem' = [mem EXCEPT ![c] = [final EXCEPT !.seen = DecodedOver(mem[c].seen, mr[c].seen)]]
    BY <1>5, <2>2 DEF AddFinalizer
  <2>a. DecodedOver(mem[c].seen, mr[c].seen) \in PartialMaps(Held)
    BY <2>1, DecodedOverIs DEF Object
  <2>4. mr' = [mr EXCEPT ![c] = [final EXCEPT !.seen = mr[c].seen]] /\ pc' = [pc EXCEPT ![c] = next]
    BY <1>5 DEF AddFinalizer, Goto
  <2>5. next \in PCs
    BY DEF PCs
  <2>. HIDE DEF next, final
  <2>6. mem' \in [MRs -> Object] /\ mr' \in [MRs -> Object]
    BY <2>1, <2>2, <2>3, <2>a, <2>4 DEF TypeOK, Object
  <2>7. pc' \in [MRs -> PCs]
    BY <2>4, <2>5 DEF TypeOK
  <2>. QED BY <1>5, <2>6, <2>7 DEF AddFinalizer, TypeOK
<1>6. CASE UpdateStart(c)
  <2>1. OutOfDate(mem[c].want, mem[c].seen) \in SUBSET Keys
    BY PartialMapIs DEF OutOfDate, TypeOK, Object
  <2>. QED BY <1>6, <2>1 DEF UpdateStart, Goto, TypeOK, PCs
<1>7. CASE SetOne(c)
  <2>1. PICK k \in todo[c] :
            /\ todo' = [todo EXCEPT ![c] = @ \ {k}]
            /\ \/ /\ held' = [held EXCEPT ![k] = SetOptions(mem[c].want[k])]
                  /\ UNCHANGED budget
               \/ /\ IF Settable(mem[c].want[k]) THEN Fault ELSE UNCHANGED budget
                  /\ UNCHANGED held
    BY <1>7 DEF SetOne
  <2>2. k \in Keys /\ todo' \in [MRs -> SUBSET Keys]
    BY <2>1 DEF TypeOK
  <2>3. budget' \in Budget
    BY <2>1, FaultType DEF TypeOK
  <2>4. mem[c].want[k] \in Params
    <3>1. k \in DOMAIN mem[c].want
      BY <1>7, <2>1 DEF SetOne, WorkerInv
    <3>2. mem[c].want \in PartialMaps(Params)
      BY DEF TypeOK, Object
    <3>. QED BY <3>1, <3>2, PartialMapIs
  <2>5. SetOptions(mem[c].want[k]) \in Held
    BY <2>4, SetOptionsType
  <2>6. held' \in [Keys -> Held \cup {Nil}]
    BY <2>1, <2>2, <2>5 DEF TypeOK
  <2>. QED BY <1>7, <2>2, <2>3, <2>6 DEF SetOne, TypeOK
<1>8. CASE SetDone(c)
  BY <1>8 DEF SetDone, Goto, TypeOK, PCs
<1>9. CASE Reset(c)
  BY <1>9 DEF Reset, Goto, TypeOK, PCs
<1>10. CASE ReportStatus(c)
  BY <1>10, ForgetType DEF ReportStatus, TypeOK, Object
<1>11. CASE RemoveFinalizer(c)
  BY <1>11, ForgetType DEF RemoveFinalizer, TypeOK
<1>12. CASE Conflict(c)
  BY <1>12, ForgetType DEF Conflict, TypeOK
<1>. QED BY <1>1, <1>2, <1>3, <1>4, <1>5, <1>6, <1>7, <1>8, <1>9, <1>10, <1>11, <1>12
     DEF Worker

LEMMA EnvironmentType ==
    ASSUME TypeOK,
           \/ \E c \in MRs : EditSpec(c) \/ DeleteMR(c)
           \/ \E k \in Keys : AdminChange(k)
           \/ Crash
    PROVE  TypeOK'
<1>1. ASSUME NEW c \in MRs, EditSpec(c) PROVE TypeOK'
  <2>1. PICK want \in Wants[c] : mr' = [mr EXCEPT ![c].want = want]
    BY <1>1 DEF EditSpec
  <2>2. want \in PartialMaps(Params)
    BY SettingsAssumption
  <2>3. mr' \in [MRs -> Object]
    BY <2>1, <2>2 DEF TypeOK, Object
  <2>4. budget' \in Budget
    BY <1>1 DEF EditSpec, TypeOK, Budget
  <2>5. stale' \in [MRs -> BOOLEAN]
    BY <1>1 DEF EditSpec, Touched, TypeOK
  <2>. QED BY <1>1, <2>3, <2>4, <2>5 DEF EditSpec, TypeOK
<1>2. ASSUME NEW c \in MRs, DeleteMR(c) PROVE TypeOK'
  <2>1. stale' \in [MRs -> BOOLEAN]
    BY <1>2 DEF DeleteMR, Touched, TypeOK
  <2>2. mr' = [mr EXCEPT ![c].deleting = TRUE] \/ mr' = mr
    BY <1>2 DEF DeleteMR
  <2>3. live' \in SUBSET MRs
    BY <1>2 DEF DeleteMR, TypeOK
  <2>4. [mr[c] EXCEPT !.deleting = TRUE] \in Object
    BY <1>2, DeletingType DEF TypeOK
  <2>5. mr' \in [MRs -> Object]
    BY <2>2, <2>4 DEF TypeOK
  <2>. QED BY <1>2, <2>1, <2>3, <2>5 DEF DeleteMR, TypeOK
<1>3. ASSUME NEW k \in Keys, AdminChange(k) PROVE TypeOK'
  <2>1. \A s \in Scalars : [Zero EXCEPT !.value = s] \in Held
    BY DEF Zero, Held
  <2>2. held' \in [Keys -> Held \cup {Nil}]
    BY <1>3, <2>1 DEF AdminChange, TypeOK
  <2>3. budget' \in Budget
    BY <1>3 DEF AdminChange, TypeOK, Budget
  <2>. QED BY <1>3, <2>2, <2>3 DEF AdminChange, TypeOK
<1>4. CASE Crash
  <2>1. budget' \in Budget
    BY <1>4 DEF Crash, TypeOK, Budget
  <2>2. mem' \in [MRs -> Object]
    BY <1>4, NoObjectType DEF Crash
  <2>. QED BY <1>4, <2>1, <2>2 DEF Crash, TypeOK, PCs
<1>. QED BY <1>1, <1>2, <1>3, <1>4

----------------------------------------------------------------------------
(* The worker's invariant, step by step.                                    *)

LEMMA InitWorker == Init => \A c \in MRs : WorkerInv(c)
BY DEF Init, WorkerInv, NoObject

LEMMA ForgetsWorker ==
    ASSUME TypeOK, NEW c \in MRs, Forget(c), ~mr'[c].final => mr'[c].seen = Nothing
    PROVE  WorkerInv(c)'
BY DEF TypeOK, Forget, Goto, WorkerInv

LEMMA WorkerKeeps ==
    ASSUME TypeOK, NEW c \in MRs, WorkerInv(c), Worker(c)
    PROVE  WorkerInv(c)'
<1>0. mem[c] \in Object /\ mr[c] \in Object
  BY DEF TypeOK
<1>1. CASE Reconcile(c)
  BY <1>0, <1>1 DEF Reconcile, Goto, TypeOK, WorkerInv
<1>2. CASE ObserveDeleting(c)
  BY <1>2 DEF ObserveDeleting, Goto, TypeOK, WorkerInv
<1>3. CASE Observe(c)
  <2>. DEFINE seen == Observation(DOMAIN mem[c].want)
              next == IF ~mem[c].final THEN "finalize"
                      ELSE IF AreSettingsUpToDate(mem[c].want, seen) THEN "report" ELSE "update"
  <2>1. DOMAIN mem[c].want \subseteq Keys
    BY <1>0, PartialMapIs DEF Object
  <2>2. Obsolete(mem[c].want, seen) = {}
    BY <2>1, ObservationType DEF Obsolete
  <2>3. mem' = [mem EXCEPT ![c].seen = seen] /\ pc' = [pc EXCEPT ![c] = next] /\ pc[c] = "observe"
    BY <1>3 DEF Observe, Goto
  <2>4. /\ next \in {"finalize", "report", "update"}
        /\ next = "finalize" <=> ~mem[c].final
    OBVIOUS
  <2>. HIDE DEF seen, next
  <2>5. pc'[c] = next /\ mem'[c].seen = seen /\ mem'[c].want = mem[c].want /\ mem'[c].final = mem[c].final
    BY <1>0, <2>3 DEF TypeOK, Object
  <2>. QED BY <1>3, <2>2, <2>3, <2>4, <2>5 DEF Observe, WorkerInv
<1>4. CASE ObserveFails(c)
  BY <1>4 DEF ObserveFails, Goto, TypeOK, WorkerInv
<1>5. CASE AddFinalizer(c)
  <2>. DEFINE next == IF AreSettingsUpToDate(mem[c].want, mem[c].seen) THEN "report" ELSE "update"
              final == [mem[c] EXCEPT !.final = TRUE]
  <2>1. ~mr[c].final /\ mr[c].seen = Nothing
    BY <1>5 DEF AddFinalizer, WorkerInv
  <2>2. /\ final.seen = mem[c].seen /\ final.want = mem[c].want /\ final.final = TRUE
        /\ final \in Object
    BY <1>0 DEF Object
  <2>a. DecodedOver(mem[c].seen, mr[c].seen) = mem[c].seen
    BY <1>0, <2>1, DecodedOverIs DEF Object
  <2>3. mem' = [mem EXCEPT ![c] = [final EXCEPT !.seen = mem[c].seen]]
    BY <1>5, <2>2, <2>a DEF AddFinalizer
  <2>4. mr' = [mr EXCEPT ![c] = [final EXCEPT !.seen = mr[c].seen]] /\ pc' = [pc EXCEPT ![c] = next]
    BY <1>5 DEF AddFinalizer, Goto
  <2>5. next \in {"report", "update"}
    OBVIOUS
  <2>. HIDE DEF next, final
  <2>6. /\ pc'[c] = next /\ mr'[c].final /\ mem'[c].final
        /\ mem'[c].seen = mem[c].seen /\ mem'[c].want = mem[c].want
    BY <2>2, <2>3, <2>4 DEF TypeOK, Object
  <2>7. Obsolete(mem[c].want, mem[c].seen) = {}
    BY <1>5 DEF AddFinalizer, WorkerInv
  <2>. QED BY <2>5, <2>6, <2>7 DEF WorkerInv
<1>6. CASE UpdateStart(c)
  BY <1>6 DEF UpdateStart, OutOfDate, Goto, TypeOK, WorkerInv
<1>7. CASE SetOne(c)
  <2>1. todo'[c] \subseteq todo[c]
    BY <1>7 DEF SetOne, TypeOK
  <2>. QED BY <1>7, <2>1 DEF SetOne, WorkerInv
<1>8. CASE SetDone(c)
  BY <1>8 DEF SetDone, Goto, TypeOK, WorkerInv
<1>9. CASE Reset(c)
  <2>1. pc'[c] = "report" /\ UNCHANGED <<mr, mem>>
    BY <1>9 DEF Reset, Goto, TypeOK
  <2>. QED BY <1>9, <2>1 DEF Reset, WorkerInv
<1>10. CASE ReportStatus(c)
  <2>1. mr'[c].final = mr[c].final /\ mr'[c].seen = mem[c].seen
    BY <1>0, <1>10 DEF ReportStatus, TypeOK, Object
  <2>. QED BY <1>10, <2>1, ForgetsWorker DEF ReportStatus, WorkerInv
<1>11. CASE RemoveFinalizer(c)
  BY <1>11, ForgetsWorker DEF RemoveFinalizer, WorkerInv
<1>12. CASE Conflict(c)
  BY <1>12, ForgetsWorker DEF Conflict, WorkerInv
<1>. QED BY <1>1, <1>2, <1>3, <1>4, <1>5, <1>6, <1>7, <1>8, <1>9, <1>10, <1>11, <1>12
     DEF Worker

\* A worker touches nothing of another's.
LEMMA OtherWorker ==
    ASSUME TypeOK, NEW c \in MRs, Worker(c), NEW d \in MRs, c # d, WorkerInv(d)
    PROVE  WorkerInv(d)'
<1>1. /\ pc'[d] = pc[d] /\ mem'[d] = mem[d] /\ mr'[d] = mr[d] /\ todo'[d] = todo[d]
  BY DEF Worker, Reconcile, ObserveDeleting, Observe, ObserveFails, AddFinalizer, UpdateStart,
         SetOne, SetDone, Reset, ReportStatus, RemoveFinalizer, Conflict, Forget, Goto, TypeOK
<1>. QED BY <1>1 DEF WorkerInv

LEMMA EnvironmentKeeps ==
    ASSUME TypeOK, NEW d \in MRs, WorkerInv(d),
           \/ \E c \in MRs : EditSpec(c) \/ DeleteMR(c)
           \/ \E k \in Keys : AdminChange(k)
           \/ Crash
    PROVE  WorkerInv(d)'
<1>1. CASE Crash
  BY <1>1 DEF Crash, NoObject, WorkerInv
<1>2. CASE ~Crash
  <2>1. UNCHANGED <<pc, mem, todo>>
    BY <1>2 DEF EditSpec, DeleteMR, AdminChange
  <2>2. mr'[d].final = mr[d].final /\ mr'[d].seen = mr[d].seen
    BY <1>2 DEF EditSpec, DeleteMR, AdminChange, TypeOK, Object
  <2>. QED BY <2>1, <2>2 DEF WorkerInv
<1>. QED BY <1>1, <1>2

LEMMA SettingsInvariant == Spec => []SettingsInv
<1>1. Init => SettingsInv
  BY InitType, InitWorker DEF SettingsInv
<1>2. SettingsInv /\ [Next]_vars => SettingsInv'
  <2>. SUFFICES ASSUME SettingsInv, [Next]_vars PROVE SettingsInv'
    OBVIOUS
  <2>1. ASSUME NEW c \in MRs, Worker(c) PROVE SettingsInv'
    BY <2>1, WorkerType, WorkerKeeps, OtherWorker DEF SettingsInv
  <2>2. ASSUME \/ \E c \in MRs : EditSpec(c) \/ DeleteMR(c)
               \/ \E k \in Keys : AdminChange(k)
               \/ Crash
        PROVE  SettingsInv'
    BY <2>2, EnvironmentType, EnvironmentKeeps DEF SettingsInv
  <2>3. CASE UNCHANGED vars
    BY <2>3 DEF vars, SettingsInv, TypeOK, WorkerInv
  <2>. QED BY <2>1, <2>2, <2>3 DEF Next
<1>. QED BY <1>1, <1>2, PTL DEF Spec

----------------------------------------------------------------------------
(* The theorems.                                                            *)

\* Every variable keeps its type, whatever the maps, the defaults and the bounds.
THEOREM TypeCorrect == Spec => []TypeOK
<1>1. SettingsInv => TypeOK
  BY DEF SettingsInv
<1>. QED BY <1>1, SettingsInvariant, PTL

\* resetObsoleteSettings has never anything to reset: no worker ever goes by a
\* status that holds a key its map does not have.
THEOREM NoSettingIsReset == Spec => []NothingReset
<1>1. SettingsInv => NothingReset
  BY DEF SettingsInv, WorkerInv, NothingReset
<1>. QED BY <1>1, SettingsInvariant, PTL
=============================================================================
