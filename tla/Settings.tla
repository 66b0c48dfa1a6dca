------------------------------ MODULE Settings ------------------------------
(***************************************************************************)
(* The Settings controller (internal/controller/settings) and its client    *)
(* package: a Settings resource holds a map of setting keys to values for   *)
(* one component, and the worker sets what differs.                         *)
(*                                                                          *)
(* Observe answers "exists" for every resource that is not being deleted    *)
(* and "does not exist" for every one that is, so the reconciler calls      *)
(* neither Create nor Delete: the steps below are all that can run.         *)
(***************************************************************************)
EXTENDS Naturals, FiniteSets, Helpers

CONSTANTS
    MRs,                    \* Settings resources of one component
    Keys,                   \* setting keys
    Scalars, Lists, Maps,   \* non-empty values of the three kinds
    Empty,                  \* "", an empty list or an empty map
    Defaults,               \* Defaults[k]: the value SonarQube shows for k unset
    Wants,                  \* Wants[c]: the maps a user may write for c
    MaxEdits, MaxAdmin, MaxFaults, MaxCrashes   \* bounds

\* SettingParameters, and a value as SonarQube holds and SettingObservation
\* shows it.
Params == [value : Scalars \cup {Nil}, values : Lists \cup {Nil, Empty},
           fieldValues : Maps \cup {Nil, Empty}]
Held == [value : Scalars \cup {Empty}, values : Lists \cup {Empty},
         fieldValues : Maps \cup {Empty}]

PartialMaps(S) == UNION {[K -> S] : K \in SUBSET Keys}

ASSUME SettingsAssumption ==
    /\ Nil \notin MRs /\ Nil \notin Held
    /\ Defaults \in [Keys -> Held \cup {Nil}]
    /\ Wants \in [MRs -> SUBSET (PartialMaps(Params) \ {[k \in {} |-> Nil]})]
    /\ {MaxEdits, MaxAdmin, MaxFaults, MaxCrashes} \subseteq Nat

VARIABLES
    held,       \* SonarQube: held[k], Nil where the key is not set
    live, mr,   \* the API server: the resources that exist, the stored objects
    pc, mem,    \* the workers: the step each is at, its copy of the object
    stale,      \* stale[c]: the object changed since the copy was read
    todo,       \* todo[c]: the keys Update has still to set
    budget      \* what is left of the bounds

vars == <<held, live, mr, pc, mem, stale, todo, budget>>

\* want: spec.forProvider.settings; seen: status.atProvider.settings.
Object == [want : PartialMaps(Params), seen : PartialMaps(Held),
           final : BOOLEAN, deleting : BOOLEAN]
Nothing == [k \in {} |-> Nil]
NoObject == [want |-> Nothing, seen |-> Nothing, final |-> FALSE, deleting |-> FALSE]

PCs == {"idle", "observe", "finalize", "update", "set", "reset", "report", "unfinalize"}
Budget == [edits : Nat, admin : Nat, faults : Nat, crashes : Nat]

TypeOK ==
    /\ held \in [Keys -> Held \cup {Nil}]
    /\ live \in SUBSET MRs
    /\ mr \in [MRs -> Object] /\ mem \in [MRs -> Object]
    /\ pc \in [MRs -> PCs]
    /\ stale \in [MRs -> BOOLEAN]
    /\ todo \in [MRs -> SUBSET Keys]
    /\ budget \in Budget

Init ==
    /\ held = [k \in Keys |-> Nil]
    /\ live = MRs
    /\ \E want \in [MRs -> UNION {Wants[c] : c \in MRs}] :
          /\ \A c \in MRs : want[c] \in Wants[c]
          /\ mr = [c \in MRs |-> [NoObject EXCEPT !.want = want[c]]]
    /\ pc = [c \in MRs |-> "idle"]
    /\ mem = [c \in MRs |-> NoObject]
    /\ stale = [c \in MRs |-> FALSE]
    /\ todo = [c \in MRs |-> {}]
    /\ budget = [edits |-> MaxEdits, admin |-> MaxAdmin,
                 faults |-> MaxFaults, crashes |-> MaxCrashes]

----------------------------------------------------------------------------
(* SonarQube and the client package.                                        *)

\* What the Values call shows for a key: its value, or the default if any.
Shown(k) == IF held[k] = Nil THEN Defaults[k] ELSE held[k]

\* GenerateSettingsObservation of a Values call for the given keys.  Only the
\* keys asked for are returned.
Observation(keys) == [k \in {j \in keys : Shown(j) # Nil} |-> Shown(k)]

IsSettingUpToDate(p, o) ==
    PtrEq(p.value, o.value) /\ PtrEq(p.values, o.values) /\ PtrEq(p.fieldValues, o.fieldValues)

\* A key missing from the observation reads as a zero SettingObservation.
Zero == [value |-> Empty, values |-> Empty, fieldValues |-> Empty]
SeenOf(seen, k) == IF k \in DOMAIN seen THEN seen[k] ELSE Zero

AreSettingsUpToDate(want, seen) ==
    \A k \in DOMAIN want : k \in DOMAIN seen /\ IsSettingUpToDate(want[k], seen[k])

OutOfDate(want, seen) == {k \in DOMAIN want : ~IsSettingUpToDate(want[k], SeenOf(seen, k))}
Obsolete(want, seen) == DOMAIN seen \ DOMAIN want

\* GenerateSettingSetOptions: unset pointers and empty values are not sent.
\* SonarQube refuses a Set call with no value at all.
\* Mutant: the pointer is sent without looking whether it is set.
SentRaw(ptr) == ptr
Sent(ptr) == IF ptr = Nil THEN Empty ELSE ptr
SetOptions(p) ==
    [value |-> Sent(p.value), values |-> Sent(p.values), fieldValues |-> Sent(p.fieldValues)]
Settable(p) == SetOptions(p) # Zero

----------------------------------------------------------------------------
(* The worker.                                                              *)

Goto(c, label) == pc' = [pc EXCEPT ![c] = label]

Fault == budget.faults > 0 /\ budget' = [budget EXCEPT !.faults = @ - 1]

Forget(c) ==
    /\ Goto(c, "idle")
    /\ mem' = [mem EXCEPT ![c] = NoObject]
    /\ stale' = [stale EXCEPT ![c] = FALSE]
    /\ todo' = [todo EXCEPT ![c] = {}]

Reconcile(c) ==
    /\ pc[c] = "idle"
    /\ c \in live
    /\ mem' = [mem EXCEPT ![c] = mr[c]]
    /\ Goto(c, "observe")
    /\ UNCHANGED <<held, live, mr, stale, todo, budget>>

\* Mutant: a resource being deleted exists as long as its settings can be read.
ObserveDeletingExists(c) ==
    /\ pc[c] = "observe"
    /\ mem[c].deleting
    /\ Goto(c, "report")
    /\ UNCHANGED <<held, live, mr, mem, stale, todo, budget>>

\* Observe, the resource being deleted: it "does not exist", the finalizer goes.
ObserveDeleting(c) ==
    /\ pc[c] = "observe"
    /\ mem[c].deleting
    /\ Goto(c, "unfinalize")
    /\ UNCHANGED <<held, live, mr, mem, stale, todo, budget>>

\* Mutant: all keys are asked for, not the desired ones only.
ObserveAllKeys(c) ==
    LET seen == Observation(Keys)
    IN  /\ pc[c] = "observe"
        /\ ~mem[c].deleting
        /\ mem' = [mem EXCEPT ![c].seen = seen]
        /\ Goto(c, IF ~mem[c].final THEN "finalize"
                   ELSE IF AreSettingsUpToDate(mem[c].want, seen) THEN "report" ELSE "update")
        /\ UNCHANGED <<held, live, mr, stale, todo, budget>>

\* Observe: the values of the desired keys are read.
Observe(c) ==
    LET seen == Observation(DOMAIN mem[c].want)
    IN  /\ pc[c] = "observe"
        /\ ~mem[c].deleting
        /\ mem' = [mem EXCEPT ![c].seen = seen]
        /\ Goto(c, IF ~mem[c].final THEN "finalize"
                   ELSE IF AreSettingsUpToDate(mem[c].want, seen) THEN "report" ELSE "update")
        /\ UNCHANGED <<held, live, mr, stale, todo, budget>>

\* Observe fails with the Values call; the error is reported and retried.
ObserveFails(c) ==
    /\ pc[c] = "observe"
    /\ ~mem[c].deleting
    /\ Fault
    /\ Goto(c, "report")
    /\ UNCHANGED <<held, live, mr, mem, stale, todo>>

\* A map of settings that was stored, decoded over the one in memory: it takes
\* the place of nothing but its own keys.
DecodedOver(seen, stored) ==
    [k \in DOMAIN seen \cup DOMAIN stored |-> IF k \in DOMAIN stored THEN stored[k] ELSE seen[k]]

\* AddFinalizer: the reply of the API server has the stored status and is
\* decoded in place; the verdict stands.
AddFinalizer(c) ==
    LET final == [mem[c] EXCEPT !.final = TRUE]
    IN  /\ pc[c] = "finalize"
        /\ ~stale[c]
        /\ mr' = [mr EXCEPT ![c] = [final EXCEPT !.seen = mr[c].seen]]
        /\ mem' = [mem EXCEPT ![c] = [final EXCEPT !.seen = DecodedOver(@, mr[c].seen)]]
        /\ Goto(c, IF AreSettingsUpToDate(mem[c].want, mem[c].seen) THEN "report" ELSE "update")
        /\ UNCHANGED <<held, live, stale, todo, budget>>

\* Update: what to set is read off the status in memory.
UpdateStart(c) ==
    /\ pc[c] = "update"
    /\ todo' = [todo EXCEPT ![c] = OutOfDate(mem[c].want, mem[c].seen)]
    /\ Goto(c, "set")
    /\ UNCHANGED <<held, live, mr, mem, stale, budget>>

\* Mutant: the first setting that fails ends Update.
SetOneAborts(c) ==
    /\ pc[c] = "set"
    /\ \E k \in todo[c] :
          LET p == mem[c].want[k]
          IN  IF Settable(p)
                THEN /\ held' = [held EXCEPT ![k] = SetOptions(p)]
                     /\ todo' = [todo EXCEPT ![c] = @ \ {k}]
                     /\ UNCHANGED pc
                ELSE Goto(c, "report") /\ UNCHANGED <<held, todo>>
    /\ UNCHANGED <<live, mr, mem, stale, budget>>

\* updateOutOfDateSettings: one key after the other, in any order.  A key that
\* fails is noted and the next one tried.
SetOne(c) ==
    /\ pc[c] = "set"
    /\ \E k \in todo[c] :
          LET p == mem[c].want[k]
          IN  /\ todo' = [todo EXCEPT ![c] = @ \ {k}]
              /\ \/ /\ Settable(p)
                    /\ held' = [held EXCEPT ![k] = SetOptions(p)]
                    /\ UNCHANGED budget
                 \/ /\ IF Settable(p) THEN Fault ELSE UNCHANGED budget
                    /\ UNCHANGED held
    /\ UNCHANGED <<live, mr, pc, mem, stale>>

\* Every out-of-date key was tried; resetObsoleteSettings is next.
SetDone(c) ==
    /\ pc[c] = "set"
    /\ todo[c] = {}
    /\ Goto(c, "reset")
    /\ UNCHANGED <<held, live, mr, mem, stale, todo, budget>>

\* resetObsoleteSettings: the keys of the status that are not desired, if any,
\* are reset in one call (which NothingReset shows is never made).
Reset(c) ==
    LET obsolete == Obsolete(mem[c].want, mem[c].seen)
    IN  /\ pc[c] = "reset"
        /\ held' = [k \in Keys |-> IF k \in obsolete THEN Nil ELSE held[k]]
        /\ Goto(c, "report")
        /\ UNCHANGED <<live, mr, mem, stale, todo, budget>>

ReportStatus(c) ==
    /\ pc[c] = "report"
    /\ ~stale[c]
    /\ mr' = [mr EXCEPT ![c].seen = mem[c].seen]
    /\ Forget(c)
    /\ UNCHANGED <<held, live, budget>>

RemoveFinalizer(c) ==
    /\ pc[c] = "unfinalize"
    /\ ~stale[c]
    /\ live' = live \ {c}
    /\ Forget(c)
    /\ UNCHANGED <<held, mr, budget>>

Conflict(c) ==
    /\ pc[c] \in {"finalize", "report", "unfinalize"}
    /\ stale[c]
    /\ Forget(c)
    /\ UNCHANGED <<held, live, mr, budget>>

Worker(c) ==
    \/ Reconcile(c) \/ ObserveDeleting(c) \/ Observe(c) \/ ObserveFails(c) \/ AddFinalizer(c)
    \/ UpdateStart(c) \/ SetOne(c) \/ SetDone(c) \/ Reset(c)
    \/ ReportStatus(c) \/ RemoveFinalizer(c) \/ Conflict(c)

----------------------------------------------------------------------------
(* The environment.                                                         *)

Crash ==
    /\ budget.crashes > 0
    /\ \E c \in MRs : pc[c] # "idle"
    /\ budget' = [budget EXCEPT !.crashes = @ - 1]
    /\ pc' = [c \in MRs |-> "idle"]
    /\ mem' = [c \in MRs |-> NoObject]
    /\ stale' = [c \in MRs |-> FALSE]
    /\ todo' = [c \in MRs |-> {}]
    /\ UNCHANGED <<held, live, mr>>

Touched(c) == stale' = [stale EXCEPT ![c] = pc[c] # "idle"]

EditSpec(c) ==
    /\ budget.edits > 0
    /\ c \in live /\ ~mr[c].deleting
    /\ \E want \in Wants[c] \ {mr[c].want} : mr' = [mr EXCEPT ![c].want = want]
    /\ Touched(c)
    /\ budget' = [budget EXCEPT !.edits = @ - 1]
    /\ UNCHANGED <<held, live, pc, mem, todo>>

DeleteMR(c) ==
    /\ c \in live /\ ~mr[c].deleting
    /\ IF mr[c].final
         THEN mr' = [mr EXCEPT ![c].deleting = TRUE] /\ UNCHANGED live
         ELSE live' = live \ {c} /\ UNCHANGED mr
    /\ Touched(c)
    /\ UNCHANGED <<held, pc, mem, todo, budget>>

\* The administrator sets a key to some other value, or resets it.
AdminChange(k) ==
    /\ budget.admin > 0
    /\ \E v \in {Nil} \cup {[Zero EXCEPT !.value = s] : s \in Scalars} :
          v # held[k] /\ held' = [held EXCEPT ![k] = v]
    /\ budget' = [budget EXCEPT !.admin = @ - 1]
    /\ UNCHANGED <<live, mr, pc, mem, stale, todo>>

Next ==
    \/ \E c \in MRs : Worker(c) \/ EditSpec(c) \/ DeleteMR(c)
    \/ \E k \in Keys : AdminChange(k)
    \/ Crash

Spec == Init /\ [][Next]_vars

\* The work queue hands a worker every resource again, after an error or at the
\* latest after the poll interval, and a reconcile once started runs on.
Fairness == \A c \in MRs : WF_vars(Worker(c))
FairSpec == Spec /\ Fairness

----------------------------------------------------------------------------
(* Properties.                                                              *)

\* The worker never resets a setting: its status holds no key the map it goes
\* by does not have, also when AddFinalizer has decoded a reply over it or the
\* user took a key out meanwhile.  So resetObsoleteSettings does nothing, whatever its
\* comment says ("removed from the CR are reset"), as the API doc has it:
\* "Removing a setting from this map will NOT reset it to its default value in
\* SonarQube" (settings_types.go).  Nor does Delete, which "resets the settings":
\* Observe answers a deletion with "does not exist", and it is never called.
NothingReset ==
    \A c \in MRs : pc[c] = "reset" => Obsolete(mem[c].want, mem[c].seen) = {}

\* Left alone, a resource ends up with every setting SonarQube accepts at its
\* desired value: a setting it refuses, a failed call, a manual change or a
\* crash keeps none of the others from getting there.
SettingsConverge ==
    \A c \in MRs : <>[](c \in live /\ ~mr[c].deleting =>
        \A k \in DOMAIN mr[c].want :
            Settable(mr[c].want[k]) =>
                Shown(k) # Nil /\ IsSettingUpToDate(mr[c].want[k], Shown(k)))

\* A deleted resource goes.
DeletionCompletes == \A c \in MRs : <>[](c \in live => ~mr[c].deleting)
============================================================================
