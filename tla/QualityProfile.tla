--------------------------- MODULE QualityProfile ---------------------------
(***************************************************************************)
(* The QualityProfile controller (internal/controller/qualityprofile)       *)
(* driven by the managed reconciler, for the profiles of one language.      *)
(*                                                                          *)
(* SonarQube knows a profile by a key it makes up, the external name of the *)
(* MR, and by its name, which is unique and may change.  Show, Rename and   *)
(* the rule calls go by key; SetDefault and Delete go by name.              *)
(*                                                                          *)
(* A step of a worker is one call, save that Observe's Show and the pages   *)
(* of rules are one step: RulesPagination has what may happen between them. *)
(***************************************************************************)
EXTENDS QualityProfileRules, Functions

CONSTANTS
    MRs,            \* QualityProfile managed resources
    Keys,           \* keys SonarQube makes up for profiles
    BuiltIn,        \* the key of the built-in profile
    NoKey,          \* an external name that is no key
    Names,          \* names of profiles
    NoName,         \* the name in an empty status
    BuiltInName,    \* the name of the built-in profile
    KnownRules,     \* the rules SonarQube has: it refuses to activate others
    Fresh,          \* Fresh[r]: rule r as SonarQube activates it when told no more
    Handmade,       \* the forms an administrator gives a rule
    Starts,         \* the profiles SonarQube may start with, by key
    Wants,          \* Wants[c]: the [name, default, rules] a user may write for c
    InitExt,        \* InitExt[c]: external names c may start with
    FaultyCalls,    \* the calls that may fail although SonarQube would serve them
    MaxEdits, MaxAdmin, MaxFaults, MaxCrashes   \* bounds

Calls == {"Show", "Search", "Create", "CreateReply", "SetDefault", "Rename",
          "ActivateRule", "DeactivateRule", "Delete"}

Desired == [name : Names, default : BOOLEAN \cup {Nil}, rules : Seq(Params)]

\* by: the MR whose Create call made the profile and was told so.
Profile == [name : Names, rules : ActiveRules, by : MRs \cup {Nil}]

ASSUME ProfileAssumption ==
    /\ BuiltIn \in Keys /\ NoKey \notin Keys
    /\ BuiltInName \in Names /\ NoName \notin Names
    /\ Nil \notin MRs
    /\ KnownRules \subseteq Rules
    /\ Fresh \in [KnownRules -> Active] /\ Handmade \subseteq Active
    /\ Starts \subseteq [by : {Nil}, name : Names \ {BuiltInName}, rules : ActiveRules,
                       key : Keys \ {BuiltIn}]
    /\ Wants \in [MRs -> SUBSET Desired]
    /\ InitExt \in [MRs -> SUBSET (Keys \cup {NoKey})]
    /\ FaultyCalls \subseteq Calls
    /\ {MaxEdits, MaxAdmin, MaxFaults, MaxCrashes} \subseteq Nat

VARIABLES
    \* SonarQube
    profiles,   \* the profiles that exist, by key
    default,    \* the key of the default profile
    \* the API server, the workers and the bounds: see ManagedReconciler
    live, mr, pc, mem, stale, verdict, todo, budget

sonarVars == <<profiles, default>>
apiVars == <<live, mr>>
workerVars == <<pc, mem, stale, verdict, todo>>
vars == <<sonarVars, apiVars, workerVars, budget>>

----------------------------------------------------------------------------
(* Objects.                                                                 *)

NoRules == [r \in {} |-> Nil]

\* name, default, rules: spec.forProvider; seen: status.atProvider.
Object == [ext : Keys \cup {NoKey}, name : Names, default : BOOLEAN \cup {Nil},
           rules : Seq(Params), seen : [name : Names \cup {NoName}, rules : ActiveRules],
           pending : BOOLEAN, final : BOOLEAN, deleting : BOOLEAN]

NoObject == [ext |-> NoKey, name |-> BuiltInName, default |-> Nil, rules |-> <<>>,
             seen |-> [name |-> NoName, rules |-> NoRules],
             pending |-> FALSE, final |-> FALSE, deleting |-> FALSE]

Todo == [del : SUBSET Rules, act : SUBSET Params, upd : SUBSET Params]
NoTodo == [del |-> {}, act |-> {}, upd |-> {}]

\* An active rule decoded over another: an empty map is left out of a reply, and
\* leaves what was there; a map of parameters is merged with the one there.
Overlaid(new, old) ==
    {[new EXCEPT !.impacts = IF @ = Empty THEN old.impacts ELSE @, !.params = p] :
        p \in IF new.params = Empty THEN {old.params}
              ELSE IF old.params \in {Empty, new.params} THEN {new.params} ELSE ParamMaps}

\* A list of rules that was stored, decoded over the one in memory: each takes
\* the place of whichever rule was there, or a new one.
DecodedOver(rules, stored) ==
    IF stored \in {NoRules, rules} THEN {rules}
    ELSE {f \in [DOMAIN stored -> Active] :
             \A r \in DOMAIN f :
                 f[r] = stored[r] \/ \E s \in DOMAIN rules : f[r] \in Overlaid(stored[r], rules[s])}

\* The reply to an object sent has the stored status, or none if none was
\* stored yet.
Decode(sent, stored) ==
    {[sent EXCEPT !.seen = [name |-> n, rules |-> rules]] :
        n \in {stored.seen.name} \cup {x \in {sent.seen.name} : stored.seen.name = NoName},
        rules \in DecodedOver(sent.seen.rules, stored.seen.rules)}

INSTANCE ManagedReconciler

PCs == {"idle", "observe", "finalize", "pending", "create", "createDefault", "record",
        "persist", "update", "rename", "sync", "report", "destroy", "unfinalize"}

TypeOK ==
    /\ DOMAIN profiles \subseteq Keys /\ profiles \in [DOMAIN profiles -> Profile]
    /\ default \in Keys
    /\ live \in SUBSET MRs
    /\ mr \in [MRs -> Object] /\ mem \in [MRs -> Object]
    /\ pc \in [MRs -> PCs]
    /\ stale \in [MRs -> BOOLEAN]
    /\ verdict \in [MRs -> Verdict]
    /\ todo \in [MRs -> Todo]
    /\ budget \in Budget

\* The profiles by key: function updates at one key.
Put(f, k, v) == [x \in DOMAIN f \cup {k} |-> IF x = k THEN v ELSE f[x]]
Drop(f, k) == Restrict(f, DOMAIN f \ {k})

Init ==
    /\ \E S \in SUBSET Starts :
          /\ \A p, q \in S : p # q => p.key # q.key /\ p.name # q.name
          /\ profiles = [k \in {BuiltIn} \cup {p.key : p \in S} |->
                IF k = BuiltIn THEN [name |-> BuiltInName, rules |-> NoRules, by |-> Nil]
                ELSE LET p == CHOOSE q \in S : q.key = k
                     IN  [name |-> p.name, rules |-> p.rules, by |-> Nil]]
    /\ default = BuiltIn
    /\ live = MRs
    /\ \E want \in [MRs -> UNION {Wants[c] : c \in MRs}], ext \in [MRs -> Keys \cup {NoKey}] :
          /\ \A c \in MRs : want[c] \in Wants[c] /\ ext[c] \in InitExt[c]
          /\ mr = [c \in MRs |-> [NoObject EXCEPT !.ext = ext[c], !.name = want[c].name,
                       !.default = want[c].default, !.rules = want[c].rules]]
    /\ pc = [c \in MRs |-> "idle"]
    /\ mem = [c \in MRs |-> NoObject]
    /\ stale = [c \in MRs |-> FALSE]
    /\ verdict = [c \in MRs |-> Absent]
    /\ todo = [c \in MRs |-> NoTodo]
    /\ budget = [edits |-> MaxEdits, admin |-> MaxAdmin,
                 faults |-> MaxFaults, crashes |-> MaxCrashes]

----------------------------------------------------------------------------
(* SonarQube.                                                               *)

Exists(k) == k \in DOMAIN profiles
Named(name) == {k \in DOMAIN profiles : profiles[k].name = name}

\* Keys are never reused: a new one is unknown to every object and worker.
NewKeys == Keys \ (DOMAIN profiles \cup {mr[c].ext : c \in live} \cup {mem[c].ext : c \in MRs})
NewKey == CHOOSE k \in NewKeys : TRUE

SetRules(k, rules) == profiles' = [profiles EXCEPT ![k].rules = rules]

\* A call fails: SonarQube refuses it, or a fault gets in its way.
Refuses(ok, call) == IF ok THEN Fault(call) ELSE UNCHANGED budget

----------------------------------------------------------------------------
(* Observe.                                                                 *)

\* Mutant: a profile that is not found is an error.
ObserveAbsentAsError(c) ==
    /\ pc[c] = "observe"
    /\ ~Exists(mem[c].ext)
    /\ Goto(c, "report")
    /\ UNCHANGED <<sonarVars, apiVars, mem, stale, verdict, todo, budget>>

\* Show fails for whatever reason: the profile reads as absent.
ObserveAbsent(c) ==
    /\ pc[c] = "observe"
    /\ Refuses(Exists(mem[c].ext), "Show")
    /\ ObserveReturns(c, Absent)
    /\ UNCHANGED <<sonarVars, apiVars, mem, stale, todo>>

\* The rules cannot be fetched: Observe fails, status and spec stay.
ObserveFails(c) ==
    /\ pc[c] = "observe"
    /\ Exists(mem[c].ext) /\ Fault("Search")
    /\ Goto(c, "report")
    /\ UNCHANGED <<sonarVars, apiVars, mem, stale, verdict, todo>>

\* IsQualityProfileUpToDate.
IsQualityProfileUpToDate(spec, seen, isDefault) ==
    /\ spec.name = seen.name
    /\ PtrEq(spec.default, isDefault)
    /\ AreRulesUpToDate(spec.rules, seen.rules)

ObservePresent(c) ==
    LET ext   == mem[c].ext
        seen  == [name |-> profiles[ext].name, rules |-> profiles[ext].rules]
        dflt  == AssignIfNil(mem[c].default, default = ext)
        rules == LateInitRules(mem[c].rules, seen.rules)
        v     == [exists   |-> TRUE,
                  late     |-> dflt # mem[c].default \/ WereRulesLateInitialized(mem[c].rules, rules),
                  upToDate |-> IsQualityProfileUpToDate([mem[c] EXCEPT !.default = dflt],
                                                        seen, default = ext)]
    IN  /\ pc[c] = "observe"
        /\ Exists(ext)
        /\ mem' = [mem EXCEPT ![c].seen = seen, ![c].default = dflt, ![c].rules = rules]
        /\ ObserveReturns(c, v)
        /\ UNCHANGED <<sonarVars, apiVars, stale, todo, budget>>

----------------------------------------------------------------------------
(* Create.                                                                  *)

Make(name, by) ==
    /\ Named(name) = {} /\ NewKeys # {}
    /\ profiles' = Put(profiles, NewKey, [name |-> name, rules |-> NoRules, by |-> by])

\* Mutant: the key is recorded at the end of Create, so not when a SetDefault
\* call is to follow.
CreateOkKeyLast(c) ==
    /\ pc[c] = "create"
    /\ Make(mem[c].name, c)
    /\ mem' = [mem EXCEPT ![c].ext = IF mem[c].default = TRUE THEN @ ELSE NewKey]
    /\ Goto(c, IF mem[c].default = TRUE THEN "createDefault" ELSE "record")
    /\ UNCHANGED <<default, apiVars, stale, verdict, todo, budget>>

\* The key is recorded on the copy before SetDefault may fail.
CreateOk(c) ==
    /\ pc[c] = "create"
    /\ Make(mem[c].name, c)
    /\ mem' = [mem EXCEPT ![c].ext = NewKey]
    /\ Goto(c, IF mem[c].default = TRUE THEN "createDefault" ELSE "record")
    /\ UNCHANGED <<default, apiVars, stale, verdict, todo, budget>>

CreateFails(c) ==
    /\ pc[c] = "create"
    /\ Refuses(Named(mem[c].name) = {}, "Create")
    /\ Goto(c, "record")
    /\ UNCHANGED <<sonarVars, apiVars, mem, stale, verdict, todo>>

\* The profile is made and the reply, which has the key, is lost.
CreateReplyLost(c) ==
    /\ pc[c] = "create"
    /\ Fault("CreateReply")
    /\ Make(mem[c].name, Nil)
    /\ Goto(c, "record")
    /\ UNCHANGED <<default, apiVars, mem, stale, verdict, todo>>

\* SetDefault, by the name in the desired state.
SetDefaultOk(c) ==
    /\ mem[c].default = TRUE
    /\ Named(mem[c].name) # {}
    /\ default' \in Named(mem[c].name)
    /\ UNCHANGED budget

SetDefaultFails(c) ==
    /\ mem[c].default = TRUE
    /\ Refuses(Named(mem[c].name) # {}, "SetDefault")
    /\ UNCHANGED default

CreateSetDefault(c) ==
    /\ pc[c] = "createDefault"
    /\ SetDefaultOk(c) \/ SetDefaultFails(c)
    /\ Goto(c, "record")
    /\ UNCHANGED <<profiles, apiVars, mem, stale, verdict, todo>>

----------------------------------------------------------------------------
(* Update.                                                                  *)

\* First the default, by name; an error ends Update.
UpdateDefault(c) ==
    /\ pc[c] = "update"
    /\ \/ SetDefaultOk(c) /\ Goto(c, "rename")
       \/ SetDefaultFails(c) /\ Goto(c, "report")
       \/ mem[c].default # TRUE /\ Goto(c, "rename") /\ UNCHANGED <<default, budget>>
    /\ UNCHANGED <<profiles, apiVars, mem, stale, verdict, todo>>

\* Mutant: the rename option takes the observed name.
NewNameSeen(object) == object.seen.name

\* GenerateRenameQualityProfileOption.
NewName(object) == object.name

Renamable(k, name) == Exists(k) /\ k # BuiltIn /\ Named(name) \subseteq {k}

\* syncQualityProfileRules: a call that fails is left for the next Update, the
\* other calls are made.
Continue(c, t) ==
    /\ todo' = [todo EXCEPT ![c] = t]
    /\ Goto(c, IF t = NoTodo THEN "report" ELSE "sync")

Plan(object) ==
    [del |-> FindMissing(object.rules, object.seen.rules),
     act |-> FindNonExisting(object.rules, object.seen.rules),
     upd |-> FindNotUpToDate(object.rules, object.seen.rules)]

\* Then the name, when it differs from the one the status has; an error ends
\* Update.  The rules are planned from the status.
UpdateName(c) ==
    LET ext == mem[c].ext  name == mem[c].name
    IN  /\ pc[c] = "rename"
        /\ \/ /\ name # mem[c].seen.name
              /\ Renamable(ext, name)
              /\ profiles' = [profiles EXCEPT ![ext].name = NewName(mem[c])]
              /\ Continue(c, Plan(mem[c]))
              /\ UNCHANGED budget
           \/ /\ name # mem[c].seen.name
              /\ Refuses(Renamable(ext, name), "Rename")
              /\ Goto(c, "report")
              /\ UNCHANGED <<profiles, todo>>
           \/ /\ name = mem[c].seen.name
              /\ Continue(c, Plan(mem[c]))
              /\ UNCHANGED <<profiles, budget>>
        /\ UNCHANGED <<default, apiVars, mem, stale, verdict>>

\* The built-in profile is read-only.  A rule that is not active is
\* deactivated without complaint.
Editable(k) == Exists(k) /\ k # BuiltIn

DeactivateRule(c) ==
    LET ext == mem[c].ext
    IN  /\ pc[c] = "sync"
        /\ \E r \in todo[c].del :
              /\ \/ /\ Editable(ext)
                    /\ SetRules(ext, Drop(profiles[ext].rules, r))
                    /\ UNCHANGED budget
                 \/ Refuses(Editable(ext), "DeactivateRule") /\ UNCHANGED profiles
              /\ Continue(c, [todo[c] EXCEPT !.del = @ \ {r}])
        /\ UNCHANGED <<default, apiVars, mem, stale, verdict>>

Activatable(k, r) == Editable(k) /\ r \in KnownRules

\* One ActivateRule call, for a new rule or an outdated one.
Activate(k, p) ==
    LET rules == profiles[k].rules
        old   == IF p.rule \in DOMAIN rules THEN rules[p.rule] ELSE Fresh[p.rule]
    IN  SetRules(k, Put(rules, p.rule, Activated(old, ActivateOption(p))))

ActivateServed(c, p) ==
    \/ /\ Activatable(mem[c].ext, p.rule)
       /\ Activate(mem[c].ext, p)
       /\ UNCHANGED budget
    \/ /\ Refuses(Activatable(mem[c].ext, p.rule), "ActivateRule")
       /\ UNCHANGED profiles

\* Mutant: the first activation that fails ends the pass.
ActivateRuleAborts(c) ==
    /\ pc[c] = "sync"
    /\ todo[c].del = {}
    /\ \E p \in todo[c].act :
          /\ p = CHOOSE q \in todo[c].act : TRUE
          /\ ActivateServed(c, p)
          /\ IF Activatable(mem[c].ext, p.rule)
               THEN Continue(c, [todo[c] EXCEPT !.act = @ \ {p}])
               ELSE Continue(c, NoTodo)
    /\ UNCHANGED <<default, apiVars, mem, stale, verdict>>

\* activateMissingQualityProfileRules, once nothing is left to deactivate.
ActivateRule(c) ==
    /\ pc[c] = "sync"
    /\ todo[c].del = {}
    /\ \E p \in todo[c].act :
          /\ ActivateServed(c, p)
          /\ Continue(c, [todo[c] EXCEPT !.act = @ \ {p}])
    /\ UNCHANGED <<default, apiVars, mem, stale, verdict>>

\* updateOutdatedQualityProfileRules, once nothing is left to activate.
UpdateRule(c) ==
    /\ pc[c] = "sync"
    /\ todo[c].del = {} /\ todo[c].act = {}
    /\ \E p \in todo[c].upd :
          /\ ActivateServed(c, p)
          /\ Continue(c, [todo[c] EXCEPT !.upd = @ \ {p}])
    /\ UNCHANGED <<default, apiVars, mem, stale, verdict>>

----------------------------------------------------------------------------
(* Delete.                                                                  *)

\* SonarQube keeps its default and its built-in profile.
Deletable(name) == Named(name) \ {default, BuiltIn} # {}

\* Delete, by the name in the desired state.
Destroy(c) ==
    LET name == mem[c].name
    IN  /\ pc[c] = "destroy"
        /\ \/ /\ Deletable(name)
              /\ profiles' = Restrict(profiles, DOMAIN profiles \ Named(name))
              /\ UNCHANGED budget
           \/ Refuses(Deletable(name), "Delete") /\ UNCHANGED profiles
        /\ Goto(c, "report")
        /\ UNCHANGED <<default, apiVars, mem, stale, verdict, todo>>

\* The steps of the reconcile around the external client.
Runtime(c) ==
    /\ \/ Reconcile(c) \/ AddFinalizer(c) \/ AnnounceCreate(c) \/ RecordCreate(c)
       \/ PersistLateInit(c) \/ ReportStatus(c) \/ RemoveFinalizer(c) \/ Conflict(c)
    /\ UNCHANGED sonarVars

Worker(c) ==
    \/ Runtime(c)
    \/ ObserveAbsent(c) \/ ObserveFails(c) \/ ObservePresent(c)
    \/ CreateOk(c) \/ CreateFails(c) \/ CreateReplyLost(c) \/ CreateSetDefault(c)
    \/ UpdateDefault(c) \/ UpdateName(c)
    \/ DeactivateRule(c) \/ ActivateRule(c) \/ UpdateRule(c)
    \/ Destroy(c)

----------------------------------------------------------------------------
(* Users and administrators.                                                *)

\* The fields late initialisation filled in are kept by an edit in place.
Filled(p, q) ==
    [p EXCEPT !.severity = AssignIfNil(@, q.severity), !.impacts = AssignIfNil(@, q.impacts),
              !.params = AssignIfNil(@, q.params), !.prioritized = AssignIfNil(@, q.prioritized)]

KeepFilled(new, old) ==
    [i \in DOMAIN new |->
        IF new[i].rule \notin Asked(old) THEN new[i]
        ELSE Filled(new[i], SpecOf(new[i].rule, old))]

\* The user writes another desired state: applied, with the rules as a whole
\* list, or edited in place.  A default left out keeps the stored one.
EditSpec(c) ==
    /\ \E want \in Wants[c] :
          \E rules \in {want.rules, KeepFilled(want.rules, mr[c].rules)} :
             Edit(c, [mr[c] EXCEPT !.name = want.name, !.rules = rules,
                          !.default = IF want.default = Nil THEN @ ELSE want.default])
    /\ UNCHANGED sonarVars

\* The administrator changes SonarQube; the built-in profile is read-only.
AdminMake(name) ==
    /\ Admin
    /\ Make(name, Nil)
    /\ UNCHANGED default

AdminDelete(k) ==
    /\ Admin
    /\ k \in DOMAIN profiles \ {default, BuiltIn}
    /\ profiles' = Drop(profiles, k)
    /\ UNCHANGED default

AdminRename(k, name) ==
    /\ Admin
    /\ Editable(k) /\ Named(name) = {}
    /\ profiles' = [profiles EXCEPT ![k].name = name]
    /\ UNCHANGED default

AdminSetDefault(k) ==
    /\ Admin
    /\ Exists(k) /\ k # default
    /\ default' = k
    /\ UNCHANGED profiles

AdminActivate(k, r) ==
    /\ Admin
    /\ Activatable(k, r)
    /\ \E o \in Handmade : SetRules(k, Put(profiles[k].rules, r, o))
    /\ UNCHANGED default

AdminDeactivate(k, r) ==
    /\ Admin
    /\ Editable(k) /\ r \in DOMAIN profiles[k].rules
    /\ SetRules(k, Drop(profiles[k].rules, r))
    /\ UNCHANGED default

Users ==
    \/ \E c \in MRs : EditSpec(c) \/ (DeleteMR(c) /\ UNCHANGED sonarVars)
    \/ \E name \in Names : AdminMake(name)
    \/ \E k \in Keys :
          \/ AdminDelete(k) \/ AdminSetDefault(k)
          \/ \E name \in Names : AdminRename(k, name)
          \/ \E r \in Rules : AdminActivate(k, r) \/ AdminDeactivate(k, r)

Restart == Crash /\ UNCHANGED sonarVars

Next == (\E c \in MRs : Worker(c)) \/ Restart \/ Users

Spec == Init /\ [][Next]_vars

\* The work queue hands a worker every MR again, after an error or at the
\* latest after the poll interval, and a reconcile once started runs on.
Fairness == \A c \in MRs : WF_vars(Worker(c))

FairSpec == Spec /\ Fairness

----------------------------------------------------------------------------
(* Properties.                                                              *)

\* No profile is leaked: a profile an MR's Create call made, and was told of, is
\* reachable from the MR, by the recorded key or through the announced creation
\* that blocks it, as long as Show fails for absent profiles only.
CreatedProfilesTracked ==
    \A c \in MRs : \A k \in DOMAIN profiles :
        profiles[k].by = c => c \in live /\ (mr[c].ext = k \/ mr[c].pending)

\* Why it holds: the reasons are those of QualityGate, with the key SonarQube
\* makes up in the place of a name.  A worker's copy agrees with the object on
\* the external name until Create sets it, and no worker that is about to
\* announce, to create or to let its object go has a profile.
Creating == {"create", "createDefault", "record"}

ProfileHeld(c, k) ==
    /\ c \in live /\ mr[c].final
    /\ mr[c].ext = k \/ mr[c].pending

CopyAgrees(c) ==
    /\ ~stale[c] => c \in live
    /\ pc[c] \in Creating <=> mr[c].pending
    /\ mem[c].pending = mr[c].pending
    /\ pc[c] \notin {"createDefault", "record"} => mem[c].ext = mr[c].ext
    /\ pc[c] \in {"pending", "persist"} => mem[c].final
    /\ pc[c] \in Creating => c \in live /\ mr[c].final

HasNoProfile(c) ==
    \/ pc[c] \in {"pending", "create", "unfinalize"}
    \/ pc[c] = "finalize" /\ ~verdict[c].exists

Tracked(c) ==
    /\ pc[c] # "idle" => CopyAgrees(c)
    /\ \A k \in DOMAIN profiles :
          profiles[k].by = c =>
              /\ ProfileHeld(c, k)
              /\ ~HasNoProfile(c)
              /\ pc[c] \in {"createDefault", "record"} => mem[c].ext = k

TrackingInv == \A c \in MRs : Tracked(c)

\* Names are unique, so Destroy takes one profile; it takes one only for an MR
\* that is being deleted.
NamesUnique ==
    \A k, l \in DOMAIN profiles : profiles[k].name = profiles[l].name => k = l

LeavingOK(c) ==
    pc[c] # "idle" =>
        /\ ~stale[c] => mem[c].deleting = mr[c].deleting
        /\ mem[c].deleting => c \in live /\ mr[c].deleting
        /\ pc[c] = "destroy" => mem[c].deleting

LeavingInv == NamesUnique /\ \A c \in MRs : LeavingOK(c)

\* The profiles and their MRs, as ResourceLife has them, on the same
\* assumption.
Life == INSTANCE ResourceLife WITH
            Resources <- Keys, Nobody <- Nil, there <- DOMAIN profiles,
            owner <- [k \in Keys |-> IF Exists(k) THEN profiles[k].by ELSE Nil],
            leaving <- {c \in live : mr[c].deleting}, name <- [c \in MRs |-> mr[c].ext],
            hands <- budget.admin
KeepsLife == Life!Spec

\* The profile of the object is what the object asks for, the rules SonarQube
\* does not have left aside; Fits says when an active rule is as desired.
Synced(object, Fits(_, _)) ==
    /\ Exists(object.ext)
    /\ profiles[object.ext].name = object.name
    /\ object.default = TRUE => default = object.ext
    /\ LET rules == profiles[object.ext].rules
       IN  /\ DOMAIN rules = Asked(object.rules) \cap KnownRules
           /\ \A r \in DOMAIN rules : Fits(SpecOf(r, object.rules), rules[r])

\* The worker of c takes a step of its own.
Steps(c) == pc[c] # "idle" /\ <<pc[c], todo[c]>>' # <<pc[c], todo[c]>>

\* A profile that is what the worker's copy of the MR asks for is not touched
\* by Update, although the calls are planned from a status that may be old or
\* empty: no rule is taken out for a moment, none is sent other values.
SyncedProfileUntouched ==
    [][\A c \in MRs :
          /\ pc[c] \in {"update", "rename", "sync"} /\ Steps(c)
          /\ Synced(mem[c], IsRuleUpToDate)
          => UNCHANGED sonarVars]_vars

\* Why it holds: the calls left take out no rule the copy asks for, and send the
\* others as the copy has them; nothing changes the copy before the last call.
Planned(c) ==
    pc[c] = "sync" =>
        /\ todo[c].del \cap Asked(mem[c].rules) = {}
        /\ \A p \in todo[c].act \cup todo[c].upd :
              /\ p.rule \in Asked(mem[c].rules)
              /\ p = SpecOf(p.rule, mem[c].rules)

PlanInv == \A c \in MRs : Planned(c)

\* What no reconcile gets past: an unfinished creation, another profile of the
\* name, or a name to be given to a profile that is to be the default, for
\* which SetDefault asks by the new name before Rename has given it.  A list
\* that differs for one rule reads as late initialised in every reconcile: its
\* write sets the status back each time, and Update never learns of a change.
Blocked(c) ==
    \/ mr[c].pending
    \/ WereRulesLateInitialized(mr[c].rules, mr[c].rules)
    \/ Named(mr[c].name) \ {mr[c].ext} # {}
    \/ mr[c].default = TRUE /\ Exists(mr[c].ext) /\ profiles[mr[c].ext].name # mr[c].name

\* Left alone, every MR ends up with its profile in sync, whatever was changed
\* by hand, failed or crashed before: a rule that is always refused does not
\* keep the others from being activated.
ProfileConverges ==
    \A c \in MRs : <>[](c \notin live \/ mr[c].deleting \/ Blocked(c) \/ Synced(mr[c], Realises))

\* A deleted MR goes, unless its creation was left unfinished, its profile is
\* the default one or bears another name than the MR says.
DeletionCompletes ==
    \A c \in MRs :
        <>[](c \in live /\ mr[c].deleting =>
                \/ mr[c].pending
                \/ mr[c].ext = default
                \/ Exists(mr[c].ext) /\ profiles[mr[c].ext].name # mr[c].name)

----------------------------------------------------------------------------
(* What a comment of the code says, and the code does not do.               *)

\* "Use external name as the identifier to delete the resource": Delete takes
\* no other profile than the one the external name names.
DeletesOwnProfile ==
    [][\A c \in MRs : pc[c] = "destroy" /\ Steps(c) =>
          DOMAIN profiles \ DOMAIN profiles' \subseteq {mem[c].ext}]_vars
============================================================================
