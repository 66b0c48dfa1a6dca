------------------------ MODULE QualityProfileProofs ------------------------
(***************************************************************************)
(* Theorems about the QualityProfile controller, for every set of MRs,      *)
(* keys, names and rules, and every bound.                                  *)
(***************************************************************************)
EXTENDS QualityProfile, WellFoundedInduction, TLAPS

----------------------------------------------------------------------------
(* The operators of QualityProfileRules.                                    *)

\* Every nonempty set of natural numbers has a least one.
LEMMA LeastOne ==
    ASSUME NEW T \in SUBSET Nat, T # {}
    PROVE  \E x \in T : \A y \in T : x <= y
<1>. DEFINE R == OpToRel(<, Nat)
<1>1. IsWellFoundedOn(R, Nat)
  BY NatLessThanWellFounded
<1>. HIDE DEF R
<1>2. PICK x \in T : \A y \in T : ~ (<<y, x>> \in R)
  BY <1>1, WFMin
<1>3. ASSUME NEW y \in T PROVE x <= y
  <2>1. <<y, x>> \notin R
    BY <1>2
  <2>2. y < x => <<y, x>> \in R
    BY DEF R, OpToRel
  <2>. QED BY <2>1, <2>2
<1>. QED BY <1>3

\* A rule that is asked for has a last desired rule, so SpecOf finds one.
LEMMA SpecOfType ==
    ASSUME NEW specs \in Seq(Params), NEW r \in Asked(specs)
    PROVE  SpecOf(r, specs) \in Params /\ SpecOf(r, specs).rule = r
<1>. DEFINE Wanted == {i \in DOMAIN specs : specs[i].rule = r}
            FromEnd == {Len(specs) - i : i \in Wanted}
<1>0. /\ Wanted \subseteq 1 .. Len(specs) /\ Wanted # {}
      /\ Len(specs) \in Nat
  BY DEF Asked
<1>. HIDE DEF Wanted
<1>1. \A j \in Wanted : Len(specs) - j \in Nat /\ Len(specs) - j \in FromEnd
  BY <1>0
<1>2. PICK i \in Wanted : \A j \in Wanted : Len(specs) - i <= Len(specs) - j
  <2>1. FromEnd \in SUBSET Nat /\ FromEnd # {}
    BY <1>0, <1>1
  <2>2. PICK x \in FromEnd : \A y \in FromEnd : x <= y
    BY <2>1, LeastOne
  <2>. QED BY <1>1, <2>2
<1>3. \A j \in Wanted : j <= i
  BY <1>0, <1>2
<1>4. \E j \in DOMAIN specs : specs[j].rule = r /\ IsLast(j, specs)
  BY <1>3 DEF IsLast, Wanted
<1>. DEFINE last == CHOOSE j \in DOMAIN specs : specs[j].rule = r /\ IsLast(j, specs)
<1>5. last \in DOMAIN specs /\ specs[last].rule = r
  BY <1>4
<1>. QED BY <1>5 DEF SpecOf

LEMMA ActiveRulesType ==
    ASSUME NEW rules
    PROVE  rules \in ActiveRules <=>
               DOMAIN rules \subseteq Rules /\ rules \in [DOMAIN rules -> Active]
BY DEF ActiveRules

\* Late initialisation fills in what the CRD admits.
LEMMA LateInitType ==
    ASSUME NEW specs \in Seq(Params), NEW seen \in ActiveRules
    PROVE  LateInitRules(specs, seen) \in Seq(Params)
<1>1. ASSUME NEW p \in Params, NEW o \in Active PROVE LateInitRule(p, o) \in Params
  BY <1>1 DEF LateInitRule, AssignIfNil, Params, Active
<1>2. \A r \in DOMAIN seen : seen[r] \in Active
  BY ActiveRulesType
<1>3. \A i \in DOMAIN specs : specs[i] \in Params
  OBVIOUS
<1>. QED BY <1>1, <1>2, <1>3 DEF LateInitRules

\* An edit in place writes a list the CRD admits.
LEMMA KeepFilledType ==
    ASSUME NEW new \in Seq(Params), NEW old \in Seq(Params)
    PROVE  KeepFilled(new, old) \in Seq(Params)
<1>1. ASSUME NEW p \in Params, NEW q \in Params PROVE Filled(p, q) \in Params
  <2>1. /\ AssignIfNil(p.severity, q.severity) \in Severities \cup {Nil}
        /\ AssignIfNil(p.impacts, q.impacts) \in ImpactMaps \cup {Empty, Nil}
        /\ AssignIfNil(p.params, q.params) \in ParamMaps \cup {Empty, Nil}
        /\ AssignIfNil(p.prioritized, q.prioritized) \in BOOLEAN \cup {Nil}
    BY DEF AssignIfNil, Params
  <2>. QED BY <2>1 DEF Filled, Params
<1>2. \A i \in DOMAIN new : new[i] \in Params
  OBVIOUS
<1>3. \A r \in Asked(old) : SpecOf(r, old) \in Params
  BY SpecOfType
<1>. QED BY <1>1, <1>2, <1>3 DEF KeepFilled

\* An activate_rule call leaves a rule as SonarQube holds rules: no option that
\* is left out, or set to the zero value, ends up as a hole in it.
LEMMA ActivatedType ==
    ASSUME NEW o \in Active, NEW p \in Params
    PROVE  Activated(o, ActivateOption(p)) \in Active
<1>. DEFINE s == Unless(p.impacts \notin {Nil, Empty}, p.severity)
            i == Unless(p.impacts = Empty, p.impacts)
            m == Unless(p.params = Empty, p.params)
            f == Unless(p.prioritized = FALSE, p.prioritized)
<1>1. /\ s \in Severities \cup {Nil} /\ i \in ImpactMaps \cup {Empty, Nil}
      /\ m \in ParamMaps \cup {Empty, Nil} /\ f \in BOOLEAN \cup {Nil}
  BY DEF Unless, Params
<1>. HIDE DEF s, i, m, f
<1>2. /\ AssignIfNil(s, o.severity) \in Severities
      /\ AssignIfNil(i, o.impacts) \in ImpactMaps \cup {Empty}
      /\ AssignIfNil(m, o.params) \in ParamMaps \cup {Empty}
      /\ AssignIfNil(f, o.prioritized) \in BOOLEAN
  BY <1>1 DEF AssignIfNil, Active
<1>3. Activated(o, ActivateOption(p)) =
        [severity |-> AssignIfNil(s, o.severity), impacts |-> AssignIfNil(i, o.impacts),
         params |-> AssignIfNil(m, o.params), prioritized |-> AssignIfNil(f, o.prioritized)]
  BY DEF Activated, ActivateOption, s, i, m, f
<1>. QED BY <1>2, <1>3 DEF Active

\* Update plans calls for rules and for desired rules only.
LEMMA PlanType ==
    ASSUME NEW object \in Object
    PROVE  Plan(object) \in Todo
<1>1. object.rules \in Seq(Params) /\ object.seen.rules \in ActiveRules
  BY DEF Object
<1>2. \A r \in Asked(object.rules) : SpecOf(r, object.rules) \in Params
  BY <1>1, SpecOfType
<1>3. FindMissing(object.rules, object.seen.rules) \in SUBSET Rules
  BY <1>1, ActiveRulesType DEF FindMissing
<1>4. FindNonExisting(object.rules, object.seen.rules) \in SUBSET Params
  BY <1>2 DEF FindNonExisting
<1>5. FindNotUpToDate(object.rules, object.seen.rules) \in SUBSET Params
  BY <1>2 DEF FindNotUpToDate
<1>. QED BY <1>3, <1>4, <1>5 DEF Plan, Todo

----------------------------------------------------------------------------
(* The profiles by key.                                                     *)

LEMMA PutType ==
    ASSUME NEW V, NEW f, f \in [DOMAIN f -> V], NEW k, NEW v \in V
    PROVE  Put(f, k, v) \in [DOMAIN f \cup {k} -> V] /\ DOMAIN Put(f, k, v) = DOMAIN f \cup {k}
BY DEF Put

LEMMA RestrictType ==
    ASSUME NEW V, NEW f, f \in [DOMAIN f -> V], NEW S
    PROVE  /\ Restrict(f, DOMAIN f \ S) \in [DOMAIN f \ S -> V]
           /\ DOMAIN Restrict(f, DOMAIN f \ S) = DOMAIN f \ S
BY DEF Restrict

ProfilesOK == DOMAIN profiles \subseteq Keys /\ profiles \in [DOMAIN profiles -> Profile]

LEMMA NewKeyType ==
    ASSUME NewKeys # {}
    PROVE  /\ NewKey \in Keys \ DOMAIN profiles
           /\ \A c \in MRs : mem[c].ext # NewKey /\ (c \in live => mr[c].ext # NewKey)
<1>1. NewKey \in NewKeys
  BY DEF NewKey
<1>. QED BY <1>1 DEF NewKeys

LEMMA NoRulesType == NoRules \in ActiveRules
BY ActiveRulesType DEF NoRules

\* A profile is made: a new key, and no more than that.
LEMMA MakeType ==
    ASSUME TypeOK, NEW name \in Names, NEW by \in MRs \cup {Nil}, Make(name, by)
    PROVE  /\ ProfilesOK'
           /\ NewKey \in Keys \ DOMAIN profiles
           /\ DOMAIN profiles' = DOMAIN profiles \cup {NewKey}
           /\ profiles'[NewKey].by = by /\ profiles'[NewKey].name = name
           /\ \A k \in DOMAIN profiles : profiles'[k] = profiles[k]
           /\ NamesUnique => NamesUnique'
<1>1. NewKey \in Keys \ DOMAIN profiles
  BY NewKeyType DEF Make
<1>. DEFINE p == [name |-> name, rules |-> NoRules, by |-> by]
<1>2. p \in Profile
  BY NoRulesType DEF Profile
<1>3. profiles' = Put(profiles, NewKey, p)
  BY DEF Make
<1>4. p.by = by /\ p.name = name
  OBVIOUS
<1>. HIDE DEF p
<1>5. profiles' \in [DOMAIN profiles \cup {NewKey} -> Profile]
  BY <1>2, <1>3, PutType DEF TypeOK
<1>6. profiles'[NewKey] = p /\ \A k \in DOMAIN profiles : profiles'[k] = profiles[k]
  BY <1>1, <1>3 DEF Put
<1>7. NamesUnique => NamesUnique'
  BY <1>1, <1>4, <1>5, <1>6 DEF NamesUnique, Make, Named
<1>. QED BY <1>1, <1>4, <1>5, <1>6, <1>7 DEF TypeOK, ProfilesOK

\* Profiles go.
LEMMA GoneType ==
    ASSUME TypeOK, NEW S, profiles' = Restrict(profiles, DOMAIN profiles \ S)
    PROVE  /\ ProfilesOK'
           /\ DOMAIN profiles' = DOMAIN profiles \ S
           /\ \A k \in DOMAIN profiles' : profiles'[k] = profiles[k]
           /\ NamesUnique => NamesUnique'
<1>1. profiles' \in [DOMAIN profiles \ S -> Profile]
  BY RestrictType DEF TypeOK
<1>2. \A k \in DOMAIN profiles \ S : profiles'[k] = profiles[k]
  BY DEF Restrict
<1>3. /\ ProfilesOK' /\ DOMAIN profiles' = DOMAIN profiles \ S
      /\ \A k \in DOMAIN profiles' : profiles'[k] = profiles[k]
  BY <1>1, <1>2 DEF TypeOK, ProfilesOK
<1>. QED BY <1>3 DEF NamesUnique

\* A profile gets other rules, or another name.
LEMMA SetRulesType ==
    ASSUME TypeOK, NEW k \in DOMAIN profiles, NEW rules \in ActiveRules, SetRules(k, rules)
    PROVE  /\ ProfilesOK'
           /\ DOMAIN profiles' = DOMAIN profiles
           /\ \A l \in DOMAIN profiles : /\ profiles'[l].name = profiles[l].name
                                         /\ profiles'[l].by = profiles[l].by
           /\ NamesUnique => NamesUnique'
<1>1. \A p \in Profile : /\ [p EXCEPT !.rules = rules] \in Profile
                         /\ [p EXCEPT !.rules = rules].name = p.name
                         /\ [p EXCEPT !.rules = rules].by = p.by
  BY DEF Profile
<1>2. profiles' = [profiles EXCEPT ![k] = [profiles[k] EXCEPT !.rules = rules]]
  BY DEF SetRules
<1>3. /\ ProfilesOK'
      /\ DOMAIN profiles' = DOMAIN profiles
      /\ \A l \in DOMAIN profiles : /\ profiles'[l].name = profiles[l].name
                                    /\ profiles'[l].by = profiles[l].by
  BY <1>1, <1>2 DEF TypeOK, ProfilesOK
<1>. QED BY <1>3 DEF NamesUnique

LEMMA SetNameType ==
    ASSUME TypeOK, NEW k \in DOMAIN profiles, NEW name \in Names,
           profiles' = [profiles EXCEPT ![k].name = name]
    PROVE  /\ ProfilesOK'
           /\ DOMAIN profiles' = DOMAIN profiles
           /\ profiles'[k].name = name
           /\ \A l \in DOMAIN profiles : /\ l # k => profiles'[l] = profiles[l]
                                         /\ profiles'[l].by = profiles[l].by
           /\ Named(name) \subseteq {k} /\ NamesUnique => NamesUnique'
<1>1. \A p \in Profile : /\ [p EXCEPT !.name = name] \in Profile
                         /\ [p EXCEPT !.name = name].name = name
                         /\ [p EXCEPT !.name = name].by = p.by
  BY DEF Profile
<1>2. DOMAIN profiles' = DOMAIN profiles
  OBVIOUS
<1>3. profiles'[k] = [profiles[k] EXCEPT !.name = name]
  OBVIOUS
<1>4. \A l \in DOMAIN profiles : l # k => profiles'[l] = profiles[l]
  OBVIOUS
<1>5. \A l \in DOMAIN profiles : profiles[l] \in Profile
  BY DEF TypeOK
<1>6. profiles'[k] \in Profile /\ profiles'[k].name = name /\ profiles'[k].by = profiles[k].by
  BY <1>1, <1>3, <1>5
<1>7. profiles' \in [DOMAIN profiles -> Profile]
  BY <1>4, <1>5, <1>6
<1>8. Named(name) \subseteq {k} /\ NamesUnique => NamesUnique'
  BY <1>2, <1>4, <1>6 DEF NamesUnique, Named
<1>. QED BY <1>2, <1>4, <1>6, <1>7, <1>8 DEF TypeOK, ProfilesOK

\* A rule more or less leaves active rules.
LEMMA DropType ==
    ASSUME NEW rules \in ActiveRules, NEW r
    PROVE  Drop(rules, r) \in ActiveRules
<1>1. DOMAIN rules \subseteq Rules /\ rules \in [DOMAIN rules -> Active]
  BY ActiveRulesType
<1>. DEFINE less == Restrict(rules, DOMAIN rules \ {r})
<1>2. less \in [DOMAIN rules \ {r} -> Active] /\ DOMAIN less = DOMAIN rules \ {r}
  BY <1>1, RestrictType
<1>. HIDE DEF less
<1>3. less \in ActiveRules
  BY <1>1, <1>2, ActiveRulesType
<1>. QED BY <1>3 DEF less, Drop

LEMMA PutRuleType ==
    ASSUME NEW rules \in ActiveRules, NEW r \in Rules, NEW o \in Active
    PROVE  Put(rules, r, o) \in ActiveRules
<1>1. DOMAIN rules \subseteq Rules /\ rules \in [DOMAIN rules -> Active]
  BY ActiveRulesType
<1>. DEFINE more == Put(rules, r, o)
<1>2. more \in [DOMAIN rules \cup {r} -> Active] /\ DOMAIN more = DOMAIN rules \cup {r}
  BY <1>1 DEF Put
<1>. HIDE DEF more
<1>3. more \in ActiveRules
  BY <1>1, <1>2, ActiveRulesType
<1>. QED BY <1>3 DEF more

----------------------------------------------------------------------------
(* Type correctness.                                                        *)

LEMMA InitType == Init => TypeOK
<1>. SUFFICES ASSUME Init PROVE TypeOK
  OBVIOUS
<1>1. PICK want \in [MRs -> UNION {Wants[c] : c \in MRs}], ext \in [MRs -> Keys \cup {NoKey}] :
          /\ \A c \in MRs : want[c] \in Wants[c] /\ ext[c] \in InitExt[c]
          /\ mr = [c \in MRs |-> [NoObject EXCEPT !.ext = ext[c], !.name = want[c].name,
                       !.default = want[c].default, !.rules = want[c].rules]]
  BY DEF Init
<1>2. \A c \in MRs : want[c] \in Desired
  BY <1>1, ProfileAssumption
<1>3. NoObject \in Object
  BY NoRulesType, ProfileAssumption DEF NoObject, Object
<1>4. mr \in [MRs -> Object]
  BY <1>1, <1>2, <1>3 DEF Object, Desired
<1>5. mem \in [MRs -> Object]
  BY <1>3 DEF Init
<1>6. todo \in [MRs -> Todo] /\ verdict \in [MRs -> Verdict]
  BY DEF Init, NoTodo, Todo, Absent, Verdict
<1>7. budget \in Budget
  BY ProfileAssumption DEF Init, Budget
<1>8. ProfilesOK
  <2>1. PICK S \in SUBSET Starts :
          profiles = [k \in {BuiltIn} \cup {p.key : p \in S} |->
                IF k = BuiltIn THEN [name |-> BuiltInName, rules |-> NoRules, by |-> Nil]
                ELSE LET p == CHOOSE q \in S : q.key = k
                     IN  [name |-> p.name, rules |-> p.rules, by |-> Nil]]
    BY DEF Init
  <2>2. \A p \in S : p.key \in Keys /\ p.name \in Names /\ p.rules \in ActiveRules
    BY ProfileAssumption
  <2>3. [name |-> BuiltInName, rules |-> NoRules, by |-> Nil] \in Profile
    BY NoRulesType, ProfileAssumption DEF Profile
  <2>4. \A p \in S : [name |-> p.name, rules |-> p.rules, by |-> Nil] \in Profile
    BY <2>2 DEF Profile
  <2>5. \A k \in {p.key : p \in S} : (CHOOSE q \in S : q.key = k) \in S
    OBVIOUS
  <2>6. DOMAIN profiles = {BuiltIn} \cup {p.key : p \in S}
    BY <2>1
  <2>7. \A k \in DOMAIN profiles : profiles[k] \in Profile
    BY <2>1, <2>3, <2>4, <2>5
  <2>8. profiles \in [DOMAIN profiles -> Profile]
    BY <2>1, <2>7
  <2>. QED BY <2>2, <2>6, <2>8, ProfileAssumption DEF ProfilesOK
<1>. QED BY <1>4, <1>5, <1>6, <1>7, <1>8, ProfileAssumption DEF Init, TypeOK, ProfilesOK, PCs

\* What a fault leaves of the budget.
LEMMA FaultType ==
    ASSUME TypeOK, NEW call, Fault(call) \/ UNCHANGED budget
    PROVE  budget' \in Budget
BY DEF TypeOK, Fault, Budget

LEMMA RefusesType ==
    ASSUME TypeOK, NEW ok, NEW call, Refuses(ok, call)
    PROVE  budget' \in Budget
BY FaultType DEF Refuses

\* The end of a reconcile keeps the workers' types.
LEMMA ForgetType ==
    ASSUME TypeOK, NEW c \in MRs, Forget(c)
    PROVE  /\ pc' \in [MRs -> PCs] /\ mem' \in [MRs -> Object]
           /\ stale' \in [MRs -> BOOLEAN] /\ verdict' \in [MRs -> Verdict]
           /\ todo' \in [MRs -> Todo]
<1>1. NoObject \in Object
  BY NoRulesType, ProfileAssumption DEF NoObject, Object
<1>2. Absent \in Verdict /\ NoTodo \in Todo
  BY DEF Absent, Verdict, NoTodo, Todo
<1>. QED BY <1>1, <1>2 DEF TypeOK, Forget, Goto, PCs

Status == [name : Names \cup {NoName}, rules : ActiveRules]

\* What decoding a reply leaves of the copy that was sent.
LEMMA OverlaidType ==
    ASSUME NEW new \in Active, NEW old \in Active, NEW a \in Overlaid(new, old)
    PROVE  a \in Active
BY DEF Overlaid, Active

LEMMA DecodedOverType ==
    ASSUME NEW rules \in ActiveRules, NEW stored \in ActiveRules,
           NEW f \in DecodedOver(rules, stored)
    PROVE  f \in ActiveRules
<1>1. CASE stored \in {NoRules, rules}
  BY <1>1 DEF DecodedOver
<1>2. CASE stored \notin {NoRules, rules}
  <2>1. f \in [DOMAIN stored -> Active]
    BY <1>2 DEF DecodedOver
  <2>. QED BY <2>1, ActiveRulesType
<1>. QED BY <1>1, <1>2

LEMMA DecodeIs ==
    ASSUME NEW sent \in Object, NEW stored \in Object, NEW o \in Decode(sent, stored)
    PROVE  /\ o \in Object
           /\ o.ext = sent.ext /\ o.pending = sent.pending /\ o.final = sent.final
           /\ o.deleting = sent.deleting
<1>1. PICK n \in {stored.seen.name} \cup {x \in {sent.seen.name} : stored.seen.name = NoName},
           rules \in DecodedOver(sent.seen.rules, stored.seen.rules) :
          o = [sent EXCEPT !.seen = [name |-> n, rules |-> rules]]
  BY DEF Decode
<1>2. /\ sent.seen.rules \in ActiveRules /\ stored.seen.rules \in ActiveRules
      /\ sent.seen.name \in Names \cup {NoName} /\ stored.seen.name \in Names \cup {NoName}
  BY DEF Object
<1>3. rules \in ActiveRules /\ n \in Names \cup {NoName}
  BY <1>2, DecodedOverType
<1>. QED BY <1>1, <1>3 DEF Object

\* A write of the whole copy: the record becomes the copy but for the status,
\* and the copy what decoding leaves of it.
LEMMA ClientUpdateIs ==
    ASSUME TypeOK, NEW c \in MRs, NEW object \in Object, ClientUpdate(c, object)
    PROVE  /\ ~stale[c]
           /\ mr' \in [MRs -> Object] /\ mem' \in [MRs -> Object]
           /\ \A o \in {mr'[c], mem'[c]} :
                 /\ o.ext = object.ext /\ o.final = object.final
                 /\ o.pending = object.pending /\ o.deleting = object.deleting
           /\ \A d \in MRs \ {c} : mr'[d] = mr[d] /\ mem'[d] = mem[d]
<1>1. mr[c] \in Object
  BY DEF TypeOK
<1>2. PICK copy \in Decode(object, mr[c]) : mem' = [mem EXCEPT ![c] = copy]
  BY DEF ClientUpdate
<1>3. /\ copy \in Object /\ copy.ext = object.ext /\ copy.pending = object.pending
      /\ copy.final = object.final /\ copy.deleting = object.deleting
  BY <1>1, DecodeIs
<1>4. mem' \in [MRs -> Object] /\ mem'[c] = copy /\ \A d \in MRs \ {c} : mem'[d] = mem[d]
  BY <1>2, <1>3 DEF TypeOK
<1>. DEFINE stored == [object EXCEPT !.seen = mr[c].seen]
<1>5. /\ stored \in Object /\ stored.ext = object.ext /\ stored.pending = object.pending
      /\ stored.final = object.final /\ stored.deleting = object.deleting
  BY <1>1 DEF Object
<1>6. ~stale[c] /\ mr' = [mr EXCEPT ![c] = stored]
  BY DEF ClientUpdate
<1>. HIDE DEF stored
<1>7. mr' \in [MRs -> Object] /\ mr'[c] = stored /\ \A d \in MRs \ {c} : mr'[d] = mr[d]
  BY <1>5, <1>6 DEF TypeOK
<1>. QED BY <1>3, <1>4, <1>5, <1>6, <1>7

LEMMA ContinueType ==
    ASSUME TypeOK, NEW c \in MRs, NEW t \in Todo, Continue(c, t)
    PROVE  todo' \in [MRs -> Todo] /\ pc' \in [MRs -> PCs]
BY DEF TypeOK, Continue, Goto, PCs

LEMMA AfterObserveType == ASSUME NEW v PROVE AfterObserve(v) \in PCs
BY DEF AfterObserve, PCs

LEMMA ObserveReturnsType ==
    ASSUME TypeOK, NEW c \in MRs, NEW v \in Verdict, ObserveReturns(c, v)
    PROVE  pc' \in [MRs -> PCs] /\ verdict' \in [MRs -> Verdict]
BY AfterObserveType DEF TypeOK, ObserveReturns, Goto, PCs

\* SetDefault makes an existing profile the default.
LEMMA SetDefaultType ==
    ASSUME TypeOK, NEW c \in MRs, SetDefaultOk(c) \/ SetDefaultFails(c)
    PROVE  default' \in Keys /\ budget' \in Budget
<1>1. CASE SetDefaultOk(c)
  BY <1>1 DEF SetDefaultOk, Named, TypeOK
<1>2. CASE SetDefaultFails(c)
  BY <1>2, RefusesType DEF SetDefaultFails, TypeOK
<1>. QED BY <1>1, <1>2

\* An activate_rule call, served or not.
LEMMA ActivateType ==
    ASSUME TypeOK, NEW c \in MRs, NEW p \in Params, ActivateServed(c, p)
    PROVE  /\ ProfilesOK' /\ budget' \in Budget
           /\ DOMAIN profiles' = DOMAIN profiles
           /\ \A l \in DOMAIN profiles : /\ profiles'[l].name = profiles[l].name
                                         /\ profiles'[l].by = profiles[l].by
           /\ NamesUnique => NamesUnique'
<1>. DEFINE k == mem[c].ext
<1>1. CASE Activatable(k, p.rule) /\ Activate(k, p) /\ UNCHANGED budget
  <2>1. k \in DOMAIN profiles /\ p.rule \in KnownRules /\ p.rule \in Rules
    BY <1>1 DEF Activatable, Editable, Exists, Params
  <2>. DEFINE rules == profiles[k].rules
              old == IF p.rule \in DOMAIN rules THEN rules[p.rule] ELSE Fresh[p.rule]
  <2>2. rules \in ActiveRules
    BY <2>1 DEF TypeOK, Profile
  <2>3. old \in Active
    BY <2>1, <2>2, ActiveRulesType, ProfileAssumption
  <2>4. SetRules(k, Put(rules, p.rule, Activated(old, ActivateOption(p))))
    BY <1>1 DEF Activate
  <2>. HIDE DEF k, rules, old
  <2>5. Put(rules, p.rule, Activated(old, ActivateOption(p))) \in ActiveRules
    BY <2>1, <2>2, <2>3, ActivatedType, PutRuleType
  <2>6. budget' \in Budget
    BY <1>1 DEF TypeOK
  <2>. QED BY <2>1, <2>4, <2>5, <2>6, SetRulesType
<1>2. CASE Refuses(Activatable(k, p.rule), "ActivateRule") /\ UNCHANGED profiles
  <2>1. budget' \in Budget
    BY <1>2, RefusesType
  <2>. QED BY <1>2, <2>1 DEF TypeOK, ProfilesOK, NamesUnique
<1>. QED BY <1>1, <1>2 DEF ActivateServed

\* Every step of a worker keeps the types.
LEMMA WorkerType ==
    ASSUME TypeOK, NEW c \in MRs, Worker(c)
    PROVE  TypeOK'
<1>a. /\ mem[c] \in Object /\ mr[c] \in Object /\ todo[c] \in Todo
      /\ mem[c].name \in Names /\ mem[c].ext \in Keys \cup {NoKey}
  BY DEF TypeOK, Object
<1>1. CASE Reconcile(c) /\ UNCHANGED sonarVars
  BY <1>1 DEF TypeOK, Reconcile, Goto, PCs, sonarVars
<1>2. CASE ObserveAbsent(c) \/ ObserveFails(c)
  <2>1. budget' \in Budget
    BY <1>2, FaultType, RefusesType DEF ObserveAbsent, ObserveFails
  <2>2. Absent \in Verdict
    BY DEF Absent, Verdict
  <2>3. pc' \in [MRs -> PCs] /\ verdict' \in [MRs -> Verdict]
    BY <1>2, <2>2, ObserveReturnsType DEF ObserveAbsent, ObserveFails, TypeOK, Goto, PCs
  <2>. QED BY <1>2, <2>1, <2>3 DEF TypeOK, ObserveAbsent, ObserveFails, sonarVars, apiVars
<1>3. CASE ObservePresent(c)
  <2>. DEFINE ext   == mem[c].ext
              seen  == [name |-> profiles[ext].name, rules |-> profiles[ext].rules]
              dflt  == AssignIfNil(mem[c].default, default = ext)
              rules == LateInitRules(mem[c].rules, seen.rules)
              late  == dflt # mem[c].default \/ WereRulesLateInitialized(mem[c].rules, rules)
              utd   == IsQualityProfileUpToDate([mem[c] EXCEPT !.default = dflt],
                                                seen, default = ext)
              v     == [exists |-> TRUE, late |-> late, upToDate |-> utd]
  <2>1. profiles[ext] \in Profile
    BY <1>3 DEF ObservePresent, Exists, TypeOK
  <2>2. seen \in Status /\ seen.rules \in ActiveRules
    BY <2>1 DEF Profile, Status
  <2>3. rules \in Seq(Params)
    BY <1>a, <2>2, LateInitType DEF Object
  <2>4. dflt \in BOOLEAN \cup {Nil}
    BY <1>a DEF AssignIfNil, Object
  <2>5. late \in BOOLEAN /\ utd \in BOOLEAN
    BY DEF WereRulesLateInitialized, IsQualityProfileUpToDate, AreRulesUpToDate, PtrEq
  <2>6. v \in Verdict
    BY <2>5 DEF Verdict
  <2>7. /\ mem' = [mem EXCEPT ![c].seen = seen, ![c].default = dflt, ![c].rules = rules]
        /\ ObserveReturns(c, v)
        /\ UNCHANGED <<sonarVars, apiVars, stale, todo, budget>>
    BY <1>3 DEF ObservePresent
  <2>. HIDE DEF seen, dflt, rules, v
  <2>8. [mem[c] EXCEPT !.seen = seen, !.default = dflt, !.rules = rules] \in Object
    BY <1>a, <2>2, <2>3, <2>4 DEF Object, Status
  <2>9. mem' \in [MRs -> Object]
    BY <2>7, <2>8 DEF TypeOK
  <2>10. pc' \in [MRs -> PCs] /\ verdict' \in [MRs -> Verdict]
    BY <2>6, <2>7, ObserveReturnsType
  <2>. QED BY <2>7, <2>9, <2>10 DEF TypeOK, sonarVars, apiVars
<1>4. CASE AddFinalizer(c) /\ UNCHANGED sonarVars
  <2>1. [mem[c] EXCEPT !.final = TRUE] \in Object
    BY <1>a DEF Object
  <2>2. mr' \in [MRs -> Object] /\ mem' \in [MRs -> Object]
    BY <1>4, <2>1, ClientUpdateIs DEF AddFinalizer
  <2>3. pc' \in [MRs -> PCs]
    BY <1>4, AfterObserveType DEF AddFinalizer, Goto, TypeOK
  <2>. QED BY <1>4, <2>2, <2>3 DEF TypeOK, AddFinalizer, sonarVars
<1>5. CASE AnnounceCreate(c) /\ UNCHANGED sonarVars
  <2>1. [mem[c] EXCEPT !.pending = TRUE] \in Object
    BY <1>a DEF Object
  <2>2. mr' \in [MRs -> Object] /\ mem' \in [MRs -> Object]
    BY <1>5, <2>1, ClientUpdateIs DEF AnnounceCreate
  <2>. QED BY <1>5, <2>2 DEF TypeOK, AnnounceCreate, sonarVars, Goto, PCs
<1>6. CASE CreateOk(c)
  <2>1. ProfilesOK' /\ NewKey \in Keys
    BY <1>6, <1>a, MakeType DEF CreateOk
  <2>2. [mem[c] EXCEPT !.ext = NewKey] \in Object
    BY <1>a, <2>1 DEF Object
  <2>3. mem' = [mem EXCEPT ![c] = [mem[c] EXCEPT !.ext = NewKey]]
    BY <1>6 DEF CreateOk, TypeOK
  <2>. QED BY <1>6, <2>1, <2>2, <2>3 DEF TypeOK, ProfilesOK, CreateOk, apiVars, Goto, PCs
<1>7. CASE CreateFails(c)
  <2>1. budget' \in Budget
    BY <1>7, RefusesType DEF CreateFails
  <2>. QED BY <1>7, <2>1 DEF TypeOK, CreateFails, sonarVars, apiVars, Goto, PCs
<1>8. CASE CreateReplyLost(c)
  <2>1. budget' \in Budget
    BY <1>8, FaultType DEF CreateReplyLost
  <2>2. ProfilesOK'
    BY <1>8, <1>a, MakeType DEF CreateReplyLost
  <2>. QED BY <1>8, <2>1, <2>2 DEF TypeOK, ProfilesOK, CreateReplyLost, apiVars, Goto, PCs
<1>9. CASE CreateSetDefault(c)
  <2>1. default' \in Keys /\ budget' \in Budget
    BY <1>9, SetDefaultType DEF CreateSetDefault
  <2>. QED BY <1>9, <2>1 DEF TypeOK, CreateSetDefault, apiVars, Goto, PCs
<1>10. CASE RecordCreate(c) /\ UNCHANGED sonarVars
  <2>1. [mr[c] EXCEPT !.ext = mem[c].ext, !.pending = FALSE] \in Object
    BY <1>a DEF Object
  <2>2. mr' \in {mr, [mr EXCEPT ![c] = [mr[c] EXCEPT !.ext = mem[c].ext, !.pending = FALSE]]}
    BY <1>10 DEF RecordCreate, TypeOK
  <2>. QED BY <1>10, <2>1, <2>2, ForgetType DEF TypeOK, RecordCreate, sonarVars
<1>11. CASE PersistLateInit(c) /\ UNCHANGED sonarVars
  <2>1. mr' \in [MRs -> Object] /\ mem' \in [MRs -> Object]
    BY <1>11, ClientUpdateIs DEF PersistLateInit, TypeOK
  <2>. QED BY <1>11, <2>1 DEF TypeOK, PersistLateInit, sonarVars, Goto, PCs
<1>12. CASE UpdateDefault(c)
  <2>1. default' \in Keys /\ budget' \in Budget
    BY <1>12, SetDefaultType DEF UpdateDefault, TypeOK
  <2>. QED BY <1>12, <2>1 DEF TypeOK, UpdateDefault, apiVars, Goto, PCs
<1>13. CASE UpdateName(c)
  <2>1. Plan(mem[c]) \in Todo
    BY <1>a, PlanType
  <2>2. todo' \in [MRs -> Todo] /\ pc' \in [MRs -> PCs]
    BY <1>13, <2>1, ContinueType DEF UpdateName, TypeOK, Goto, PCs
  <2>3. budget' \in Budget
    BY <1>13, RefusesType, FaultType DEF UpdateName
  <2>4. ProfilesOK'
    BY <1>13, <1>a, SetNameType DEF UpdateName, NewName, Renamable, Exists, TypeOK, ProfilesOK
  <2>. QED BY <1>13, <2>2, <2>3, <2>4 DEF TypeOK, ProfilesOK, UpdateName, apiVars
<1>14. CASE DeactivateRule(c)
  <2>. DEFINE ext == mem[c].ext
  <2>1. PICK r \in todo[c].del :
          /\ \/ /\ Editable(ext)
                /\ SetRules(ext, Drop(profiles[ext].rules, r))
                /\ UNCHANGED budget
             \/ Refuses(Editable(ext), "DeactivateRule") /\ UNCHANGED profiles
          /\ Continue(c, [todo[c] EXCEPT !.del = @ \ {r}])
    BY <1>14 DEF DeactivateRule
  <2>2. r \in Rules /\ [todo[c] EXCEPT !.del = @ \ {r}] \in Todo
    BY <1>a DEF Todo
  <2>3. todo' \in [MRs -> Todo] /\ pc' \in [MRs -> PCs]
    BY <2>1, <2>2, ContinueType
  <2>4. budget' \in Budget
    BY <2>1, RefusesType, FaultType
  <2>5. ProfilesOK'
    <3>1. CASE UNCHANGED profiles
      BY <3>1 DEF TypeOK, ProfilesOK
    <3>2. CASE Editable(ext) /\ SetRules(ext, Drop(profiles[ext].rules, r))
      <4>1. ext \in DOMAIN profiles /\ profiles[ext].rules \in ActiveRules
        BY <3>2 DEF Editable, Exists, TypeOK, Profile
      <4>2. Drop(profiles[ext].rules, r) \in ActiveRules
        BY <2>2, <4>1, DropType
      <4>. QED BY <3>2, <4>1, <4>2, SetRulesType
    <3>. QED BY <2>1, <3>1, <3>2
  <2>. QED BY <1>14, <2>3, <2>4, <2>5 DEF TypeOK, ProfilesOK, DeactivateRule, apiVars
<1>15. CASE ActivateRule(c) \/ UpdateRule(c)
  <2>1. PICK p \in todo[c].act \cup todo[c].upd :
          /\ ActivateServed(c, p)
          /\ \/ Continue(c, [todo[c] EXCEPT !.act = @ \ {p}])
             \/ Continue(c, [todo[c] EXCEPT !.upd = @ \ {p}])
          /\ UNCHANGED <<default, apiVars, mem, stale, verdict>>
    BY <1>15 DEF ActivateRule, UpdateRule
  <2>2. /\ p \in Params
        /\ [todo[c] EXCEPT !.act = @ \ {p}] \in Todo
        /\ [todo[c] EXCEPT !.upd = @ \ {p}] \in Todo
    BY <1>a DEF Todo
  <2>3. todo' \in [MRs -> Todo] /\ pc' \in [MRs -> PCs]
    BY <2>1, <2>2, ContinueType
  <2>4. ProfilesOK' /\ budget' \in Budget
    BY <2>1, <2>2, ActivateType
  <2>. QED BY <2>1, <2>3, <2>4 DEF TypeOK, ProfilesOK, apiVars
<1>16. CASE ReportStatus(c) /\ UNCHANGED sonarVars
  <2>1. [mr[c] EXCEPT !.seen = mem[c].seen] \in Object
    BY <1>a DEF Object
  <2>2. mr' = [mr EXCEPT ![c] = [mr[c] EXCEPT !.seen = mem[c].seen]]
    BY <1>16 DEF ReportStatus, TypeOK
  <2>. QED BY <1>16, <2>1, <2>2, ForgetType DEF TypeOK, ReportStatus, sonarVars
<1>17. CASE Destroy(c)
  <2>1. budget' \in Budget
    BY <1>17, RefusesType, FaultType DEF Destroy
  <2>2. ProfilesOK'
    BY <1>17, GoneType DEF Destroy, TypeOK, ProfilesOK
  <2>. QED BY <1>17, <2>1, <2>2 DEF TypeOK, ProfilesOK, Destroy, apiVars, Goto, PCs
<1>18. CASE RemoveFinalizer(c) /\ UNCHANGED sonarVars
  BY <1>18, ForgetType DEF TypeOK, RemoveFinalizer, sonarVars
<1>19. CASE Conflict(c) /\ UNCHANGED sonarVars
  BY <1>19, ForgetType DEF TypeOK, Conflict, sonarVars
<1>. QED
  BY <1>1, <1>2, <1>3, <1>4, <1>5, <1>6, <1>7, <1>8, <1>9, <1>10, <1>11, <1>12, <1>13,
     <1>14, <1>15, <1>16, <1>17, <1>18, <1>19 DEF Worker, Runtime

\* What an administrator does to the profiles.
AdminKey(k) ==
    \/ AdminDelete(k) \/ AdminSetDefault(k)
    \/ \E name \in Names : AdminRename(k, name)
    \/ \E r \in Rules : AdminActivate(k, r) \/ AdminDeactivate(k, r)

\* Deleting takes the profile alone; the other changes leave whose it is.
LEMMA AdminType ==
    ASSUME TypeOK, NEW k \in Keys, AdminKey(k)
    PROVE  /\ ProfilesOK' /\ default' \in Keys
           /\ budget.admin > 0 /\ budget' = [budget EXCEPT !.admin = @ - 1]
           /\ UNCHANGED <<live, mr, pc, mem, stale, verdict, todo>>
           /\ DOMAIN profiles' \in {DOMAIN profiles, DOMAIN profiles \ {k}}
           /\ \A l \in DOMAIN profiles' : profiles'[l].by = profiles[l].by
           /\ NamesUnique => NamesUnique'
<1>1. CASE AdminDelete(k)
  BY <1>1, GoneType DEF AdminDelete, Admin, Drop, TypeOK
<1>2. CASE AdminSetDefault(k)
  BY <1>2 DEF AdminSetDefault, Admin, TypeOK, ProfilesOK, NamesUnique
<1>3. ASSUME NEW name \in Names, AdminRename(k, name)
      PROVE  /\ ProfilesOK' /\ DOMAIN profiles' = DOMAIN profiles
             /\ \A l \in DOMAIN profiles' : profiles'[l].by = profiles[l].by
             /\ NamesUnique => NamesUnique'
  BY <1>3, SetNameType DEF AdminRename, Editable, Exists
<1>4. ASSUME NEW r \in Rules, AdminActivate(k, r)
      PROVE  /\ ProfilesOK' /\ DOMAIN profiles' = DOMAIN profiles
             /\ \A l \in DOMAIN profiles' : profiles'[l].by = profiles[l].by
             /\ NamesUnique => NamesUnique'
  <2>1. PICK o \in Handmade : SetRules(k, Put(profiles[k].rules, r, o))
    BY <1>4 DEF AdminActivate
  <2>2. k \in DOMAIN profiles /\ profiles[k].rules \in ActiveRules
    BY <1>4 DEF AdminActivate, Activatable, Editable, Exists, TypeOK, Profile
  <2>3. Put(profiles[k].rules, r, o) \in ActiveRules
    BY <2>2, PutRuleType, ProfileAssumption
  <2>. QED BY <2>1, <2>2, <2>3, SetRulesType
<1>5. ASSUME NEW r \in Rules, AdminDeactivate(k, r)
      PROVE  /\ ProfilesOK' /\ DOMAIN profiles' = DOMAIN profiles
             /\ \A l \in DOMAIN profiles' : profiles'[l].by = profiles[l].by
             /\ NamesUnique => NamesUnique'
  <2>1. k \in DOMAIN profiles /\ profiles[k].rules \in ActiveRules
    BY <1>5 DEF AdminDeactivate, Editable, Exists, TypeOK, Profile
  <2>2. Drop(profiles[k].rules, r) \in ActiveRules
    BY <2>1, DropType
  <2>. QED BY <1>5, <2>1, <2>2, SetRulesType DEF AdminDeactivate
<1>6. CASE \/ \E name \in Names : AdminRename(k, name)
           \/ \E r \in Rules : AdminActivate(k, r) \/ AdminDeactivate(k, r)
  <2>1. /\ default' = default
        /\ budget.admin > 0 /\ budget' = [budget EXCEPT !.admin = @ - 1]
        /\ UNCHANGED <<live, mr, pc, mem, stale, verdict, todo>>
    BY <1>6 DEF AdminRename, AdminActivate, AdminDeactivate, Admin
  <2>. QED BY <1>3, <1>4, <1>5, <1>6, <2>1 DEF TypeOK
<1>. QED BY <1>1, <1>2, <1>6 DEF AdminKey

\* The steps of users, administrators and a crash keep the types.
LEMMA UsersType ==
    ASSUME TypeOK, Users \/ Restart
    PROVE  TypeOK'
<1>a. \A c \in MRs : mr[c] \in Object
  BY DEF TypeOK
<1>1. ASSUME NEW c \in MRs, EditSpec(c) PROVE TypeOK'
  <2>. DEFINE Edited(want, rules) ==
                 [mr[c] EXCEPT !.name = want.name, !.rules = rules,
                               !.default = IF want.default = Nil THEN @ ELSE want.default]
  <2>0. PICK want \in Wants[c] :
          \E rules \in {want.rules, KeepFilled(want.rules, mr[c].rules)} :
             mr' = [mr EXCEPT ![c] = Edited(want, rules)]
    BY <1>1 DEF EditSpec, Edit
  <2>1. PICK rules \in {want.rules, KeepFilled(want.rules, mr[c].rules)} :
             mr' = [mr EXCEPT ![c] = Edited(want, rules)]
    BY <2>0
  <2>2. want \in Desired
    BY ProfileAssumption
  <2>3. /\ want.default \in BOOLEAN \cup {Nil} /\ want.rules \in Seq(Params)
        /\ want.name \in Names
    BY <2>2 DEF Desired
  <2>4. mr[c].rules \in Seq(Params)
    BY <1>a DEF Object
  <2>5. rules \in Seq(Params)
    BY <2>1, <2>3, <2>4, KeepFilledType
  <2>6. Edited(want, rules) \in Object
    BY <1>a, <2>3, <2>5 DEF Object
  <2>7. stale' \in [MRs -> BOOLEAN]
    BY <1>1 DEF EditSpec, Edit, Touched, TypeOK
  <2>8. budget' \in Budget
    BY <1>1 DEF EditSpec, Edit, TypeOK, Budget
  <2>. QED BY <1>1, <2>1, <2>6, <2>7, <2>8 DEF TypeOK, EditSpec, Edit, sonarVars
<1>2. ASSUME NEW c \in MRs, DeleteMR(c), UNCHANGED sonarVars PROVE TypeOK'
  <2>1. [mr[c] EXCEPT !.deleting = TRUE] \in Object
    BY <1>a DEF Object
  <2>2. mr' \in {mr, [mr EXCEPT ![c] = [mr[c] EXCEPT !.deleting = TRUE]]}
    BY <1>2 DEF DeleteMR, TypeOK
  <2>3. stale' \in [MRs -> BOOLEAN]
    BY <1>2 DEF DeleteMR, Touched, TypeOK
  <2>. QED BY <1>2, <2>1, <2>2, <2>3 DEF TypeOK, DeleteMR, sonarVars
<1>3. budget.admin > 0 => [budget EXCEPT !.admin = @ - 1] \in Budget
  BY DEF TypeOK, Budget
<1>4. ASSUME NEW name \in Names, AdminMake(name) PROVE TypeOK'
  <2>1. ProfilesOK'
    BY <1>4, MakeType DEF AdminMake
  <2>. QED BY <1>3, <1>4, <2>1 DEF AdminMake, Admin, TypeOK, ProfilesOK
<1>5. ASSUME NEW k \in Keys, AdminKey(k) PROVE TypeOK'
  BY <1>3, <1>5, AdminType DEF TypeOK, ProfilesOK
<1>6. ASSUME Restart PROVE TypeOK'
  <2>1. NoObject \in Object /\ Absent \in Verdict /\ NoTodo \in Todo
    BY NoRulesType, ProfileAssumption DEF NoObject, Object, Absent, Verdict, NoTodo, Todo
  <2>2. budget' \in Budget
    BY <1>6 DEF Restart, Crash, TypeOK, Budget
  <2>. QED BY <1>6, <2>1, <2>2 DEF Restart, Crash, TypeOK, PCs, sonarVars
<1>. QED BY <1>1, <1>2, <1>4, <1>5, <1>6 DEF Users, AdminKey

LEMMA StepType == TypeOK /\ [Next]_vars => TypeOK'
<1>1. ASSUME TypeOK, UNCHANGED vars PROVE TypeOK'
  BY <1>1 DEF TypeOK, vars, sonarVars, apiVars, workerVars
<1>. QED BY <1>1, WorkerType, UsersType DEF Next

\* The variables keep their types: late initialisation, edits in place and the
\* calls planned from them never make up a rule the CRD or SonarQube does not
\* admit, whatever an activate_rule call leaves out.
THEOREM TypeCorrect == Spec => []TypeOK
BY InitType, StepType, PTL DEF Spec

----------------------------------------------------------------------------
(* No profile is leaked, as long as a failed Show means an absent profile.  *)
(* Unlike a gate, a profile whose Create reply is lost is nobody's: without *)
(* the reply there is no key to find it by.                                 *)

ReliableShow == "Show" \notin FaultyCalls

LEMMA InitTracking == Init => TrackingInv
<1>. SUFFICES ASSUME Init, NEW c \in MRs PROVE Tracked(c)
  BY DEF TrackingInv
<1>1. pc[c] = "idle" /\ \A k \in DOMAIN profiles : profiles[k].by = Nil
  <2>1. PICK S \in SUBSET Starts :
          profiles = [k \in {BuiltIn} \cup {p.key : p \in S} |->
                IF k = BuiltIn THEN [name |-> BuiltInName, rules |-> NoRules, by |-> Nil]
                ELSE LET p == CHOOSE q \in S : q.key = k
                     IN  [name |-> p.name, rules |-> p.rules, by |-> Nil]]
    BY DEF Init
  <2>2. \A k \in DOMAIN profiles : profiles[k].by = Nil
    BY <2>1
  <2>. QED BY <2>2 DEF Init
<1>2. c # Nil
  BY ProfileAssumption
<1>. QED BY <1>1, <1>2 DEF Tracked

\* No MR but c gets a profile.
NoOtherGains(c) ==
    \A d \in MRs \ {c} : \A k \in DOMAIN profiles' :
        profiles'[k].by = d => k \in DOMAIN profiles /\ profiles[k].by = d

\* A step that concerns c alone has to be checked for c alone.
LEMMA LocalStep ==
    ASSUME TypeOK, TrackingInv, NEW c \in MRs, Tracked(c)', NoOtherGains(c),
           \A d \in MRs \ {c} :
               /\ mr'[d] = mr[d] /\ mem'[d] = mem[d] /\ pc'[d] = pc[d]
               /\ stale'[d] = stale[d] /\ verdict'[d] = verdict[d]
               /\ d \in live' <=> d \in live
    PROVE  TrackingInv'
BY DEF NoOtherGains, TrackingInv, Tracked, CopyAgrees, ProfileHeld, HasNoProfile, Creating

\* What the steps of Update and Destroy have in common: they leave the copy as
\* it is, and who made which profile.
LEMMA UpdateSteps ==
    ASSUME TypeOK, NEW c \in MRs,
           \/ UpdateDefault(c) \/ UpdateName(c) \/ DeactivateRule(c)
           \/ ActivateRule(c) \/ UpdateRule(c) \/ Destroy(c)
    PROVE  /\ pc[c] \in {"update", "rename", "sync", "destroy"}
           /\ pc'[c] \in {"report", "rename", "sync"}
           /\ \A d \in MRs \ {c} : pc'[d] = pc[d]
           /\ UNCHANGED <<apiVars, mem, stale, verdict>>
           /\ DOMAIN profiles' \subseteq DOMAIN profiles
           /\ \A k \in DOMAIN profiles' : profiles'[k].by = profiles[k].by
           /\ UNCHANGED budget \/ \E call \in Calls : Fault(call)
           /\ ~Destroy(c) => DOMAIN profiles' = DOMAIN profiles
           /\ NamesUnique => NamesUnique'
<1>a. mem[c].name \in Names /\ todo[c] \in Todo /\ pc \in [MRs -> PCs]
  BY DEF TypeOK, Object
<1>1. CASE UpdateDefault(c)
  BY <1>1, <1>a DEF UpdateDefault, SetDefaultOk, SetDefaultFails, Refuses, Goto, Calls, Destroy,
                   NamesUnique
<1>2. CASE UpdateName(c)
  <2>1. /\ pc[c] = "rename" /\ UNCHANGED <<apiVars, mem, stale, verdict>>
        /\ pc' \in {[pc EXCEPT ![c] = l] : l \in {"report", "sync"}}
        /\ UNCHANGED budget \/ \E call \in Calls : Fault(call)
    BY <1>2 DEF UpdateName, Continue, Goto, Refuses, Calls
  <2>2. /\ DOMAIN profiles' = DOMAIN profiles
        /\ \A k \in DOMAIN profiles' : profiles'[k].by = profiles[k].by
        /\ NamesUnique => NamesUnique'
    BY <1>2, <1>a, SetNameType DEF UpdateName, NewName, Renamable, Exists, NamesUnique
  <2>. QED BY <1>a, <2>1, <2>2 DEF Destroy
<1>3. CASE DeactivateRule(c)
  <2>. DEFINE ext == mem[c].ext
  <2>1. PICK r \in todo[c].del :
          /\ \/ /\ Editable(ext)
                /\ SetRules(ext, Drop(profiles[ext].rules, r))
                /\ UNCHANGED budget
             \/ Refuses(Editable(ext), "DeactivateRule") /\ UNCHANGED profiles
          /\ Continue(c, [todo[c] EXCEPT !.del = @ \ {r}])
    BY <1>3 DEF DeactivateRule
  <2>2. /\ pc[c] = "sync" /\ UNCHANGED <<apiVars, mem, stale, verdict>>
        /\ pc' \in {[pc EXCEPT ![c] = l] : l \in {"report", "sync"}}
        /\ UNCHANGED budget \/ \E call \in Calls : Fault(call)
    BY <1>3, <2>1 DEF DeactivateRule, Continue, Goto, Refuses, Calls
  <2>3. CASE UNCHANGED profiles
    BY <1>a, <2>2, <2>3 DEF Destroy, NamesUnique
  <2>4. CASE Editable(ext) /\ SetRules(ext, Drop(profiles[ext].rules, r))
    <3>1. ext \in DOMAIN profiles /\ profiles[ext].rules \in ActiveRules
      BY <2>4 DEF Editable, Exists, TypeOK, Profile
    <3>2. Drop(profiles[ext].rules, r) \in ActiveRules
      BY <3>1, DropType
    <3>3. /\ DOMAIN profiles' = DOMAIN profiles
          /\ \A k \in DOMAIN profiles' : profiles'[k].by = profiles[k].by
          /\ NamesUnique => NamesUnique'
      BY <2>4, <3>1, <3>2, SetRulesType
    <3>. QED BY <1>a, <2>2, <3>3 DEF Destroy
  <2>. QED BY <2>1, <2>3, <2>4
<1>4. CASE ActivateRule(c) \/ UpdateRule(c)
  <2>1. PICK p \in todo[c].act \cup todo[c].upd :
          /\ ActivateServed(c, p)
          /\ \/ Continue(c, [todo[c] EXCEPT !.act = @ \ {p}])
             \/ Continue(c, [todo[c] EXCEPT !.upd = @ \ {p}])
    BY <1>4 DEF ActivateRule, UpdateRule
  <2>2. p \in Params
    BY <1>a DEF Todo
  <2>3. /\ pc[c] = "sync" /\ UNCHANGED <<apiVars, mem, stale, verdict>>
        /\ pc' \in {[pc EXCEPT ![c] = l] : l \in {"report", "sync"}}
        /\ UNCHANGED budget \/ \E call \in Calls : Fault(call)
    BY <1>4, <2>1 DEF ActivateRule, UpdateRule, ActivateServed, Continue, Goto, Refuses, Calls
  <2>. QED BY <1>a, <2>1, <2>2, <2>3, ActivateType DEF Destroy
<1>5. CASE Destroy(c)
  <2>1. /\ pc[c] = "destroy" /\ pc' = [pc EXCEPT ![c] = "report"]
        /\ UNCHANGED <<apiVars, mem, stale, verdict>>
        /\ UNCHANGED budget \/ \E call \in Calls : Fault(call)
    BY <1>5 DEF Destroy, Goto, Refuses, Calls
  <2>2. /\ DOMAIN profiles' \subseteq DOMAIN profiles
        /\ \A k \in DOMAIN profiles' : profiles'[k].by = profiles[k].by
        /\ NamesUnique => NamesUnique'
    BY <1>5, GoneType DEF Destroy, NamesUnique
  <2>. QED BY <1>a, <1>5, <2>1, <2>2
<1>. QED BY <1>1, <1>2, <1>3, <1>4, <1>5

\* The steps of a worker.
LEMMA WorkerTracking ==
    ASSUME ReliableShow, TypeOK, TrackingInv, NEW c \in MRs, Worker(c)
    PROVE  TrackingInv'
<1>a. /\ mem[c] \in Object /\ mr[c] \in Object /\ verdict[c] \in Verdict
      /\ pc \in [MRs -> PCs] /\ mem \in [MRs -> Object] /\ mr \in [MRs -> Object]
      /\ mem[c].name \in Names /\ c # Nil
  BY ProfileAssumption DEF TypeOK, Object
<1>b. Tracked(c)
  BY DEF TrackingInv
<1>c. UNCHANGED profiles => NoOtherGains(c)
  BY DEF NoOtherGains
<1>. USE <1>a, <1>b, <1>c
<1>1. CASE Reconcile(c) /\ UNCHANGED sonarVars
  <2>1. Tracked(c)'
    BY <1>1 DEF Reconcile, Goto, Tracked, CopyAgrees, ProfileHeld, HasNoProfile, Creating,
                TypeOK, sonarVars
  <2>. QED BY <1>1, <2>1, LocalStep DEF Reconcile, Goto, TypeOK, sonarVars
<1>2. CASE ObserveAbsent(c)
  <2>1. mem[c].ext \notin DOMAIN profiles
    BY <1>2 DEF ObserveAbsent, Refuses, Exists, Fault, ReliableShow
  <2>2. mem[c].ext = mr[c].ext /\ ~mr[c].pending
    BY <1>2 DEF ObserveAbsent, Tracked, CopyAgrees, Creating
  <2>3. \A k \in DOMAIN profiles : profiles[k].by # c
    BY <2>1, <2>2 DEF Tracked, ProfileHeld
  <2>4. pc'[c] \in {"unfinalize", "pending", "finalize"} /\ (pc'[c] = "pending" => mem[c].final)
    BY <1>2 DEF ObserveAbsent, ObserveReturns, Goto, AfterObserve, Absent, TypeOK
  <2>5. Tracked(c)'
    BY <1>2, <2>2, <2>3, <2>4 DEF ObserveAbsent, ObserveReturns, Goto, Tracked, CopyAgrees,
                Creating, TypeOK, sonarVars, apiVars
  <2>. QED BY <1>2, <2>5, LocalStep DEF ObserveAbsent, ObserveReturns, Goto, TypeOK, sonarVars, apiVars
<1>3. CASE ObserveFails(c)
  <2>1. Tracked(c)'
    BY <1>3 DEF ObserveFails, Goto, Tracked, CopyAgrees, ProfileHeld, HasNoProfile, Creating,
                sonarVars, apiVars
  <2>. QED BY <1>3, <2>1, LocalStep DEF ObserveFails, Goto, sonarVars, apiVars
<1>4. CASE ObservePresent(c)
  <2>1. /\ mem'[c].ext = mem[c].ext /\ mem'[c].final = mem[c].final
        /\ mem'[c].pending = mem[c].pending
    BY <1>4 DEF ObservePresent, Object
  <2>2. \/ pc'[c] = "destroy"
        \/ pc'[c] \in {"persist", "report", "update"} /\ mem[c].final
        \/ pc'[c] = "finalize" /\ verdict'[c].exists
    BY <1>4 DEF ObservePresent, ObserveReturns, Goto, AfterObserve, TypeOK
  <2>3. pc[c] = "observe" /\ UNCHANGED <<profiles, live, mr, stale>>
    BY <1>4 DEF ObservePresent, sonarVars, apiVars
  <2>4. Tracked(c)'
    BY <2>1, <2>2, <2>3 DEF Tracked, CopyAgrees, ProfileHeld, HasNoProfile, Creating
  <2>5. \A d \in MRs \ {c} : mem'[d] = mem[d] /\ pc'[d] = pc[d] /\ verdict'[d] = verdict[d]
    BY <1>4 DEF ObservePresent, ObserveReturns, Goto, TypeOK
  <2>. QED BY <2>3, <2>4, <2>5, LocalStep
<1>5. CASE AddFinalizer(c) /\ UNCHANGED sonarVars
  <2>1. /\ mem'[c].ext = mem[c].ext /\ mem'[c].final /\ mem'[c].pending = mem[c].pending
        /\ mr'[c].ext = mem'[c].ext /\ mr'[c].final /\ mr'[c].pending = mem'[c].pending
        /\ ~stale[c]
    <3>. DEFINE object == [mem[c] EXCEPT !.final = TRUE]
    <3>1. object \in Object /\ object.ext = mem[c].ext /\ object.final /\ object.pending = mem[c].pending
      BY DEF TypeOK, Object
    <3>2. ClientUpdate(c, object)
      BY <1>5 DEF AddFinalizer
    <3>. HIDE DEF object
    <3>. QED BY <3>1, <3>2, ClientUpdateIs
  <2>2. \/ pc'[c] = "pending" /\ ~verdict[c].exists
        \/ pc'[c] \in {"persist", "report", "update"}
    BY <1>5 DEF AddFinalizer, Goto, AfterObserve, TypeOK
  <2>3. Tracked(c)'
    BY <1>5, <2>1, <2>2 DEF AddFinalizer, Tracked, CopyAgrees, ProfileHeld, HasNoProfile,
                Creating, TypeOK, sonarVars
  <2>. QED BY <1>5, <2>3, LocalStep DEF AddFinalizer, ClientUpdate, Goto, TypeOK, sonarVars
<1>6. CASE AnnounceCreate(c) /\ UNCHANGED sonarVars
  <2>1. /\ mem'[c].ext = mem[c].ext /\ mem'[c].final = mem[c].final /\ mem'[c].pending
        /\ mr'[c].ext = mem'[c].ext /\ mr'[c].final = mem'[c].final /\ mr'[c].pending
        /\ ~stale[c] /\ pc'[c] = "create"
    <3>. DEFINE object == [mem[c] EXCEPT !.pending = TRUE]
    <3>1. object \in Object /\ object.ext = mem[c].ext /\ object.final = mem[c].final /\ object.pending
      BY DEF TypeOK, Object
    <3>2. ClientUpdate(c, object) /\ pc'[c] = "create"
      BY <1>6 DEF AnnounceCreate, Goto, TypeOK
    <3>. HIDE DEF object
    <3>. QED BY <3>1, <3>2, ClientUpdateIs
  <2>2. Tracked(c)'
    BY <1>6, <2>1 DEF AnnounceCreate, Tracked, CopyAgrees, ProfileHeld, HasNoProfile, Creating,
                TypeOK, sonarVars
  <2>. QED BY <1>6, <2>2, LocalStep DEF AnnounceCreate, ClientUpdate, Goto, TypeOK, sonarVars
<1>7. CASE CreateOk(c)
  <2>1. /\ DOMAIN profiles' = DOMAIN profiles \cup {NewKey}
        /\ profiles'[NewKey].by = c
        /\ \A k \in DOMAIN profiles : profiles'[k].by = profiles[k].by
    BY <1>7, MakeType DEF CreateOk
  <2>2. /\ mem'[c].ext = NewKey /\ mem'[c].final = mem[c].final
        /\ mem'[c].pending = mem[c].pending
        /\ pc[c] = "create" /\ pc'[c] \in {"createDefault", "record"}
        /\ UNCHANGED <<live, mr, stale, verdict>>
    BY <1>7 DEF CreateOk, Goto, Object, apiVars
  <2>3. \A k \in DOMAIN profiles : profiles[k].by # c
    BY <2>2 DEF Tracked, HasNoProfile
  <2>4. Tracked(c)'
    BY <2>1, <2>2, <2>3 DEF Tracked, CopyAgrees, ProfileHeld, HasNoProfile, Creating
  <2>5. NoOtherGains(c)
    BY <2>1 DEF NoOtherGains
  <2>6. \A d \in MRs \ {c} : mem'[d] = mem[d] /\ pc'[d] = pc[d]
    BY <1>7 DEF CreateOk, Goto
  <2>. QED BY <2>2, <2>4, <2>5, <2>6, LocalStep
<1>8. CASE CreateFails(c) \/ CreateReplyLost(c)
  <2>1. /\ DOMAIN profiles' = DOMAIN profiles \/ DOMAIN profiles' = DOMAIN profiles \cup {NewKey}
        /\ \A k \in DOMAIN profiles : profiles'[k].by = profiles[k].by
        /\ \A k \in DOMAIN profiles' \ DOMAIN profiles : profiles'[k].by = Nil
    BY <1>8, MakeType DEF CreateFails, CreateReplyLost, sonarVars
  <2>2. /\ pc[c] = "create" /\ pc' = [pc EXCEPT ![c] = "record"]
        /\ UNCHANGED <<live, mr, mem, stale, verdict>>
    BY <1>8 DEF CreateFails, CreateReplyLost, Goto, apiVars
  <2>3. \A k \in DOMAIN profiles' : profiles'[k].by # c
    BY <2>1, <2>2 DEF Tracked, HasNoProfile
  <2>4. Tracked(c)'
    BY <2>2, <2>3 DEF Tracked, CopyAgrees, Creating
  <2>5. NoOtherGains(c)
    BY <2>1, ProfileAssumption DEF NoOtherGains
  <2>. QED BY <2>2, <2>4, <2>5, LocalStep
<1>9. CASE CreateSetDefault(c)
  <2>1. Tracked(c)'
    BY <1>9 DEF CreateSetDefault, Goto, Tracked, CopyAgrees, ProfileHeld, HasNoProfile, Creating,
                TypeOK, apiVars
  <2>. QED BY <1>9, <2>1, LocalStep DEF CreateSetDefault, Goto, TypeOK, apiVars
<1>10. CASE RecordCreate(c) /\ UNCHANGED sonarVars
  <2>1. c \in live /\ mr[c].final
    BY <1>10 DEF RecordCreate, Tracked, CopyAgrees, Creating
  <2>2. mr'[c].ext = mem[c].ext /\ mr'[c].final /\ pc'[c] = "idle"
    BY <1>10, <2>1 DEF RecordCreate, Forget, Goto, TypeOK, Object
  <2>3. Tracked(c)'
    BY <1>10, <2>1, <2>2 DEF RecordCreate, Tracked, ProfileHeld, HasNoProfile, sonarVars
  <2>. QED BY <1>10, <2>3, LocalStep DEF RecordCreate, Forget, Goto, TypeOK, sonarVars
<1>11. CASE PersistLateInit(c) /\ UNCHANGED sonarVars
  <2>1. /\ mem'[c].ext = mem[c].ext /\ mem'[c].final = mem[c].final
        /\ mem'[c].pending = mem[c].pending
        /\ mr'[c].ext = mem'[c].ext /\ mr'[c].final = mem'[c].final
        /\ mr'[c].pending = mem'[c].pending
        /\ ~stale[c] /\ pc'[c] \in {"report", "update"}
    <3>1. ClientUpdate(c, mem[c]) /\ mem[c] \in Object /\ pc'[c] \in {"report", "update"}
      BY <1>11 DEF PersistLateInit, Goto, TypeOK
    <3>. QED BY <3>1, ClientUpdateIs
  <2>2. Tracked(c)'
    BY <1>11, <2>1 DEF PersistLateInit, Tracked, CopyAgrees, ProfileHeld, HasNoProfile, Creating,
                TypeOK, sonarVars
  <2>. QED BY <1>11, <2>2, LocalStep DEF PersistLateInit, ClientUpdate, Goto, TypeOK, sonarVars
<1>12. CASE \/ UpdateDefault(c) \/ UpdateName(c) \/ DeactivateRule(c)
            \/ ActivateRule(c) \/ UpdateRule(c) \/ Destroy(c)
  <2>1. Tracked(c)'
    BY <1>12, UpdateSteps DEF Tracked, CopyAgrees, ProfileHeld, HasNoProfile, Creating, apiVars
  <2>2. NoOtherGains(c)
    BY <1>12, UpdateSteps DEF NoOtherGains
  <2>. QED BY <1>12, <2>1, <2>2, UpdateSteps, LocalStep DEF apiVars
<1>13. CASE ReportStatus(c) /\ UNCHANGED sonarVars
  <2>1. /\ mr'[c].ext = mr[c].ext /\ mr'[c].final = mr[c].final
        /\ mr'[c].pending = mr[c].pending /\ pc'[c] = "idle"
    BY <1>13 DEF ReportStatus, Forget, Goto, TypeOK, Object
  <2>2. Tracked(c)'
    BY <1>13, <2>1 DEF ReportStatus, Tracked, ProfileHeld, HasNoProfile, sonarVars
  <2>. QED BY <1>13, <2>2, LocalStep DEF ReportStatus, Forget, Goto, TypeOK, sonarVars
<1>14. CASE RemoveFinalizer(c) /\ UNCHANGED sonarVars
  <2>1. \A k \in DOMAIN profiles : profiles[k].by # c
    BY <1>14 DEF RemoveFinalizer, Tracked, HasNoProfile
  <2>2. Tracked(c)'
    BY <1>14, <2>1 DEF RemoveFinalizer, Forget, Goto, Tracked, TypeOK, sonarVars
  <2>. QED BY <1>14, <2>2, LocalStep DEF RemoveFinalizer, Forget, Goto, TypeOK, sonarVars
<1>15. CASE Conflict(c) /\ UNCHANGED sonarVars
  <2>1. Tracked(c)'
    BY <1>15 DEF Conflict, Forget, Goto, Tracked, ProfileHeld, HasNoProfile, TypeOK, sonarVars
  <2>. QED BY <1>15, <2>1, LocalStep DEF Conflict, Forget, Goto, TypeOK, sonarVars
<1>. QED
  BY <1>1, <1>2, <1>3, <1>4, <1>5, <1>6, <1>7, <1>8, <1>9, <1>10, <1>11, <1>12, <1>13,
     <1>14, <1>15 DEF Worker, Runtime

\* The steps of users, administrators and of a crash.
LEMMA UsersTracking ==
    ASSUME TypeOK, TrackingInv, Users \/ Restart
    PROVE  TrackingInv'
<1>a. \A c \in MRs : mr[c] \in Object /\ c # Nil /\ Tracked(c)
  BY ProfileAssumption DEF TypeOK, TrackingInv
<1>1. ASSUME NEW c \in MRs, EditSpec(c) PROVE TrackingInv'
  <2>1. /\ mr'[c].ext = mr[c].ext /\ mr'[c].final = mr[c].final
        /\ mr'[c].pending = mr[c].pending
    BY <1>1, <1>a DEF EditSpec, Edit, TypeOK, Object
  <2>2. \A d \in MRs \ {c} : mr'[d] = mr[d] /\ stale'[d] = stale[d]
    BY <1>1 DEF EditSpec, Edit, Touched, TypeOK
  <2>3. /\ UNCHANGED <<profiles, live, pc, mem, verdict>>
        /\ c \in live /\ stale'[c] = (pc[c] # "idle")
    BY <1>1 DEF EditSpec, Edit, Touched, TypeOK, sonarVars
  <2>4. Tracked(c)'
    BY <1>a, <2>1, <2>3 DEF Tracked, CopyAgrees, ProfileHeld, HasNoProfile, Creating
  <2>. QED BY <2>2, <2>3, <2>4, LocalStep DEF NoOtherGains
<1>2. ASSUME NEW c \in MRs, DeleteMR(c), UNCHANGED sonarVars PROVE TrackingInv'
  <2>1. /\ mr'[c].ext = mr[c].ext /\ mr'[c].final = mr[c].final
        /\ mr'[c].pending = mr[c].pending
    BY <1>2, <1>a DEF DeleteMR, TypeOK, Object
  <2>2. \A d \in MRs \ {c} : mr'[d] = mr[d] /\ stale'[d] = stale[d] /\ (d \in live' <=> d \in live)
    BY <1>2 DEF DeleteMR, Touched, TypeOK
  <2>3. /\ UNCHANGED <<profiles, pc, mem, verdict>>
        /\ stale'[c] = (pc[c] # "idle") /\ (mr[c].final => c \in live')
    BY <1>2 DEF DeleteMR, Touched, TypeOK, sonarVars
  <2>4. Tracked(c)'
    BY <1>a, <2>1, <2>3 DEF Tracked, CopyAgrees, ProfileHeld, HasNoProfile, Creating
  <2>. QED BY <2>2, <2>3, <2>4, LocalStep DEF NoOtherGains
<1>3. ASSUME UNCHANGED <<live, mr, pc, mem, stale, verdict>>,
             \A d \in MRs, k \in DOMAIN profiles' :
                 profiles'[k].by = d => k \in DOMAIN profiles /\ profiles[k].by = d
      PROVE  TrackingInv'
  BY <1>3 DEF TrackingInv, Tracked, CopyAgrees, ProfileHeld, HasNoProfile, Creating
<1>4. ASSUME NEW name \in Names, AdminMake(name) PROVE TrackingInv'
  <2>1. /\ DOMAIN profiles' = DOMAIN profiles \cup {NewKey} /\ profiles'[NewKey].by = Nil
        /\ \A k \in DOMAIN profiles : profiles'[k] = profiles[k]
    BY <1>4, MakeType DEF AdminMake
  <2>. QED BY <1>3, <1>4, <1>a, <2>1 DEF AdminMake, Admin
<1>5. ASSUME NEW k \in Keys, AdminKey(k) PROVE TrackingInv'
  BY <1>3, <1>5, AdminType
<1>6. ASSUME Restart PROVE TrackingInv'
  BY <1>6, <1>a DEF Restart, Crash, sonarVars, TrackingInv, Tracked, ProfileHeld, HasNoProfile
<1>. QED BY <1>1, <1>2, <1>4, <1>5, <1>6 DEF Users, AdminKey

LEMMA StepTracking ==
    ASSUME ReliableShow
    PROVE  TypeOK /\ TrackingInv /\ [Next]_vars => TrackingInv'
<1>1. ASSUME TrackingInv, UNCHANGED vars PROVE TrackingInv'
  BY <1>1 DEF vars, sonarVars, apiVars, workerVars, TrackingInv, Tracked, CopyAgrees,
              ProfileHeld, HasNoProfile, Creating
<1>. QED BY <1>1, WorkerTracking, UsersTracking DEF Next

\* Whatever conflicts, failures, crashes and hands interfere, a profile whose
\* key Create returned stays reachable from its MR, by that key or through the
\* announced creation: deleting the MR cannot leave it behind.
THEOREM CreatedProfilesStayTracked ==
    ASSUME ReliableShow
    PROVE  Spec => []CreatedProfilesTracked
<1>1. TrackingInv => CreatedProfilesTracked
  BY DEF TrackingInv, Tracked, ProfileHeld, CreatedProfilesTracked
<1>2. Spec => []TrackingInv
  BY InitTracking, StepTracking, TypeCorrect, PTL DEF Spec
<1>. QED BY <1>1, <1>2, PTL

----------------------------------------------------------------------------
(* The controller implements ResourceLife: a step of its own, of a user or  *)
(* of an administrator is a step of ResourceLife or changes nothing there.   *)
(* First, LeavingInv is inductive.                                          *)

LEMMA InitLeaving == Init => LeavingInv
<1>. SUFFICES ASSUME Init PROVE LeavingInv
  OBVIOUS
<1>1. PICK S \in SUBSET Starts :
          /\ \A p, q \in S : p # q => p.key # q.key /\ p.name # q.name
          /\ profiles = [k \in {BuiltIn} \cup {p.key : p \in S} |->
                IF k = BuiltIn THEN [name |-> BuiltInName, rules |-> NoRules, by |-> Nil]
                ELSE LET p == CHOOSE q \in S : q.key = k
                     IN  [name |-> p.name, rules |-> p.rules, by |-> Nil]]
  BY DEF Init
<1>. DEFINE Start(k) == CHOOSE q \in S : q.key = k
<1>2. \A k \in DOMAIN profiles \ {BuiltIn} :
          /\ Start(k) \in S /\ Start(k).key = k
          /\ profiles[k].name = Start(k).name /\ Start(k).name # BuiltInName
  <2>1. \A p \in S : p.name # BuiltInName
    BY ProfileAssumption
  <2>. QED BY <1>1, <2>1
<1>3. BuiltIn \in DOMAIN profiles /\ profiles[BuiltIn].name = BuiltInName
  BY <1>1
<1>. HIDE DEF Start
<1>4. NamesUnique
  <2>. SUFFICES ASSUME NEW k \in DOMAIN profiles, NEW l \in DOMAIN profiles,
                       profiles[k].name = profiles[l].name
                PROVE  k = l
    BY DEF NamesUnique
  <2>1. CASE k # BuiltIn /\ l # BuiltIn
    <3>1. Start(k).name = Start(l).name
      BY <1>2, <2>1
    <3>2. Start(k) = Start(l)
      BY <1>1, <1>2, <2>1, <3>1
    <3>. QED BY <1>2, <2>1, <3>2
  <2>. QED BY <1>2, <1>3, <2>1
<1>. QED BY <1>4 DEF Init, LeavingInv, LeavingOK

\* A step that concerns c alone has to be checked for c alone.
LEMMA LocalLeaving ==
    ASSUME LeavingInv, NamesUnique', NEW c \in MRs, LeavingOK(c)',
           \A d \in MRs \ {c} :
               /\ mr'[d] = mr[d] /\ mem'[d] = mem[d] /\ pc'[d] = pc[d]
               /\ stale'[d] = stale[d]
               /\ d \in live' <=> d \in live
    PROVE  LeavingInv'
BY DEF LeavingInv, LeavingOK

\* The writes of a whole copy, and what they change of it.
Writes(c) == AddFinalizer(c) \/ AnnounceCreate(c) \/ PersistLateInit(c)

LEMMA WritesKeep ==
    ASSUME TypeOK, NEW c \in MRs, Writes(c)
    PROVE  /\ pc[c] \in {"finalize", "pending", "persist"}
           /\ pc'[c] \notin {"idle", "destroy"}
           /\ ~stale[c]
           /\ mr'[c].ext = mem[c].ext /\ mr'[c].deleting = mem[c].deleting
           /\ mem'[c].deleting = mem[c].deleting
           /\ \A d \in MRs \ {c} : mr'[d] = mr[d] /\ mem'[d] = mem[d] /\ pc'[d] = pc[d]
           /\ UNCHANGED <<live, stale, budget>>
<1>a. mem[c] \in Object /\ pc \in [MRs -> PCs]
  BY DEF TypeOK
<1>1. CASE AddFinalizer(c)
  <2>1. /\ [mem[c] EXCEPT !.final = TRUE] \in Object
        /\ [mem[c] EXCEPT !.final = TRUE].ext = mem[c].ext
        /\ [mem[c] EXCEPT !.final = TRUE].deleting = mem[c].deleting
    BY <1>a DEF Object
  <2>2. pc'[c] \notin {"idle", "destroy"}
    BY <1>1, <1>a DEF AddFinalizer, Goto, AfterObserve
  <2>. QED BY <1>1, <1>a, <2>1, <2>2, ClientUpdateIs DEF AddFinalizer, Goto
<1>2. CASE AnnounceCreate(c)
  <2>1. /\ [mem[c] EXCEPT !.pending = TRUE] \in Object
        /\ [mem[c] EXCEPT !.pending = TRUE].ext = mem[c].ext
        /\ [mem[c] EXCEPT !.pending = TRUE].deleting = mem[c].deleting
    BY <1>a DEF Object
  <2>. QED BY <1>2, <1>a, <2>1, ClientUpdateIs DEF AnnounceCreate, Goto
<1>3. CASE PersistLateInit(c)
  BY <1>3, <1>a, ClientUpdateIs DEF PersistLateInit, Goto
<1>. QED BY <1>1, <1>2, <1>3 DEF Writes

LEMMA WorkerLeaving ==
    ASSUME TypeOK, LeavingInv, NEW c \in MRs, Worker(c)
    PROVE  LeavingInv'
<1>a. /\ mem[c] \in Object /\ mr[c] \in Object /\ pc \in [MRs -> PCs]
      /\ stale \in [MRs -> BOOLEAN] /\ mem \in [MRs -> Object] /\ mr \in [MRs -> Object]
      /\ mem[c].name \in Names
  BY DEF TypeOK, Object
<1>b. LeavingOK(c) /\ NamesUnique
  BY DEF LeavingInv
<1>c. UNCHANGED profiles => NamesUnique'
  BY <1>b DEF NamesUnique
<1>1. CASE Reconcile(c) /\ UNCHANGED sonarVars
  <2>1. LeavingOK(c)'
    BY <1>1, <1>a DEF Reconcile, Goto, LeavingOK
  <2>. QED BY <1>1, <1>a, <1>c, <2>1, LocalLeaving DEF Reconcile, Goto, sonarVars
<1>2. CASE ObserveAbsent(c) \/ ObserveFails(c) \/ ObservePresent(c)
  <2>1. /\ mem'[c].deleting = mem[c].deleting /\ pc[c] = "observe"
        /\ pc'[c] = "destroy" => mem[c].deleting
        /\ UNCHANGED <<profiles, apiVars, stale>>
        /\ \A d \in MRs \ {c} : mem'[d] = mem[d] /\ pc'[d] = pc[d]
    <3>1. CASE ObserveAbsent(c) \/ ObserveFails(c)
      BY <3>1, <1>a DEF ObserveAbsent, ObserveFails, ObserveReturns, Goto, AfterObserve, Absent,
                        sonarVars
    <3>2. CASE ObservePresent(c)
      <4>1. /\ pc[c] = "observe" /\ UNCHANGED <<profiles, apiVars, stale>>
            /\ pc'[c] = "destroy" => mem[c].deleting
            /\ \A d \in MRs \ {c} : pc'[d] = pc[d]
        BY <3>2, <1>a DEF ObservePresent, ObserveReturns, Goto, AfterObserve, sonarVars
      <4>2. mem'[c].deleting = mem[c].deleting /\ \A d \in MRs \ {c} : mem'[d] = mem[d]
        BY <3>2, <1>a DEF ObservePresent, Object
      <4>. QED BY <4>1, <4>2
    <3>. QED BY <1>2, <3>1, <3>2
  <2>2. LeavingOK(c)'
    BY <1>b, <2>1 DEF LeavingOK, apiVars
  <2>. QED BY <1>c, <2>1, <2>2, LocalLeaving DEF apiVars
<1>3. CASE Writes(c) /\ UNCHANGED sonarVars
  <2>1. LeavingOK(c)'
    BY <1>3, <1>b, WritesKeep DEF LeavingOK
  <2>. QED BY <1>3, <1>c, <2>1, WritesKeep, LocalLeaving DEF sonarVars
<1>4. CASE CreateOk(c) \/ CreateFails(c) \/ CreateReplyLost(c) \/ CreateSetDefault(c)
  <2>1. /\ pc[c] # "idle"
        /\ pc' \in {[pc EXCEPT ![c] = l] : l \in {"createDefault", "record"}}
        /\ mem' \in {mem, [mem EXCEPT ![c].ext = NewKey]}
        /\ UNCHANGED <<apiVars, stale>>
    BY <1>4 DEF CreateOk, CreateFails, CreateReplyLost, CreateSetDefault, Goto
  <2>2. /\ pc'[c] \notin {"idle", "destroy"} /\ mem'[c].deleting = mem[c].deleting
        /\ \A d \in MRs \ {c} : mem'[d] = mem[d] /\ pc'[d] = pc[d]
    BY <1>a, <2>1 DEF Object
  <2>3. NamesUnique'
    BY <1>4, <1>a, <1>b, <1>c, MakeType
       DEF CreateOk, CreateFails, CreateReplyLost, CreateSetDefault, sonarVars
  <2>4. LeavingOK(c)'
    BY <1>b, <2>1, <2>2 DEF LeavingOK, apiVars
  <2>. QED BY <2>1, <2>2, <2>3, <2>4, LocalLeaving DEF apiVars
<1>5. CASE \/ UpdateDefault(c) \/ UpdateName(c) \/ DeactivateRule(c)
           \/ ActivateRule(c) \/ UpdateRule(c) \/ Destroy(c)
  <2>1. LeavingOK(c)'
    BY <1>5, <1>b, UpdateSteps DEF LeavingOK, apiVars
  <2>. QED BY <1>5, <1>b, <2>1, UpdateSteps, LocalLeaving DEF apiVars
<1>6. CASE /\ RecordCreate(c) \/ ReportStatus(c) \/ RemoveFinalizer(c) \/ Conflict(c)
           /\ UNCHANGED sonarVars
  <2>1. /\ pc'[c] = "idle"
        /\ \A d \in MRs \ {c} : /\ mr'[d] = mr[d] /\ mem'[d] = mem[d] /\ pc'[d] = pc[d]
                                /\ stale'[d] = stale[d] /\ (d \in live' <=> d \in live)
    BY <1>6, <1>a DEF RecordCreate, ReportStatus, RemoveFinalizer, Conflict, Forget, Goto
  <2>2. LeavingOK(c)'
    BY <2>1 DEF LeavingOK
  <2>. QED BY <1>6, <1>c, <2>1, <2>2, LocalLeaving DEF sonarVars
<1>. QED BY <1>1, <1>2, <1>3, <1>4, <1>5, <1>6 DEF Worker, Runtime, Writes

LEMMA UsersLeaving ==
    ASSUME TypeOK, LeavingInv, Users \/ Restart
    PROVE  LeavingInv'
<1>a. /\ pc \in [MRs -> PCs] /\ stale \in [MRs -> BOOLEAN]
      /\ mem \in [MRs -> Object] /\ mr \in [MRs -> Object]
      /\ \A c \in MRs : mr[c] \in Object /\ LeavingOK(c)
      /\ NamesUnique
  BY DEF TypeOK, LeavingInv
<1>b. UNCHANGED profiles => NamesUnique'
  BY <1>a DEF NamesUnique
<1>1. ASSUME NEW c \in MRs, EditSpec(c) PROVE LeavingInv'
  <2>1. /\ mr'[c].deleting = mr[c].deleting /\ UNCHANGED <<profiles, live, pc, mem>>
        /\ stale'[c] = (pc[c] # "idle")
        /\ \A d \in MRs \ {c} : mr'[d] = mr[d] /\ stale'[d] = stale[d]
    BY <1>1, <1>a DEF EditSpec, Edit, Touched, Object, sonarVars
  <2>2. LeavingOK(c)'
    BY <1>a, <2>1 DEF LeavingOK
  <2>. QED BY <1>b, <2>1, <2>2, LocalLeaving
<1>2. ASSUME NEW c \in MRs, DeleteMR(c), UNCHANGED sonarVars PROVE LeavingInv'
  <2>1. /\ ~mr[c].deleting /\ UNCHANGED <<profiles, pc, mem>>
        /\ stale'[c] = (pc[c] # "idle")
        /\ \A d \in MRs \ {c} : mr'[d] = mr[d] /\ stale'[d] = stale[d]
                                /\ (d \in live' <=> d \in live)
    BY <1>2, <1>a DEF DeleteMR, Touched, sonarVars
  <2>2. LeavingOK(c)'
    BY <1>a, <2>1 DEF LeavingOK
  <2>. QED BY <1>b, <2>1, <2>2, LocalLeaving
<1>3. ASSUME NamesUnique', UNCHANGED <<live, mr, pc, mem, stale>> PROVE LeavingInv'
  BY <1>3 DEF LeavingInv, LeavingOK
<1>4. ASSUME NEW name \in Names, AdminMake(name) PROVE LeavingInv'
  BY <1>3, <1>4, <1>a, MakeType DEF AdminMake, Admin
<1>5. ASSUME NEW k \in Keys, AdminKey(k) PROVE LeavingInv'
  BY <1>3, <1>5, <1>a, AdminType
<1>6. ASSUME Restart PROVE LeavingInv'
  BY <1>6, <1>b DEF Restart, Crash, sonarVars, LeavingInv, LeavingOK
<1>. QED BY <1>1, <1>2, <1>4, <1>5, <1>6 DEF Users, AdminKey

LEMMA StepLeaving == TypeOK /\ LeavingInv /\ [Next]_vars => LeavingInv'
<1>1. ASSUME LeavingInv, UNCHANGED vars PROVE LeavingInv'
  BY <1>1 DEF vars, sonarVars, apiVars, workerVars, LeavingInv, LeavingOK, NamesUnique
<1>. QED BY <1>1, WorkerLeaving, UsersLeaving DEF Next

----------------------------------------------------------------------------
(* Every step is one of ResourceLife, or none.                              *)

\* What ResourceLife sees.
Owner == [k \in Keys |-> IF Exists(k) THEN profiles[k].by ELSE Nil]
Seen == <<live, {c \in live : mr[c].deleting}, [c \in MRs |-> mr[c].ext],
          DOMAIN profiles, Owner, budget.admin>>

\* A step that leaves of each object and profile what ResourceLife sees is none
\* there.
LEMMA StepUnseen ==
    ASSUME TypeOK, UNCHANGED live, budget'.admin = budget.admin,
           DOMAIN profiles' = DOMAIN profiles,
           \A k \in DOMAIN profiles' : profiles'[k].by = profiles[k].by,
           \A d \in MRs : mr'[d].ext = mr[d].ext /\ mr'[d].deleting = mr[d].deleting
    PROVE  UNCHANGED Seen
<1>1. {d \in live' : mr'[d].deleting} = {d \in live : mr[d].deleting}
  BY DEF TypeOK
<1>2. [d \in MRs |-> mr'[d].ext] = [d \in MRs |-> mr[d].ext]
  OBVIOUS
<1>3. Owner' = Owner
  BY DEF Owner, Exists
<1>. QED BY <1>1, <1>2, <1>3 DEF Seen

\* A profile that is made has its owner, the others keep theirs.
LEMMA OwnerOfNew ==
    ASSUME TypeOK, NEW name \in Names, NEW by \in MRs \cup {Nil}, Make(name, by)
    PROVE  /\ NewKey \in Keys \ DOMAIN profiles
           /\ DOMAIN profiles' = DOMAIN profiles \cup {NewKey}
           /\ Owner' = [Owner EXCEPT ![NewKey] = by]
           /\ by = Nil => Owner' = Owner
<1>1. /\ NewKey \in Keys \ DOMAIN profiles
      /\ DOMAIN profiles' = DOMAIN profiles \cup {NewKey}
      /\ profiles'[NewKey].by = by
      /\ \A k \in DOMAIN profiles : profiles'[k].by = profiles[k].by
  BY MakeType
<1>2. \A k \in Keys : Owner'[k] = IF k = NewKey THEN by ELSE Owner[k]
  BY <1>1 DEF Owner, Exists
<1>3. Owner'[NewKey] = by /\ Owner[NewKey] = Nil
  BY <1>1 DEF Owner, Exists
<1>4. Owner' = [k \in Keys |-> Owner'[k]] /\ Owner = [k \in Keys |-> Owner[k]]
  BY DEF Owner
<1>. QED BY <1>1, <1>2, <1>3, <1>4

\* A profile that goes leaves no owner.
LEMMA OwnerOfGone ==
    ASSUME TypeOK, NEW k \in DOMAIN profiles,
           DOMAIN profiles' = DOMAIN profiles \ {k},
           \A l \in DOMAIN profiles' : profiles'[l].by = profiles[l].by
    PROVE  Owner' = [Owner EXCEPT ![k] = Nil]
<1>1. \A l \in Keys : Owner'[l] = IF l = k THEN Nil ELSE Owner[l]
  BY DEF Owner, Exists
<1>2. DOMAIN Owner = Keys /\ DOMAIN Owner' = Keys
  BY DEF Owner
<1>3. Owner' = [l \in Keys |-> Owner'[l]]
  BY DEF Owner
<1>. QED BY <1>1, <1>2, <1>3

\* The MRs' profiles in both vocabularies.
LEMMA HasOwn ==
    ASSUME TypeOK, NEW c \in MRs, \A k \in DOMAIN profiles : profiles[k].by # c
    PROVE  Life!Has(c) = {}
BY DEF TypeOK, Life!Has, Exists

LEMMA InitLife == Init => Life!Init
<1>. SUFFICES ASSUME Init PROVE Life!Init
  OBVIOUS
<1>1. \A c \in MRs : ~mr[c].deleting
  <2>1. PICK want \in [MRs -> UNION {Wants[c] : c \in MRs}], ext \in [MRs -> Keys \cup {NoKey}] :
                 mr = [c \in MRs |-> [NoObject EXCEPT !.ext = ext[c],
                            !.name = want[c].name, !.default = want[c].default, !.rules = want[c].rules]]
    BY DEF Init
  <2>. QED BY <2>1 DEF NoObject
<1>2. {c \in live : mr[c].deleting} = {} /\ live = MRs
  BY <1>1 DEF Init
<1>3. DOMAIN profiles \subseteq Keys
  BY InitType DEF TypeOK
<1>4. \A k \in DOMAIN profiles : profiles[k].by = Nil
  <2>1. PICK S \in SUBSET Starts :
          profiles = [k \in {BuiltIn} \cup {p.key : p \in S} |->
                IF k = BuiltIn THEN [name |-> BuiltInName, rules |-> NoRules, by |-> Nil]
                ELSE LET p == CHOOSE q \in S : q.key = k
                     IN  [name |-> p.name, rules |-> p.rules, by |-> Nil]]
    BY DEF Init
  <2>. QED BY <2>1
<1>5. Owner = [k \in Keys |-> Nil]
  BY <1>4 DEF Owner, Exists
<1>6. budget.admin \in Nat
  BY ProfileAssumption DEF Init
<1>. QED BY <1>2, <1>3, <1>5, <1>6 DEF Life!Init, Owner

LEMMA FaultUnseen ==
    ASSUME TypeOK, UNCHANGED budget \/ \E call \in Calls : Fault(call)
    PROVE  budget'.admin = budget.admin
<1>1. budget \in Budget
  BY DEF TypeOK
<1>. QED BY <1>1 DEF Fault, Budget

LEMMA WorkerLife ==
    ASSUME ReliableShow, TypeOK, TrackingInv, LeavingInv, NEW c \in MRs, Worker(c)
    PROVE  Life!Next \/ UNCHANGED Seen
<1>a. /\ mem[c] \in Object /\ mr[c] \in Object /\ live \subseteq MRs
      /\ mr \in [MRs -> Object] /\ mem[c].name \in Names /\ c # Nil
      /\ DOMAIN profiles \subseteq Keys
  BY ProfileAssumption DEF TypeOK, Object
<1>b. LeavingOK(c) /\ Tracked(c) /\ NamesUnique
  BY DEF LeavingInv, TrackingInv
<1>1. CASE (Reconcile(c) \/ Conflict(c)) /\ UNCHANGED sonarVars
  BY <1>1, StepUnseen DEF Reconcile, Conflict, sonarVars
<1>2. CASE ObserveAbsent(c) \/ ObserveFails(c) \/ ObservePresent(c)
           \/ CreateFails(c) \/ CreateSetDefault(c)
  <2>1. /\ UNCHANGED <<profiles, apiVars>>
        /\ UNCHANGED budget \/ \E call \in Calls : Fault(call)
    BY <1>2 DEF ObserveAbsent, ObserveFails, ObservePresent, CreateFails, CreateSetDefault,
                SetDefaultOk, SetDefaultFails, Refuses, sonarVars, Calls
  <2>2. budget'.admin = budget.admin
    BY <2>1, FaultUnseen
  <2>. QED BY <2>1, <2>2, StepUnseen DEF apiVars
<1>3. CASE Writes(c) /\ UNCHANGED sonarVars
  <2>1. mem[c].ext = mr[c].ext
    BY <1>3, <1>b, WritesKeep DEF Tracked, CopyAgrees
  <2>2. mem[c].deleting = mr[c].deleting
    BY <1>3, <1>b, WritesKeep DEF LeavingOK
  <2>3. \A d \in MRs : mr'[d].ext = mr[d].ext /\ mr'[d].deleting = mr[d].deleting
    BY <1>3, <2>1, <2>2, WritesKeep
  <2>. QED BY <1>3, <2>3, WritesKeep, StepUnseen DEF sonarVars
<1>4. CASE CreateOk(c)
  <2>1. c \in live /\ \A k \in DOMAIN profiles : profiles[k].by # c
    BY <1>4, <1>b DEF CreateOk, Tracked, CopyAgrees, HasNoProfile, Creating
  <2>2. Life!Has(c) = {}
    BY <2>1, HasOwn
  <2>3. PICK k \in Keys \ DOMAIN profiles :
          /\ DOMAIN profiles' = DOMAIN profiles \cup {k}
          /\ Owner' = [Owner EXCEPT ![k] = c]
    BY <1>4, <1>a, OwnerOfNew DEF CreateOk
  <2>4. UNCHANGED <<live, mr, budget>>
    BY <1>4 DEF CreateOk, apiVars
  <2>5. Life!Make(c, k)
    BY <2>1, <2>2, <2>3, <2>4 DEF Life!Make, Owner
  <2>. QED BY <2>3, <2>5 DEF Life!Next
<1>5. CASE CreateReplyLost(c)
  <2>1. /\ NewKey \in Keys \ DOMAIN profiles
        /\ DOMAIN profiles' = DOMAIN profiles \cup {NewKey}
        /\ Owner' = Owner
    BY <1>5, <1>a, OwnerOfNew DEF CreateReplyLost
  <2>2. UNCHANGED <<live, mr>> /\ budget'.admin = budget.admin
    BY <1>5, FaultUnseen DEF CreateReplyLost, apiVars, Calls
  <2>3. Life!Stray(NewKey)
    BY <2>1, <2>2 DEF Life!Stray, Owner
  <2>. QED BY <2>1, <2>3 DEF Life!Next
<1>6. CASE RecordCreate(c) /\ UNCHANGED sonarVars
  <2>1. c \in live /\ \A k \in DOMAIN profiles : profiles[k].by = c => k = mem[c].ext
    BY <1>6, <1>b DEF RecordCreate, Tracked, CopyAgrees, Creating
  <2>2. /\ mr'[c].ext = mem[c].ext
        /\ \A d \in MRs \ {c} : mr'[d] = mr[d]
        /\ \A d \in MRs : mr'[d].deleting = mr[d].deleting
        /\ UNCHANGED <<live, budget, profiles>>
    BY <1>6, <1>a, <2>1 DEF RecordCreate, sonarVars, Object
  <2>3. [d \in MRs |-> mr[d].ext]'[c] = mem[c].ext
    BY <2>2
  <2>4. \A d \in MRs \ {c} : [e \in MRs |-> mr[e].ext]'[d] = [e \in MRs |-> mr[e].ext][d]
    BY <2>2
  <2>5. {d \in live : mr[d].deleting}' = {d \in live : mr[d].deleting}
    BY <1>a, <2>2
  <2>6. Life!Has(c) \subseteq {mem[c].ext}
    BY <1>a, <2>1 DEF Life!Has, Exists
  <2>7. Owner' = Owner
    BY <2>2 DEF Owner, Exists
  <2>8. Life!Record(c)
    BY <2>1, <2>2, <2>3, <2>4, <2>5, <2>6, <2>7 DEF Life!Record, Owner
  <2>. QED BY <2>8 DEF Life!Next
<1>7. CASE ReportStatus(c) /\ UNCHANGED sonarVars
  <2>1. \A d \in MRs : mr'[d].ext = mr[d].ext /\ mr'[d].deleting = mr[d].deleting
    BY <1>7, <1>a DEF ReportStatus, Object
  <2>. QED BY <1>7, <2>1, StepUnseen DEF ReportStatus, sonarVars
<1>8. CASE \/ UpdateDefault(c) \/ UpdateName(c) \/ DeactivateRule(c)
           \/ ActivateRule(c) \/ UpdateRule(c) \/ Destroy(c)
  <2>1. /\ UNCHANGED <<live, mr>> /\ budget'.admin = budget.admin
        /\ \A k \in DOMAIN profiles' : profiles'[k].by = profiles[k].by
    BY <1>8, UpdateSteps, FaultUnseen DEF apiVars
  <2>2. CASE DOMAIN profiles' = DOMAIN profiles
    BY <2>1, <2>2, StepUnseen
  <2>3. CASE DOMAIN profiles' # DOMAIN profiles
    <3>1. Destroy(c)
      BY <1>8, <2>3, UpdateSteps
    <3>2. /\ pc[c] = "destroy" /\ Deletable(mem[c].name)
          /\ profiles' = Restrict(profiles, DOMAIN profiles \ Named(mem[c].name))
      BY <2>3, <3>1 DEF Destroy
    <3>3. PICK k \in Named(mem[c].name) : TRUE
      BY <3>2 DEF Deletable
    <3>4. Named(mem[c].name) = {k} /\ k \in DOMAIN profiles
      BY <3>3, <1>b DEF Named, NamesUnique
    <3>5. DOMAIN profiles' = DOMAIN profiles \ {k}
      BY <3>2, <3>4, GoneType
    <3>6. Owner' = [Owner EXCEPT ![k] = Nil]
      BY <2>1, <3>4, <3>5, OwnerOfGone
    <3>7. {d \in live : mr[d].deleting} # {}
      BY <3>2, <1>b DEF LeavingOK
    <3>8. Life!Destroy(k)
      BY <2>1, <3>5, <3>6, <3>7 DEF Life!Destroy, Life!Gone, Owner
    <3>. QED BY <1>a, <3>4, <3>8 DEF Life!Next
  <2>. QED BY <2>2, <2>3
<1>9. CASE RemoveFinalizer(c) /\ UNCHANGED sonarVars
  <2>1. c \in live /\ \A k \in DOMAIN profiles : profiles[k].by # c
    BY <1>9, <1>b DEF RemoveFinalizer, Tracked, CopyAgrees, HasNoProfile
  <2>2. live' = live \ {c} /\ UNCHANGED <<mr, budget, profiles>>
    BY <1>9 DEF RemoveFinalizer, sonarVars
  <2>3. {d \in live : mr[d].deleting}' = {d \in live : mr[d].deleting} \ {c}
    BY <2>2
  <2>4. Life!Has(c) = {} /\ Owner' = Owner
    BY <2>1, <2>2, HasOwn DEF Owner, Exists
  <2>5. Life!Leave(c)
    BY <2>1, <2>2, <2>3, <2>4 DEF Life!Leave, Owner
  <2>. QED BY <2>5 DEF Life!Next
<1>. QED BY <1>1, <1>2, <1>3, <1>4, <1>5, <1>6, <1>7, <1>8, <1>9 DEF Worker, Runtime, Writes

LEMMA UsersLife ==
    ASSUME TypeOK, TrackingInv, Users \/ Restart
    PROVE  Life!Next \/ UNCHANGED Seen
<1>a. /\ live \subseteq MRs /\ mr \in [MRs -> Object] /\ budget \in Budget
      /\ \A c \in MRs : mr[c] \in Object
      /\ DOMAIN profiles \subseteq Keys
  BY DEF TypeOK
<1>1. ASSUME NEW c \in MRs, EditSpec(c) PROVE UNCHANGED Seen
  <2>1. \A d \in MRs : mr'[d].ext = mr[d].ext /\ mr'[d].deleting = mr[d].deleting
    BY <1>1, <1>a DEF EditSpec, Edit, Object
  <2>2. UNCHANGED <<live, profiles>> /\ budget'.admin = budget.admin
    BY <1>1, <1>a DEF EditSpec, Edit, sonarVars, Budget
  <2>. QED BY <2>1, <2>2, StepUnseen
<1>2. ASSUME NEW c \in MRs, DeleteMR(c), UNCHANGED sonarVars PROVE Life!Next
  <2>1. c \in live /\ ~mr[c].deleting /\ UNCHANGED <<profiles, budget>>
    BY <1>2 DEF DeleteMR, sonarVars
  <2>2. Owner' = Owner
    BY <2>1 DEF Owner, Exists
  <2>3. CASE mr[c].final
    <3>1. /\ mr'[c].ext = mr[c].ext /\ mr'[c].deleting
          /\ \A d \in MRs \ {c} : mr'[d] = mr[d]
          /\ UNCHANGED live
      BY <1>2, <1>a, <2>3 DEF DeleteMR, Object
    <3>2. {d \in live : mr[d].deleting}' = {d \in live : mr[d].deleting} \cup {c}
      BY <1>a, <2>1, <3>1
    <3>3. [d \in MRs |-> mr[d].ext]' = [d \in MRs |-> mr[d].ext]
      BY <3>1
    <3>4. Life!Retire(c)
      BY <2>1, <2>2, <3>1, <3>2, <3>3 DEF Life!Retire, Owner
    <3>. QED BY <3>4 DEF Life!Next
  <2>4. CASE ~mr[c].final
    <3>1. live' = live \ {c} /\ UNCHANGED mr
      BY <1>2, <2>4 DEF DeleteMR
    <3>2. Life!Has(c) = {}
      BY <2>4, HasOwn DEF TrackingInv, Tracked, ProfileHeld
    <3>3. {d \in live : mr[d].deleting}' = {d \in live : mr[d].deleting} \ {c}
      BY <3>1
    <3>4. Life!Leave(c)
      BY <2>1, <2>2, <3>1, <3>2, <3>3 DEF Life!Leave, Owner
    <3>. QED BY <3>4 DEF Life!Next
  <2>. QED BY <2>3, <2>4
<1>3. ASSUME NEW name \in Names, AdminMake(name) PROVE Life!Next
  <2>1. /\ NewKey \in Keys \ DOMAIN profiles
        /\ DOMAIN profiles' = DOMAIN profiles \cup {NewKey}
        /\ Owner' = Owner
    BY <1>3, OwnerOfNew DEF AdminMake
  <2>2. /\ budget.admin > 0 /\ budget'.admin = budget.admin - 1
        /\ UNCHANGED <<live, mr>>
    BY <1>3, <1>a DEF AdminMake, Admin, Budget
  <2>3. \E n \in Keys \ DOMAIN profiles : DOMAIN profiles' = DOMAIN profiles \cup {n}
    BY <2>1
  <2>4. Life!ByHand
    BY <2>1, <2>2, <2>3 DEF Life!ByHand, Owner
  <2>. QED BY <2>4 DEF Life!Next
<1>4. ASSUME NEW k \in Keys, AdminKey(k) PROVE Life!Next
  <2>1. /\ budget.admin > 0 /\ budget'.admin = budget.admin - 1
        /\ UNCHANGED <<live, mr>>
        /\ DOMAIN profiles' \in {DOMAIN profiles, DOMAIN profiles \ {k}}
        /\ \A l \in DOMAIN profiles' : profiles'[l].by = profiles[l].by
    BY <1>4, <1>a, AdminType DEF Budget
  <2>2. \/ DOMAIN profiles' = DOMAIN profiles /\ Owner' = Owner
        \/ DOMAIN profiles' = DOMAIN profiles \ {k} /\ Owner' = [Owner EXCEPT ![k] = Nil]
    <3>1. CASE DOMAIN profiles' = DOMAIN profiles
      BY <2>1, <3>1 DEF Owner, Exists
    <3>2. CASE k \in DOMAIN profiles /\ DOMAIN profiles' = DOMAIN profiles \ {k}
      BY <2>1, <3>2, OwnerOfGone
    <3>. QED BY <2>1, <3>1, <3>2
  <2>3. \/ DOMAIN profiles' = DOMAIN profiles /\ Owner' = Owner
        \/ \E n \in Keys : Life!Gone(n)
    BY <2>2 DEF Life!Gone, Owner
  <2>4. Life!ByHand
    BY <2>1, <2>3 DEF Life!ByHand, Owner
  <2>. QED BY <2>4 DEF Life!Next
<1>5. ASSUME Restart PROVE UNCHANGED Seen
  <2>1. budget'.admin = budget.admin /\ UNCHANGED <<live, mr, profiles>>
    BY <1>5, <1>a DEF Restart, Crash, Budget, sonarVars
  <2>. QED BY <2>1, StepUnseen
<1>. QED BY <1>1, <1>2, <1>3, <1>4, <1>5 DEF Users, AdminKey

LEMMA StepLife ==
    ASSUME ReliableShow
    PROVE  TypeOK /\ TrackingInv /\ LeavingInv /\ [Next]_vars => [Life!Next]_(Life!vars)
<1>1. ASSUME UNCHANGED vars PROVE UNCHANGED Seen
  BY <1>1 DEF vars, sonarVars, apiVars, Seen, Owner, Exists
<1>2. UNCHANGED Seen <=> UNCHANGED Life!vars
  BY DEF Seen, Owner, Life!vars
<1>. QED BY <1>1, <1>2, WorkerLife, UsersLife DEF Next

\* The controller keeps what ResourceLife promises, although it creates by a
\* key it does not know before and deletes by a name that may change: it makes
\* at most one profile for an MR, records no other key than that profile's,
\* takes at most one profile, and that only while an MR is being deleted, and
\* lets an MR go only when it has none.
THEOREM ProfilesKeepLife ==
    ASSUME ReliableShow
    PROVE  Spec => KeepsLife
<1>1. Spec => []TrackingInv
  BY InitTracking, StepTracking, TypeCorrect, PTL DEF Spec
<1>2. Spec => []LeavingInv
  BY InitLeaving, StepLeaving, TypeCorrect, PTL DEF Spec
<1>. QED
  BY <1>1, <1>2, InitLife, StepLife, TypeCorrect, PTL DEF Spec, KeepsLife, Life!Spec

----------------------------------------------------------------------------
(* A profile in sync is not touched by Update.                              *)

\* An activate_rule call for a rule that is as desired changes nothing,
\* whatever the option leaves out.
LEMMA ActivatedSame ==
    ASSUME NEW p \in Params, NEW o \in Active, IsRuleUpToDate(p, o)
    PROVE  Activated(o, ActivateOption(p)) = o
<1>1. /\ p.severity \in {Nil, o.severity} /\ p.impacts \in {Nil, o.impacts}
      /\ p.params \in {Nil, o.params} /\ p.prioritized \in {Nil, o.prioritized}
  BY DEF IsRuleUpToDate, PtrEq
<1>2. /\ AssignIfNil(Unless(p.impacts \notin {Nil, Empty}, p.severity), o.severity) = o.severity
      /\ AssignIfNil(Unless(p.impacts = Empty, p.impacts), o.impacts) = o.impacts
      /\ AssignIfNil(Unless(p.params = Empty, p.params), o.params) = o.params
      /\ AssignIfNil(Unless(p.prioritized = FALSE, p.prioritized), o.prioritized) = o.prioritized
  BY <1>1 DEF AssignIfNil, Unless
<1>3. Activated(o, ActivateOption(p)) =
        [severity |-> o.severity, impacts |-> o.impacts, params |-> o.params,
         prioritized |-> o.prioritized]
  BY <1>2 DEF Activated, ActivateOption
<1>. QED BY <1>3 DEF Active

\* The plan takes out nothing the object asks for, and sends what it asks for.
LEMMA PlanAsks ==
    ASSUME NEW object \in Object
    PROVE  /\ Plan(object).del \cap Asked(object.rules) = {}
           /\ \A p \in Plan(object).act \cup Plan(object).upd :
                 p.rule \in Asked(object.rules) /\ p = SpecOf(p.rule, object.rules)
<1>. DEFINE specs == object.rules
            seen == object.seen.rules
<1>1. \A r \in Asked(specs) : SpecOf(r, specs).rule = r
  BY SpecOfType DEF Object
<1>2. FindMissing(specs, seen) \cap Asked(specs) = {}
  BY DEF FindMissing
<1>3. \A p \in FindNonExisting(specs, seen) \cup FindNotUpToDate(specs, seen) :
         p.rule \in Asked(specs) /\ p = SpecOf(p.rule, specs)
  BY <1>1 DEF FindNonExisting, FindNotUpToDate
<1>. QED BY <1>2, <1>3 DEF Plan

\* A step that concerns c alone has to be checked for c alone.
LEMMA LocalPlanned ==
    ASSUME PlanInv, NEW c \in MRs, Planned(c)',
           \A d \in MRs \ {c} : mem'[d] = mem[d] /\ pc'[d] = pc[d] /\ todo'[d] = todo[d]
    PROVE  PlanInv'
BY DEF PlanInv, Planned

\* One call less leaves the others as planned.
LEMMA ContinuePlanned ==
    ASSUME TypeOK, PlanInv, NEW c \in MRs, NEW t \in Todo, Continue(c, t), UNCHANGED mem,
           t.del \cap Asked(mem[c].rules) = {},
           \A p \in t.act \cup t.upd :
               p.rule \in Asked(mem[c].rules) /\ p = SpecOf(p.rule, mem[c].rules)
    PROVE  PlanInv'
<1>1. /\ todo'[c] = t
      /\ \A d \in MRs \ {c} : mem'[d] = mem[d] /\ pc'[d] = pc[d] /\ todo'[d] = todo[d]
  BY DEF Continue, Goto, TypeOK
<1>2. Planned(c)'
  BY <1>1 DEF Planned
<1>. QED BY <1>1, <1>2, LocalPlanned

LEMMA WorkerPlanned ==
    ASSUME TypeOK, PlanInv, NEW c \in MRs, Worker(c)
    PROVE  PlanInv'
<1>a. /\ mem[c] \in Object /\ todo[c] \in Todo /\ pc \in [MRs -> PCs]
      /\ mem \in [MRs -> Object] /\ mr \in [MRs -> Object] /\ todo \in [MRs -> Todo]
  BY DEF TypeOK
<1>b. Planned(c)
  BY DEF PlanInv, Planned
<1>1. ASSUME pc'[c] # "sync",
             \A d \in MRs \ {c} : mem'[d] = mem[d] /\ pc'[d] = pc[d] /\ todo'[d] = todo[d]
      PROVE  PlanInv'
  BY <1>1, LocalPlanned DEF Planned
<1>2. CASE Reconcile(c)
  BY <1>1, <1>2, <1>a DEF Reconcile, Goto
<1>3. CASE ObserveAbsent(c) \/ ObserveFails(c) \/ ObservePresent(c)
  <2>1. /\ pc'[c] # "sync" /\ UNCHANGED todo
        /\ \A d \in MRs \ {c} : pc'[d] = pc[d]
    BY <1>3, <1>a DEF ObserveAbsent, ObserveFails, ObservePresent, ObserveReturns, Goto,
                      AfterObserve
  <2>2. \A d \in MRs \ {c} : mem'[d] = mem[d]
    BY <1>3, <1>a DEF ObserveAbsent, ObserveFails, ObservePresent
  <2>. QED BY <1>1, <2>1, <2>2
<1>4. CASE Writes(c)
  <2>1. pc'[c] # "sync" /\ UNCHANGED todo
    BY <1>4, <1>a DEF Writes, AddFinalizer, AnnounceCreate, PersistLateInit, Goto, AfterObserve
  <2>. QED BY <1>1, <1>4, <2>1, WritesKeep
<1>5. CASE CreateOk(c) \/ CreateFails(c) \/ CreateReplyLost(c) \/ CreateSetDefault(c)
  <2>1. /\ pc'[c] # "sync" /\ UNCHANGED todo
        /\ \A d \in MRs \ {c} : mem'[d] = mem[d] /\ pc'[d] = pc[d]
    BY <1>5, <1>a DEF CreateOk, CreateFails, CreateReplyLost, CreateSetDefault, Goto
  <2>. QED BY <1>1, <2>1
<1>6. CASE UpdateDefault(c) \/ Destroy(c)
  BY <1>1, <1>6, <1>a DEF UpdateDefault, Destroy, Goto
<1>7. CASE UpdateName(c)
  <2>1. CASE Goto(c, "report") /\ UNCHANGED <<mem, todo>>
    BY <1>1, <1>a, <2>1 DEF Goto
  <2>2. CASE Continue(c, Plan(mem[c])) /\ UNCHANGED mem
    BY <1>a, <2>2, PlanType, PlanAsks, ContinuePlanned
  <2>. QED BY <1>7, <2>1, <2>2 DEF UpdateName
<1>8. CASE DeactivateRule(c)
  <2>1. PICK r \in todo[c].del : Continue(c, [todo[c] EXCEPT !.del = @ \ {r}])
    BY <1>8 DEF DeactivateRule
  <2>. DEFINE t == [todo[c] EXCEPT !.del = @ \ {r}]
  <2>2. t \in Todo /\ t.del \subseteq todo[c].del /\ t.act = todo[c].act /\ t.upd = todo[c].upd
    BY <1>a DEF Todo
  <2>3. pc[c] = "sync" /\ UNCHANGED mem
    BY <1>8 DEF DeactivateRule
  <2>. HIDE DEF t
  <2>4. Continue(c, t)
    BY <2>1 DEF t
  <2>. QED BY <1>b, <2>2, <2>3, <2>4, ContinuePlanned DEF Planned
<1>9. CASE ActivateRule(c) \/ UpdateRule(c)
  <2>0. PICK p \in todo[c].act \cup todo[c].upd :
          \/ Continue(c, [todo[c] EXCEPT !.act = @ \ {p}])
          \/ Continue(c, [todo[c] EXCEPT !.upd = @ \ {p}])
    BY <1>9 DEF ActivateRule, UpdateRule
  <2>1. PICK t \in {[todo[c] EXCEPT !.act = @ \ {p}], [todo[c] EXCEPT !.upd = @ \ {p}]} :
          Continue(c, t)
    BY <2>0
  <2>2. /\ t \in Todo /\ t.del = todo[c].del
        /\ t.act \subseteq todo[c].act /\ t.upd \subseteq todo[c].upd
    BY <1>a, <2>1 DEF Todo
  <2>3. pc[c] = "sync" /\ UNCHANGED mem
    BY <1>9 DEF ActivateRule, UpdateRule
  <2>. QED BY <1>b, <2>1, <2>2, <2>3, ContinuePlanned DEF Planned
<1>10. CASE RecordCreate(c) \/ ReportStatus(c) \/ RemoveFinalizer(c) \/ Conflict(c)
  BY <1>1, <1>10, <1>a DEF RecordCreate, ReportStatus, RemoveFinalizer, Conflict, Forget, Goto
<1>. QED BY <1>2, <1>3, <1>4, <1>5, <1>6, <1>7, <1>8, <1>9, <1>10 DEF Worker, Runtime, Writes

LEMMA StepPlanned == TypeOK /\ PlanInv /\ [Next]_vars => PlanInv'
<1>1. ASSUME PlanInv, UNCHANGED <<pc, mem, todo>> PROVE PlanInv'
  BY <1>1 DEF PlanInv, Planned
<1>2. ASSUME TypeOK, Users PROVE UNCHANGED <<pc, mem, todo>>
  BY <1>2 DEF Users, EditSpec, Edit, DeleteMR, AdminMake, AdminDelete, AdminSetDefault,
              AdminRename, AdminActivate, AdminDeactivate, Admin
<1>3. ASSUME Restart PROVE PlanInv'
  BY <1>3 DEF Restart, Crash, PlanInv, Planned
<1>4. UNCHANGED vars => UNCHANGED <<pc, mem, todo>>
  BY DEF vars, workerVars
<1>. QED BY <1>1, <1>2, <1>3, <1>4, WorkerPlanned DEF Next

\* The steps that set the default, the name and the rules, one by one.
LEMMA DefaultStays ==
    ASSUME TypeOK, NamesUnique, NEW c \in MRs, UpdateDefault(c), Synced(mem[c], IsRuleUpToDate)
    PROVE  UNCHANGED sonarVars
<1>1. mem[c].default = TRUE => Named(mem[c].name) = {default}
  BY DEF Synced, Exists, Named, NamesUnique
<1>2. SetDefaultOk(c) => UNCHANGED default
  BY <1>1 DEF SetDefaultOk
<1>3. SetDefaultFails(c) => UNCHANGED default
  BY DEF SetDefaultFails
<1>4. UNCHANGED default /\ UNCHANGED profiles
  BY <1>2, <1>3 DEF UpdateDefault
<1>. QED BY <1>4 DEF sonarVars

LEMMA NameStays ==
    ASSUME TypeOK, NEW c \in MRs, UpdateName(c), Synced(mem[c], IsRuleUpToDate)
    PROVE  UNCHANGED sonarVars
<1>. DEFINE ext == mem[c].ext
<1>1. ext \in DOMAIN profiles /\ profiles[ext].name = mem[c].name /\ profiles[ext] \in Profile
  BY DEF Synced, Exists, TypeOK
<1>2. [profiles[ext] EXCEPT !.name = mem[c].name] = profiles[ext]
  BY <1>1 DEF Profile
<1>3. [profiles EXCEPT ![ext].name = mem[c].name] = profiles
  BY <1>1, <1>2 DEF TypeOK
<1>. QED BY <1>3 DEF UpdateName, NewName, sonarVars

\* Rules that are set to what they are stay.
LEMMA SetRulesSame ==
    ASSUME TypeOK, NEW k \in DOMAIN profiles, SetRules(k, profiles[k].rules)
    PROVE  UNCHANGED profiles
<1>1. [profiles[k] EXCEPT !.rules = profiles[k].rules] = profiles[k]
  BY DEF TypeOK, Profile
<1>. QED BY <1>1 DEF SetRules, TypeOK

LEMMA RulesStay ==
    ASSUME TypeOK, PlanInv, NEW c \in MRs, Synced(mem[c], IsRuleUpToDate),
           DeactivateRule(c) \/ ActivateRule(c) \/ UpdateRule(c)
    PROVE  UNCHANGED sonarVars
<1>. DEFINE ext == mem[c].ext
            rules == profiles[ext].rules
<1>1. /\ ext \in DOMAIN profiles /\ rules \in ActiveRules
      /\ DOMAIN rules = Asked(mem[c].rules) \cap KnownRules
      /\ \A r \in DOMAIN rules : IsRuleUpToDate(SpecOf(r, mem[c].rules), rules[r])
  BY DEF Synced, Exists, TypeOK, Profile
<1>2. DOMAIN rules \subseteq Rules /\ rules \in [DOMAIN rules -> Active]
  BY <1>1, ActiveRulesType
<1>3. Planned(c) /\ todo[c] \in Todo /\ pc[c] = "sync"
  BY DEF PlanInv, Planned, TypeOK, DeactivateRule, ActivateRule, UpdateRule
<1>4. ASSUME NEW r \in todo[c].del, SetRules(ext, Drop(rules, r)) PROVE UNCHANGED profiles
  <2>1. r \notin DOMAIN rules
    BY <1>1, <1>3 DEF Planned
  <2>2. Drop(rules, r) = rules
    BY <1>2, <2>1 DEF Drop, Restrict
  <2>. QED BY <1>1, <1>4, <2>2, SetRulesSame
<1>5. ASSUME NEW p \in todo[c].act \cup todo[c].upd, ActivateServed(c, p)
      PROVE  UNCHANGED profiles
  <2>1. CASE Activatable(ext, p.rule) /\ Activate(ext, p)
    <3>1. p \in Params /\ p.rule \in DOMAIN rules /\ IsRuleUpToDate(p, rules[p.rule])
      BY <1>1, <1>3, <2>1 DEF Planned, Activatable, Todo
    <3>2. Activated(rules[p.rule], ActivateOption(p)) = rules[p.rule]
      BY <1>2, <3>1, ActivatedSame
    <3>3. Put(rules, p.rule, rules[p.rule]) = rules
      BY <1>2, <3>1 DEF Put
    <3>4. SetRules(ext, rules)
      BY <2>1, <3>1, <3>2, <3>3 DEF Activate
    <3>. QED BY <1>1, <3>4, SetRulesSame
  <2>. QED BY <1>5, <2>1 DEF ActivateServed
<1>6. CASE DeactivateRule(c)
  BY <1>4, <1>6 DEF DeactivateRule, sonarVars
<1>7. CASE ActivateRule(c) \/ UpdateRule(c)
  BY <1>5, <1>7 DEF ActivateRule, UpdateRule, sonarVars
<1>. QED BY <1>6, <1>7

LEMMA SyncedStays ==
    ASSUME TypeOK, NamesUnique, PlanInv, [Next]_vars, NEW c \in MRs,
           pc[c] \in {"update", "rename", "sync"}, Steps(c), Synced(mem[c], IsRuleUpToDate)
    PROVE  UNCHANGED sonarVars
<1>1. CASE Worker(c)
  <2>1. CASE Runtime(c)
    BY <2>1 DEF Runtime
  <2>2. CASE UpdateDefault(c) \/ UpdateName(c) \/ DeactivateRule(c) \/ ActivateRule(c)
             \/ UpdateRule(c)
    BY <2>2, DefaultStays, NameStays, RulesStay
  <2>. QED
    BY <1>1, <2>1, <2>2 DEF Worker, ObserveAbsent, ObserveFails, ObservePresent, CreateOk,
       CreateFails, CreateReplyLost, CreateSetDefault, Destroy
<1>2. ASSUME NEW d \in MRs \ {c}, Worker(d) PROVE ~Steps(c)
  <2>1. CASE Runtime(d)
    BY <2>1 DEF TypeOK, Runtime, Reconcile, AddFinalizer, AnnounceCreate, RecordCreate,
       PersistLateInit, ReportStatus, RemoveFinalizer, Conflict, Forget, Goto, Steps
  <2>2. CASE ObserveAbsent(d) \/ ObserveFails(d) \/ ObservePresent(d) \/ UpdateDefault(d)
             \/ CreateOk(d) \/ CreateFails(d) \/ CreateReplyLost(d) \/ CreateSetDefault(d)
    BY <2>2 DEF TypeOK, ObserveAbsent, ObserveFails, ObservePresent, ObserveReturns, CreateOk,
       CreateFails, CreateReplyLost, CreateSetDefault, UpdateDefault, Goto, Steps
  <2>3. CASE UpdateName(d) \/ DeactivateRule(d) \/ ActivateRule(d) \/ UpdateRule(d)
             \/ Destroy(d)
    BY <2>3 DEF TypeOK, UpdateName, DeactivateRule, ActivateRule, UpdateRule, Destroy,
       Continue, Goto, Steps
  <2>. QED BY <1>2, <2>1, <2>2, <2>3 DEF Worker
<1>3. CASE Users
  BY <1>3 DEF Users, EditSpec, Edit, DeleteMR, AdminMake, AdminDelete, AdminSetDefault,
              AdminRename, AdminActivate, AdminDeactivate, Admin, Steps
<1>4. CASE Restart
  BY <1>4 DEF Restart
<1>5. CASE UNCHANGED vars
  BY <1>5 DEF vars
<1>. QED BY <1>1, <1>2, <1>3, <1>4, <1>5 DEF Next

\* Update, which plans from a status that may be old or empty, changes nothing
\* of a profile that is what its copy of the MR asks for: it takes no rule out
\* for a moment and sends none another value.  No call has to be reliable.
THEOREM SyncedProfilesAreLeft == Spec => SyncedProfileUntouched
<1>1. Spec => []LeavingInv
  BY InitLeaving, StepLeaving, TypeCorrect, PTL DEF Spec
<1>2. Init => PlanInv
  BY DEF Init, PlanInv, Planned
<1>3. Spec => []PlanInv
  BY <1>2, StepPlanned, TypeCorrect, PTL DEF Spec
<1>. DEFINE Left(c) == /\ pc[c] \in {"update", "rename", "sync"} /\ Steps(c)
                       /\ Synced(mem[c], IsRuleUpToDate)
                       => UNCHANGED sonarVars
<1>4. TypeOK /\ LeavingInv /\ PlanInv /\ [Next]_vars => [\A c \in MRs : Left(c)]_vars
  BY SyncedStays DEF LeavingInv
<1>. QED BY <1>1, <1>3, <1>4, TypeCorrect, PTL DEF Spec, SyncedProfileUntouched
============================================================================
