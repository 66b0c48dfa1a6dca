------------------------ MODULE QualityProfileRules ------------------------
(***************************************************************************)
(* The rules of a quality profile in the client package                     *)
(* (internal/clients/instance/qualityprofile.go, rules.go): late            *)
(* initialisation, the association of desired with active rules by key, the *)
(* comparison of the two, and what an activate_rule call says.              *)
(*                                                                          *)
(* A desired rule list is a sequence, as in the CRD, and may name a rule    *)
(* twice; the last one counts.  The active rules are a function from rule   *)
(* keys.  A map of impacts or of parameters is a value, Empty if it has no  *)
(* entry.                                                                   *)
(***************************************************************************)
EXTENDS Naturals, Sequences, Helpers

CONSTANTS
    Rules,          \* rule keys
    Severities,
    ImpactMaps,     \* non-empty maps of impacts
    ParamMaps,      \* non-empty maps of parameters
    Empty           \* a map with no entry

\* QualityProfileRuleParameters, and a rule as SonarQube holds it and
\* QualityProfileRuleObservation shows it.
Params == [rule : Rules, severity : Severities \cup {Nil},
           impacts : ImpactMaps \cup {Empty, Nil}, params : ParamMaps \cup {Empty, Nil},
           prioritized : BOOLEAN \cup {Nil}]
Active == [severity : Severities, impacts : ImpactMaps \cup {Empty},
           params : ParamMaps \cup {Empty}, prioritized : BOOLEAN]

\* GenerateQualityProfileRulesObservation: the rules of a profile by their key.
ActiveRules == UNION {[R -> Active] : R \in SUBSET Rules}

ASSUME RulesAssumption ==
    /\ Nil \notin Severities /\ Nil \notin BOOLEAN
    /\ Nil \notin ImpactMaps /\ Nil \notin ParamMaps /\ Nil # Empty
    /\ Empty \notin ImpactMaps /\ Empty \notin ParamMaps

----------------------------------------------------------------------------
(* Associations.                                                            *)

Asked(specs) == {specs[i].rule : i \in DOMAIN specs}

\* The last desired rule of the key overwrites the ones before in the map.
IsLast(i, specs) == \A j \in DOMAIN specs : specs[j].rule = specs[i].rule => j <= i
SpecOf(r, specs) == specs[CHOOSE i \in DOMAIN specs : specs[i].rule = r /\ IsLast(i, specs)]

\* IsQualityProfileRuleUpToDate, of a desired and an active rule of one key.
IsRuleUpToDate(p, o) ==
    /\ PtrEq(p.severity, o.severity)
    /\ PtrEq(p.prioritized, o.prioritized)
    /\ PtrEq(p.impacts, o.impacts)
    /\ PtrEq(p.params, o.params)

UpToDate(r, specs, seen) == IsRuleUpToDate(SpecOf(r, specs), seen[r])

\* Mutant: a desired rule is put beside the association of its active rule.
FindMissingAll(specs, seen) == DOMAIN seen

\* FindMissingQualityProfileRules: active, not desired.
FindMissing(specs, seen) == DOMAIN seen \ Asked(specs)

\* FindNonExistingQualityProfileRules: desired, not active.
FindNonExisting(specs, seen) == {SpecOf(r, specs) : r \in Asked(specs) \ DOMAIN seen}

\* FindNotUpToDateQualityProfileRules: both, and different.
FindNotUpToDate(specs, seen) ==
    {SpecOf(r, specs) : r \in {s \in Asked(specs) \cap DOMAIN seen : ~UpToDate(s, specs, seen)}}

AreRulesUpToDate(specs, seen) ==
    /\ Asked(specs) = DOMAIN seen
    /\ \A r \in DOMAIN seen : UpToDate(r, specs, seen)

----------------------------------------------------------------------------
(* Late initialisation.                                                     *)

LateInitRule(p, o) ==
    [p EXCEPT !.severity = AssignIfNil(@, o.severity),
              !.prioritized = AssignIfNil(@, o.prioritized),
              !.impacts = IF o.impacts = Empty THEN @ ELSE AssignIfNil(@, o.impacts)]

\* Every desired rule that is active and the last of its key is filled in.
LateInitRules(specs, seen) ==
    [i \in DOMAIN specs |->
        IF specs[i].rule \in DOMAIN seen /\ IsLast(i, specs)
          THEN LateInitRule(specs[i], seen[specs[i].rule])
          ELSE specs[i]]

\* WereQualityProfileRulesLateInitialized does not look at the impacts, and
\* compares with the last original of the key.
WereRulesLateInitialized(old, new) ==
    \E i \in DOMAIN new :
        LET o == SpecOf(new[i].rule, old)
        IN  o.severity # new[i].severity \/ o.prioritized # new[i].prioritized

----------------------------------------------------------------------------
(* The activate_rule call.                                                  *)

Unless(cond, value) == IF cond THEN Nil ELSE value

\* GenerateQualityProfileActivateRuleOption.  Impacts take precedence over the
\* severity.  An empty map is not sent, and neither is a false flag: it is the
\* zero value of the option.
ActivateOption(p) ==
    [severity |-> Unless(p.impacts \notin {Nil, Empty}, p.severity),
     impacts |-> Unless(p.impacts = Empty, p.impacts),
     params |-> Unless(p.params = Empty, p.params),
     prioritized |-> Unless(p.prioritized = FALSE, p.prioritized)]

\* SonarQube keeps what an activate_rule call leaves out.
Activated(o, option) ==
    [severity |-> AssignIfNil(option.severity, o.severity),
     impacts |-> AssignIfNil(option.impacts, o.impacts),
     params |-> AssignIfNil(option.params, o.params),
     prioritized |-> AssignIfNil(option.prioritized, o.prioritized)]

----------------------------------------------------------------------------
(* What the promises are stated with.                                       *)

\* The active rule is what the desired one asks for.  Impacts take precedence
\* over the severity, also those late initialised, and empty maps and false
\* flags ask for nothing: the README says what that leaves undone.
Realises(p, o) ==
    /\ p.impacts \in {Nil, Empty, o.impacts}
    /\ p.params \in {Nil, Empty, o.params}
    /\ p.prioritized = TRUE => o.prioritized
    /\ p.impacts = Empty \/ (p.impacts = Nil /\ o.impacts = Empty) => PtrEq(p.severity, o.severity)
============================================================================
