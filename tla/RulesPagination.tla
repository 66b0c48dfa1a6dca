-------------------------- MODULE RulesPagination --------------------------
(***************************************************************************)
(* FetchAllQualityProfileRules (internal/clients/instance/rules.go): the    *)
(* rules a quality profile activates are read page by page, one Search call *)
(* a page, while other clients activate and deactivate rules.  Observe of   *)
(* the QualityProfile controller runs it again at every poll.               *)
(***************************************************************************)
EXTENDS Naturals, Sequences

CONSTANTS
    Rules,          \* rule keys
    PageSize,       \* maxRulesPerPage
    Listings,       \* the listings a profile may start with
    MaxChanges,     \* bound: rules activated or deactivated meanwhile
    MaxFaults       \* bound: Search calls that fail

Elements(s) == {s[i] : i \in DOMAIN s}
Injective(s) == \A i, j \in DOMAIN s : s[i] = s[j] => i = j

ASSUME PaginationAssumption ==
    /\ PageSize \in Nat \ {0}
    /\ Listings \subseteq Seq(Rules)
    /\ \A s \in Listings : Injective(s)
    /\ MaxChanges \in Nat /\ MaxFaults \in Nat

VARIABLES
    list,       \* SonarQube: the active rules, in the order Search lists them
    page,       \* the next page to ask for
    fetched,    \* allRules
    total,      \* Paging.Total of the last reply
    phase,      \* where the fetch is
    always,     \* bookkeeping: the rules active ever since the fetch began,
    ever,       \* and those active at some time since
    changes, faults \* what is left of the bounds

fetchVars == <<page, fetched, total, phase>>
vars == <<list, page, fetched, total, phase, always, ever, changes, faults>>

TypeOK ==
    /\ list \in Seq(Rules) /\ fetched \in Seq(Rules)
    /\ page \in Nat \ {0} /\ total \in Nat
    /\ phase \in {"fetch", "done", "failed"}
    /\ always \in SUBSET Rules /\ ever \in SUBSET Rules
    /\ changes \in Nat /\ faults \in Nat

Begin(current) == always' = Elements(current) /\ ever' = Elements(current)

Init ==
    /\ list \in Listings
    /\ page = 1 /\ fetched = <<>> /\ total = 0 /\ phase = "fetch"
    /\ always = Elements(list) /\ ever = Elements(list)
    /\ changes = MaxChanges /\ faults = MaxFaults

\* A page of a listing; it is short or empty where the listing ends.
Page(s, n) ==
    SubSeq(s, (n - 1) * PageSize + 1,
           IF n * PageSize <= Len(s) THEN n * PageSize ELSE Len(s))

\* Mutants: the last rule must be exceeded; the page number does not advance.
EnoughExceeded(rules, n) == Len(rules) > n
NextPageSame(n) == n

\* The loop ends once as many rules were collected as the reply counts.
Enough(rules, n) == Len(rules) >= n
NextPage(n) == n + 1

FetchPage ==
    LET all == fetched \o Page(list, page)
    IN  /\ phase = "fetch"
        /\ fetched' = all
        /\ total' = Len(list)
        /\ IF Enough(all, Len(list))
             THEN phase' = "done" /\ UNCHANGED page
             ELSE page' = NextPage(page) /\ UNCHANGED phase
        /\ UNCHANGED <<list, always, ever, changes, faults>>

\* A Search call fails: what was fetched is dropped.
FetchFails ==
    /\ phase = "fetch"
    /\ faults > 0 /\ faults' = faults - 1
    /\ phase' = "failed"
    /\ fetched' = <<>>
    /\ UNCHANGED <<list, page, total, always, ever, changes>>

\* Mutant: pages are counted from zero.
PollFromZero ==
    /\ phase # "fetch"
    /\ page' = 0 /\ fetched' = <<>> /\ total' = 0 /\ phase' = "fetch"
    /\ Begin(list)
    /\ UNCHANGED <<list, changes, faults>>

\* The next Observe of the profile.
Poll ==
    /\ phase # "fetch"
    /\ page' = 1 /\ fetched' = <<>> /\ total' = 0 /\ phase' = "fetch"
    /\ Begin(list)
    /\ UNCHANGED <<list, changes, faults>>

Change == changes > 0 /\ changes' = changes - 1 /\ UNCHANGED <<fetchVars, faults>>

\* A rule is activated: the listing has it somewhere.
Activate(r) ==
    /\ Change
    /\ r \notin Elements(list)
    /\ \E i \in 0..Len(list) :
          list' = SubSeq(list, 1, i) \o <<r>> \o SubSeq(list, i + 1, Len(list))
    /\ ever' = ever \cup {r}
    /\ UNCHANGED always

Deactivate ==
    /\ Change
    /\ \E i \in DOMAIN list :
          /\ list' = SubSeq(list, 1, i - 1) \o SubSeq(list, i + 1, Len(list))
          /\ always' = always \ {list[i]}
    /\ UNCHANGED ever

Next == FetchPage \/ FetchFails \/ Poll \/ (\E r \in Rules : Activate(r)) \/ Deactivate

Spec == Init /\ [][Next]_vars

\* The loop has no pause, and the reconciler polls.
FairSpec == Spec /\ WF_vars(FetchPage) /\ WF_vars(Poll)

----------------------------------------------------------------------------
(* Properties.                                                              *)

\* The loop never asks for a page beyond the end of the listing it was last
\* told of, whatever is activated and deactivated between two calls: every
\* page but the last was full, so a short page ends the loop, and a fetch
\* cannot spin on empty pages.
PagesInRange ==
    phase = "fetch" =>
        /\ Len(fetched) = (page - 1) * PageSize
        /\ page > 1 => Len(fetched) < total

\* A fetch nobody disturbed returns the listing, no rule missing or doubled.
ExactUndisturbed == phase = "done" /\ always = ever => fetched = list

\* Once the profile is left alone, every later Observe sees all of it.
SettlesExact == <>[](phase = "done" => fetched = list)
============================================================================
