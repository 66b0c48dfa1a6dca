------------------------- MODULE MCRulesPagination -------------------------
(* Pages of two, up to five active rules to begin with out of six: none to  *)
(* three pages, the last one full or short.  Rules are interchangeable, so   *)
(* one listing of each length will do.                                      *)
EXTENDS RulesPagination

CONSTANTS r1, r2, r3, r4, r5, r6

MCRules == {r1, r2, r3, r4, r5, r6}
MCListings == {SubSeq(<<r1, r2, r3, r4, r5>>, 1, n) : n \in 0..5}
============================================================================
