-------------------------- MODULE MCProviderConfig --------------------------
(* One MR that may move between p1, a ProviderConfig, and q1, a             *)
(* ClusterProviderConfig.                                                   *)
EXTENDS ProviderConfig
CONSTANTS c1, p1, q1, s1

MCMRs == {c1}
MCConfigs == {p1, q1}
MCSecrets == {s1}

MCKind == [x \in Configs |-> IF x = q1 THEN "ClusterProviderConfig" ELSE "ProviderConfig"]
MCRefs == [c \in MRs |-> Configs]

Held == [source |-> "Secret", secretRef |-> s1]
Unsupported == [source |-> "None", secretRef |-> Nil]

\* p1 names a user besides its token; q1 names user and password alone, or next
\* to a token of a source that is not supported.
MCSpecs == [x \in Configs |->
    IF x = p1 THEN {[token |-> Held, username |-> Held, password |-> Nil]}
    ELSE {[token |-> t, username |-> Held, password |-> Held] : t \in {Nil, Unsupported}}]
============================================================================
