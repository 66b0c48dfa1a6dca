--------------------------- MODULE ProviderConfig ---------------------------
(***************************************************************************)
(* Provider configurations: how the controllers of the managed resources    *)
(* (MRs) connect to SonarQube, and the controllers that keep a              *)
(* configuration while it is in use.                                        *)
(*                                                                          *)
(* Connect tracks that the MR uses its configuration, reads it, tracks it   *)
(* again, chooses the authentication and reads the secrets, one call to the *)
(* API server after the other.  The configuration controllers of            *)
(* crossplane-runtime put an in-use finalizer on every configuration and    *)
(* take it off a deleted one when they find no usage of it.  The two sides  *)
(* share nothing but the API server.                                        *)
(***************************************************************************)
EXTENDS Helpers, Naturals, Sequences

CONSTANTS
    MRs,            \* managed resources, of any kind
    Configs,        \* provider configurations
    Secrets,        \* secrets
    Kind,           \* Kind[p]: the kind of configuration p
    Specs,          \* Specs[p]: the credentials an administrator may write for p
    Refs,           \* Refs[c]: configurations the user of c may refer to
    MaxChanges      \* edits, changes by an administrator, faults and crashes

Kinds == {"ProviderConfig", "ClusterProviderConfig"}
UsageKinds == {"ProviderConfigUsage", "ClusterProviderConfigUsage"}

\* ProviderCredentials and the credentials of a ProviderConfigSpec.
Credentials == [source : {"Secret", "None"}, secretRef : Secrets \cup {Nil}]
CredentialsSpec == [token : Credentials \cup {Nil}, username : Credentials \cup {Nil},
                    password : Credentials \cup {Nil}]

ASSUME ConfigAssumption ==
    /\ Nil \notin MRs \cup Configs \cup Secrets /\ Nil \notin CredentialsSpec
    /\ Kind \in [Configs -> Kinds]
    /\ Specs \in [Configs -> SUBSET CredentialsSpec]
    /\ Refs \in [MRs -> SUBSET Configs]
    /\ MaxChanges \in Nat

VARIABLES
    \* the API server
    configs,    \* the configurations that exist
    config,     \* config[p]: credentials, in-use finalizer and deletion timestamp
    usage,      \* usage[c]: the usage object owned by c, or Nil
    secrets,    \* the secrets that exist
    live,       \* the MRs that exist
    mr,         \* mr[c]: reference, finalizer and deletion timestamp of c
    \* SonarQube
    places,     \* places[c]: the configurations at whose SonarQube c has a resource
    \* the workers of the MRs
    pc,         \* pc[c]: the step the worker of c is at
    job,        \* job[c]: the worker's copy of the object
    stale,      \* stale[c]: the object changed since the copy was read
    todo,       \* todo[c]: the secrets Connect has still to read
    \* the workers of the configurations
    cpc,        \* cpc[p]: the step the worker of p is at
    cstale,     \* cstale[p]: p changed since the worker read it
    \* bookkeeping of the model
    joined,     \* joined[c]: the configuration c found fit for use
    budget      \* the changes that are left

configVars == <<configs, config>>
mrVars     == <<live, mr>>
workerVars == <<pc, job, stale, todo>>
keeperVars == <<cpc, cstale>>
vars == <<configVars, usage, secrets, mrVars, places, workerVars, keeperVars, joined, budget>>

----------------------------------------------------------------------------
(* Objects.                                                                 *)

Usage == [kind : UsageKinds, config : Configs]
ConfigObject == [spec : CredentialsSpec \cup {Nil}, final : BOOLEAN, deleting : BOOLEAN]
NewConfig(spec) == [spec |-> spec, final |-> FALSE, deleting |-> FALSE]
MRObject == [ref : Configs, final : BOOLEAN, deleting : BOOLEAN]

\* The usages that keep a configuration: the kind its controller is set up
\* with.
UsageOf(kind) ==
    IF kind = "ClusterProviderConfig" THEN "ClusterProviderConfigUsage"
    ELSE "ProviderConfigUsage"

\* The usages Connect makes, whatever the kind of the configuration.
TrackedAs == "ProviderConfigUsage"

InUse(p) == \E c \in MRs : usage[c] = [kind |-> UsageOf(Kind[p]), config |-> p]

TypeOK ==
    /\ configs \in SUBSET Configs
    /\ config \in [Configs -> ConfigObject]
    /\ \A p \in configs : config[p].spec # Nil
    /\ usage \in [MRs -> Usage \cup {Nil}]
    /\ secrets \in SUBSET Secrets
    /\ live \in SUBSET MRs
    /\ mr \in [MRs -> MRObject]
    /\ places \in [MRs -> SUBSET Configs]
    /\ pc \in [MRs -> {"idle", "track", "get", "retrack", "read", "work"}]
    /\ job \in [MRs -> MRObject \cup {Nil}]
    /\ \A c \in MRs : IF pc[c] = "idle" THEN job[c] = Nil ELSE job[c] \in MRObject
    /\ stale \in [MRs -> BOOLEAN]
    /\ todo \in [MRs -> Seq(Secrets)]
    /\ \A c \in MRs : pc[c] = "read" => todo[c] # <<>>
    /\ cpc \in [Configs -> {"idle", "keep", "list", "release"}]
    /\ cstale \in [Configs -> BOOLEAN]
    /\ joined \in [MRs -> Configs \cup {Nil}]
    /\ budget \in Nat

Init ==
    /\ configs \in SUBSET Configs
    /\ \E spec \in [Configs -> UNION {Specs[p] : p \in Configs}] :
          /\ \A p \in Configs : spec[p] \in Specs[p]
          /\ config = [p \in Configs |-> NewConfig(IF p \in configs THEN spec[p] ELSE Nil)]
    /\ usage = [c \in MRs |-> Nil]
    /\ secrets \in SUBSET Secrets
    /\ live = MRs
    /\ \E ref \in [MRs -> Configs] :
          /\ \A c \in MRs : ref[c] \in Refs[c]
          /\ mr = [c \in MRs |-> [ref |-> ref[c], final |-> FALSE, deleting |-> FALSE]]
    /\ places = [c \in MRs |-> {}]
    /\ pc = [c \in MRs |-> "idle"]
    /\ job = [c \in MRs |-> Nil]
    /\ stale = [c \in MRs |-> FALSE]
    /\ todo = [c \in MRs |-> <<>>]
    /\ cpc = [p \in Configs |-> "idle"]
    /\ cstale = [p \in Configs |-> FALSE]
    /\ joined = [c \in MRs |-> Nil]
    /\ budget = MaxChanges

----------------------------------------------------------------------------
(* Authentication.                                                          *)

Valid(cred) == cred.source = "Secret" /\ cred.secretRef # Nil

\* Mutant: username and password are looked at first.
AuthTypeBasicFirst(s) ==
    CASE s.username # Nil -> IF s.password # Nil THEN "BasicAuth" ELSE "None"
      [] s.username = Nil /\ s.token # Nil /\ Valid(s.token) -> "PersonalAccessToken"
      [] OTHER -> "None"

\* determineAuthType: a token goes before username and password, and one that
\* cannot be used is an error, not a reason to look further.
AuthType(s) ==
    CASE s.token # Nil /\ Valid(s.token) -> "PersonalAccessToken"
      [] /\ s.token = Nil
         /\ s.username # Nil /\ s.password # Nil
         /\ Valid(s.username) /\ Valid(s.password) -> "BasicAuth"
      [] OTHER -> "None"

\* The secrets buildConfigFromSpec reads for the client, in order; none when the
\* credentials cannot be used.
SecretsToRead(s) ==
    CASE AuthType(s) = "PersonalAccessToken" -> <<s.token.secretRef>>
      [] AuthType(s) = "BasicAuth" -> <<s.username.secretRef, s.password.secretRef>>
      [] OTHER -> <<>>

----------------------------------------------------------------------------
(* Connect, around it the reconcile of an MR.                               *)

Goto(c, label) == pc' = [pc EXCEPT ![c] = label]

\* Mutant: the copy of the object outlives the reconcile.
ForgetKeepingCopy(c) ==
    /\ Goto(c, "idle")
    /\ stale' = [stale EXCEPT ![c] = FALSE]
    /\ todo' = [todo EXCEPT ![c] = <<>>]
    /\ UNCHANGED job

\* The reconcile of c ends; nothing of it is kept in memory.
Forget(c) ==
    /\ Goto(c, "idle")
    /\ job' = [job EXCEPT ![c] = Nil]
    /\ stale' = [stale EXCEPT ![c] = FALSE]
    /\ todo' = [todo EXCEPT ![c] = <<>>]

\* A reconcile starts: the object is read.
Reconcile(c) ==
    /\ pc[c] = "idle"
    /\ c \in live
    /\ job' = [job EXCEPT ![c] = mr[c]]
    /\ Goto(c, "track")
    /\ UNCHANGED <<configVars, usage, secrets, mrVars, places, stale, todo, keeperVars,
                   joined, budget>>

\* Mutant: a usage once made is left alone.
TrackOnce(c) ==
    /\ usage' = [usage EXCEPT ![c] =
          IF @ = Nil THEN [kind |-> TrackedAs, config |-> job[c].ref] ELSE @]
    /\ joined' = [joined EXCEPT ![c] = IF @ = job[c].ref THEN @ ELSE Nil]
    /\ UNCHANGED <<configVars, secrets, mrVars, places, job, stale, keeperVars, budget>>

\* Track: the usage owned by the MR names the configuration it refers to.
Track(c) ==
    /\ usage' = [usage EXCEPT ![c] = [kind |-> TrackedAs, config |-> job[c].ref]]
    /\ joined' = [joined EXCEPT ![c] = IF @ = job[c].ref THEN @ ELSE Nil]
    /\ UNCHANGED <<configVars, secrets, mrVars, places, job, stale, keeperVars, budget>>

\* Mutant: the usage is tracked by buildConfigFromSpec only.
TrackUsageLater(c) ==
    /\ pc[c] = "track"
    /\ joined' = [joined EXCEPT ![c] = IF @ = job[c].ref THEN @ ELSE Nil]
    /\ Goto(c, "get")
    /\ UNCHANGED <<configVars, usage, secrets, mrVars, places, job, stale, todo, keeperVars,
                   budget>>

\* Connect tracks the usage before it looks at the configuration.
TrackUsage(c) ==
    /\ pc[c] = "track"
    /\ Track(c)
    /\ Goto(c, "get")
    /\ UNCHANGED todo

\* Mutant: a configuration that is being deleted is not used any more.
GetConfigAlive(c) ==
    LET p == job[c].ref
    IN  /\ pc[c] = "get"
        /\ p \in configs
        /\ ~config[p].deleting
        /\ joined' = [joined EXCEPT ![c] = IF c \in live /\ config[p].final THEN p ELSE @]
        /\ todo' = [todo EXCEPT ![c] = SecretsToRead(config[p].spec)]
        /\ Goto(c, "retrack")
        /\ UNCHANGED <<configVars, usage, secrets, mrVars, places, job, stale,
                       keeperVars, budget>>

\* GetConfig and UseProviderConfig: the configuration is read, one that is
\* being deleted like any other.  Connect goes on with what it says now.
GetConfig(c) ==
    LET p == job[c].ref
    IN  /\ pc[c] = "get"
        /\ p \in configs
        /\ joined' = [joined EXCEPT ![c] =
              IF c \in live /\ config[p].final /\ ~config[p].deleting THEN p ELSE @]
        /\ todo' = [todo EXCEPT ![c] = SecretsToRead(config[p].spec)]
        /\ Goto(c, "retrack")
        /\ UNCHANGED <<configVars, usage, secrets, mrVars, places, job, stale,
                       keeperVars, budget>>

\* buildConfigFromSpec tracks the usage again and chooses the authentication.
BuildConfig(c) ==
    /\ pc[c] = "retrack"
    /\ todo[c] # <<>>
    /\ Track(c)
    /\ Goto(c, "read")
    /\ UNCHANGED todo

\* The same with credentials that cannot be used: the usage is tracked all
\* the same, and Connect fails.
BuildConfigFails(c) ==
    /\ pc[c] = "retrack"
    /\ todo[c] = <<>>
    /\ usage' = [usage EXCEPT ![c] = [kind |-> TrackedAs, config |-> job[c].ref]]
    /\ joined' = [joined EXCEPT ![c] = IF @ = job[c].ref THEN @ ELSE Nil]
    /\ Forget(c)
    /\ UNCHANGED <<configVars, secrets, mrVars, places, keeperVars, budget>>

\* GetTokenValueFromSecret; with the last secret NewClient makes the client.
ReadSecret(c) ==
    /\ pc[c] = "read"
    /\ Head(todo[c]) \in secrets
    /\ todo' = [todo EXCEPT ![c] = Tail(@)]
    /\ Goto(c, IF Len(todo[c]) = 1 THEN "work" ELSE "read")
    /\ UNCHANGED <<configVars, usage, secrets, mrVars, places, job, stale, keeperVars,
                   joined, budget>>

\* Connect fails: the configuration or a secret is gone, or the API server
\* could not be reached.
ConnectFails(c) ==
    /\ \/ pc[c] = "get" /\ job[c].ref \notin configs /\ UNCHANGED budget
       \/ pc[c] = "read" /\ Head(todo[c]) \notin secrets /\ UNCHANGED budget
       \/ /\ pc[c] \in {"track", "get", "retrack", "read"}
          /\ budget > 0
          /\ budget' = budget - 1
    /\ Forget(c)
    /\ UNCHANGED <<configVars, usage, secrets, mrVars, places, keeperVars, joined>>

----------------------------------------------------------------------------
(* What the reconcile does with the client.                                 *)

\* Observe and, if the MR is not being deleted, Create: the finalizer is set
\* first, on an object that did not change since it was read.
Establish(c) ==
    /\ pc[c] = "work" /\ ~job[c].deleting
    /\ job[c].final \/ ~stale[c]
    /\ mr' = [mr EXCEPT ![c].final = TRUE]
    /\ places' = [places EXCEPT ![c] = @ \cup {job[c].ref}]
    /\ Forget(c)
    /\ UNCHANGED <<configVars, usage, secrets, live, keeperVars, joined, budget>>

\* Observe and Delete of an MR being deleted.
Destroy(c) ==
    /\ pc[c] = "work" /\ job[c].deleting
    /\ job[c].ref \in places[c]
    /\ places' = [places EXCEPT ![c] = @ \ {job[c].ref}]
    /\ Forget(c)
    /\ UNCHANGED <<configVars, usage, secrets, mrVars, keeperVars, joined, budget>>

\* Observe answers that nothing is left to delete: the finalizer goes, the MR
\* with it.  The answer need not be right: any error of Show reads as absence
\* (qualitygate.go:184), and Settings being deleted never exist (settings.go:167).
RemoveFinalizer(c) ==
    /\ pc[c] = "work" /\ job[c].deleting
    /\ ~stale[c]
    /\ live' = live \ {c}
    /\ joined' = [joined EXCEPT ![c] = Nil]
    /\ Forget(c)
    /\ UNCHANGED <<configVars, usage, secrets, mr, places, keeperVars, budget>>

\* A write of a stale copy is refused: of one without its finalizer, or of one
\* about to lose it.
Conflict(c) ==
    /\ pc[c] = "work" /\ stale[c]
    /\ job[c].deleting \/ ~job[c].final
    /\ Forget(c)
    /\ UNCHANGED <<configVars, usage, secrets, mrVars, places, keeperVars, joined, budget>>

Worker(c) ==
    \/ Reconcile(c) \/ TrackUsage(c) \/ GetConfig(c) \/ BuildConfig(c) \/ BuildConfigFails(c)
    \/ ReadSecret(c) \/ ConnectFails(c)
    \/ Establish(c) \/ Destroy(c) \/ RemoveFinalizer(c) \/ Conflict(c)

----------------------------------------------------------------------------
(* The controllers of the configurations.                                   *)

CGoto(p, label) == cpc' = [cpc EXCEPT ![p] = label]
CForget(p) == CGoto(p, "idle") /\ cstale' = [cstale EXCEPT ![p] = FALSE]

unkept == <<usage, secrets, mrVars, places, workerVars, joined, budget>>

\* The configuration is read.
ConfigRead(p) ==
    /\ cpc[p] = "idle"
    /\ p \in configs
    /\ CGoto(p, IF config[p].deleting THEN "list" ELSE "keep")
    /\ UNCHANGED <<configVars, cstale, unkept>>

\* The in-use finalizer is set.
ConfigKeep(p) ==
    /\ cpc[p] = "keep" /\ ~cstale[p]
    /\ config' = [config EXCEPT ![p].final = TRUE]
    /\ CForget(p)
    /\ UNCHANGED <<configs, unkept>>

\* The usages of a deleted configuration are listed: while there is one it
\* is queued again.
ConfigList(p) ==
    /\ cpc[p] = "list"
    /\ IF InUse(p) THEN CForget(p) ELSE CGoto(p, "release") /\ UNCHANGED cstale
    /\ UNCHANGED <<configVars, unkept>>

Removed(p) ==
    /\ configs' = configs \ {p}
    /\ config' = [config EXCEPT ![p] = NewConfig(Nil)]

\* The in-use finalizer goes, the configuration with it.
ConfigRelease(p) ==
    /\ cpc[p] = "release" /\ ~cstale[p]
    /\ Removed(p)
    /\ CForget(p)
    /\ UNCHANGED unkept

ConfigConflict(p) ==
    /\ cpc[p] \in {"keep", "release"} /\ cstale[p]
    /\ CForget(p)
    /\ UNCHANGED <<configVars, unkept>>

Keeper(p) ==
    ConfigRead(p) \/ ConfigKeep(p) \/ ConfigList(p) \/ ConfigRelease(p) \/ ConfigConflict(p)

----------------------------------------------------------------------------
(* The environment.                                                         *)

\* Kubernetes collects the usage of an MR that is gone.
CollectUsage(c) ==
    /\ c \notin live /\ usage[c] # Nil
    /\ usage' = [usage EXCEPT ![c] = Nil]
    /\ UNCHANGED <<configVars, secrets, mrVars, places, workerVars, keeperVars, joined, budget>>

Touched(c) == stale' = [stale EXCEPT ![c] = pc[c] # "idle"]
CTouched(p) == cstale' = [cstale EXCEPT ![p] = cpc[p] # "idle"]

\* The user deletes an MR; with no finalizer it is gone at once.
DeleteMR(c) ==
    /\ c \in live /\ ~mr[c].deleting
    /\ IF mr[c].final
         THEN mr' = [mr EXCEPT ![c].deleting = TRUE] /\ UNCHANGED <<live, joined>>
         ELSE /\ live' = live \ {c}
              /\ joined' = [joined EXCEPT ![c] = Nil]
              /\ UNCHANGED mr
    /\ Touched(c)
    /\ UNCHANGED <<configVars, usage, secrets, places, pc, job, todo, keeperVars, budget>>

\* The user refers the MR to another configuration.
EditRef(c) ==
    /\ budget > 0
    /\ c \in live
    /\ \E p \in Refs[c] \ {mr[c].ref} : mr' = [mr EXCEPT ![c].ref = p]
    /\ Touched(c)
    /\ budget' = budget - 1
    /\ UNCHANGED <<configVars, usage, secrets, live, places, pc, job, todo, keeperVars, joined>>

\* The administrator deletes a configuration; with no finalizer it is gone at
\* once.
DeleteConfig(p) ==
    /\ p \in configs /\ ~config[p].deleting
    /\ IF config[p].final
         THEN config' = [config EXCEPT ![p].deleting = TRUE] /\ UNCHANGED configs
         ELSE Removed(p)
    /\ CTouched(p)
    /\ UNCHANGED <<usage, secrets, mrVars, places, workerVars, cpc, joined, budget>>

Admin ==
    /\ budget > 0
    /\ budget' = budget - 1
    /\ UNCHANGED <<usage, mrVars, places, workerVars, cpc, joined>>

\* A configuration is made, or other credentials written into it.
WriteConfig(p) ==
    /\ Admin
    /\ configs' = configs \cup {p}
    /\ \E spec \in Specs[p] :
          /\ spec # config[p].spec
          /\ config' = [config EXCEPT ![p].spec = spec]
    /\ CTouched(p)
    /\ UNCHANGED secrets

DeleteSecret(s) ==
    /\ Admin
    /\ s \in secrets
    /\ secrets' = secrets \ {s}
    /\ UNCHANGED <<configVars, cstale>>

CreateSecret(s) ==
    /\ Admin
    /\ s \notin secrets
    /\ secrets' = secrets \cup {s}
    /\ UNCHANGED <<configVars, cstale>>

\* The provider process dies and restarts.
Restart ==
    /\ budget > 0
    /\ budget' = budget - 1
    /\ pc' = [c \in MRs |-> "idle"]
    /\ job' = [c \in MRs |-> Nil]
    /\ stale' = [c \in MRs |-> FALSE]
    /\ todo' = [c \in MRs |-> <<>>]
    /\ cpc' = [p \in Configs |-> "idle"]
    /\ cstale' = [p \in Configs |-> FALSE]
    /\ UNCHANGED <<configVars, usage, secrets, mrVars, places, joined>>

Next ==
    \/ \E c \in MRs : Worker(c) \/ CollectUsage(c) \/ DeleteMR(c) \/ EditRef(c)
    \/ \E p \in Configs : Keeper(p) \/ DeleteConfig(p) \/ WriteConfig(p)
    \/ \E s \in Secrets : DeleteSecret(s) \/ CreateSecret(s)
    \/ Restart

Spec == Init /\ [][Next]_vars

\* MRs and configurations are queued again, after an error or at the latest
\* after the poll interval, and Kubernetes collects its garbage.
Fairness ==
    /\ \A c \in MRs : WF_vars(Worker(c)) /\ WF_vars(CollectUsage(c))
    /\ \A p \in Configs : WF_vars(Keeper(p))

FairSpec == Spec /\ Fairness

----------------------------------------------------------------------------
(* Properties.                                                              *)

Namespaced(p) == Kind[p] = "ProviderConfig"

\* A ProviderConfig is not removed under an MR that connected through it: from
\* the moment Connect finds it with its in-use finalizer and not being
\* deleted, it stays until the MR is gone or tracked elsewhere.  The usage
\* tracked before the configuration is read is what keeps it.
UsedConfigKept ==
    \A c \in MRs : joined[c] # Nil /\ Namespaced(joined[c]) => joined[c] \in configs

\* Why it holds: the usage is there before the MR joins, and a worker about to
\* release a configuration found no usage when it was being deleted already.
ReleaseOK(p) == cpc[p] \in {"list", "release"} => p \in configs /\ config[p].deleting

JoinedOK(c) ==
    /\ joined[c] # Nil =>
          /\ c \in live
          /\ usage[c] = [kind |-> TrackedAs, config |-> joined[c]]
          /\ Namespaced(joined[c]) =>
                /\ joined[c] \in configs
                /\ config[joined[c]].final
                /\ cpc[joined[c]] # "release"
    /\ c \in live /\ pc[c] \in {"get", "retrack", "read", "work"} =>
          usage[c] = [kind |-> TrackedAs, config |-> job[c].ref]

KeptInv == (\A p \in Configs : ReleaseOK(p)) /\ (\A c \in MRs : JoinedOK(c))

\* The documentation of ClusterProviderConfigUsage: it "indicates that a
\* resource is using a ClusterProviderConfig".  An MR that connected through a
\* configuration has a usage of the kind that configuration's controller
\* counts.
UsageIndicatesUse ==
    \A c \in MRs : joined[c] # Nil =>
        usage[c] = [kind |-> UsageOf(Kind[joined[c]]), config |-> joined[c]]

\* What a client for p takes: the configuration, the authentication it
\* chooses, and the secrets of that one alone.
Readable(p) ==
    LET s == config[p].spec
        There(cred) == Valid(cred) /\ cred.secretRef \in secrets
    IN  /\ p \in configs
        /\ IF s.token # Nil THEN There(s.token)
           ELSE /\ s.username # Nil /\ There(s.username)
                /\ s.password # Nil /\ There(s.password)

\* Left alone, an MR whose configuration can be read has its resource there.
ConnectSucceeds ==
    \A c \in MRs :
        <>[](c \in live /\ ~mr[c].deleting /\ Readable(mr[c].ref) =>
                mr[c].ref \in places[c])

\* A deleted MR goes unless its configuration is gone or unreadable, and a
\* ProviderConfig it had joined cannot be gone.
DeletionCompletes ==
    \A c \in MRs :
        <>[](c \in live /\ mr[c].deleting => ~Readable(mr[c].ref))

\* A deleted configuration goes once no usage of it is left: usages of MRs
\* that are gone or moved on do not hold it for ever.
UnusedConfigGoes ==
    \A p \in Configs :
        <>[](p \in configs /\ config[p].deleting =>
                \E c \in live : usage[c] = [kind |-> UsageOf(Kind[p]), config |-> mr[c].ref]
                                /\ mr[c].ref = p)
============================================================================
