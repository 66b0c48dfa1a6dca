------------------------ MODULE ProviderConfigProofs ------------------------
(***************************************************************************)
(* Theorems about provider configurations, for every set of MRs and         *)
(* configurations, whatever credentials they name, and every bound.         *)
(***************************************************************************)
EXTENDS ProviderConfig, TLAPS

----------------------------------------------------------------------------
(* Types.                                                                   *)

\* The authentication chosen names its secrets.
LEMMA SecretsType ==
    ASSUME NEW s \in CredentialsSpec
    PROVE  SecretsToRead(s) \in Seq(Secrets)
<1>0. /\ s.token \in Credentials \cup {Nil}
      /\ s.username \in Credentials \cup {Nil}
      /\ s.password \in Credentials \cup {Nil}
  BY DEF CredentialsSpec
<1>1. ASSUME NEW cred \in Credentials, Valid(cred) PROVE cred.secretRef \in Secrets
  BY <1>1 DEF Valid, Credentials
<1>2. CASE s.token # Nil /\ Valid(s.token)
  <2>1. SecretsToRead(s) = <<s.token.secretRef>>
    BY <1>2 DEF AuthType, SecretsToRead
  <2>. QED BY <1>0, <1>1, <1>2, <2>1
<1>3. CASE /\ s.token = Nil /\ s.username # Nil /\ s.password # Nil
           /\ Valid(s.username) /\ Valid(s.password)
  <2>1. SecretsToRead(s) = <<s.username.secretRef, s.password.secretRef>>
    BY <1>3 DEF AuthType, SecretsToRead
  <2>. QED BY <1>0, <1>1, <1>3, <2>1
<1>4. CASE /\ ~(s.token # Nil /\ Valid(s.token))
           /\ ~(/\ s.token = Nil /\ s.username # Nil /\ s.password # Nil
                /\ Valid(s.username) /\ Valid(s.password))
  <2>1. AuthType(s) = "None"
    BY <1>4 DEF AuthType
  <2>2. SecretsToRead(s) = <<>>
    BY <2>1 DEF SecretsToRead
  <2>. QED BY <2>2
<1>. QED BY <1>2, <1>3, <1>4

LEMMA InitType == Init => TypeOK
<1>. SUFFICES ASSUME Init PROVE TypeOK
  OBVIOUS
<1>1. config \in [Configs -> ConfigObject] /\ \A p \in configs : config[p].spec # Nil
  <2>1. PICK spec \in [Configs -> UNION {Specs[p] : p \in Configs}] :
          /\ \A p \in Configs : spec[p] \in Specs[p]
          /\ config = [p \in Configs |-> NewConfig(IF p \in configs THEN spec[p] ELSE Nil)]
    BY DEF Init
  <2>2. \A p \in Configs : spec[p] \in CredentialsSpec /\ spec[p] # Nil
    BY <2>1, ConfigAssumption
  <2>. QED BY <2>1, <2>2 DEF Init, NewConfig, ConfigObject
<1>2. mr \in [MRs -> MRObject] /\ budget \in Nat
  BY ConfigAssumption DEF Init, MRObject
<1>3. /\ configs \in SUBSET Configs /\ secrets \in SUBSET Secrets /\ live = MRs
      /\ usage = [c \in MRs |-> Nil] /\ places = [c \in MRs |-> {}]
      /\ pc = [c \in MRs |-> "idle"] /\ job = [c \in MRs |-> Nil]
      /\ stale = [c \in MRs |-> FALSE] /\ todo = [c \in MRs |-> <<>>]
      /\ cpc = [p \in Configs |-> "idle"] /\ cstale = [p \in Configs |-> FALSE]
      /\ joined = [c \in MRs |-> Nil]
  BY DEF Init
<1>. QED BY <1>1, <1>2, <1>3 DEF TypeOK

LEMMA ForgetType ==
    ASSUME TypeOK, NEW c \in MRs, Forget(c)
    PROVE  /\ pc' \in [MRs -> {"idle", "track", "get", "retrack", "read", "work"}]
           /\ job' \in [MRs -> MRObject \cup {Nil}]
           /\ \A d \in MRs : IF pc'[d] = "idle" THEN job'[d] = Nil ELSE job'[d] \in MRObject
           /\ stale' \in [MRs -> BOOLEAN]
           /\ todo' \in [MRs -> Seq(Secrets)]
           /\ \A d \in MRs : pc'[d] = "read" => todo'[d] # <<>>
BY DEF TypeOK, Forget, Goto

LEMMA CopyType ==
    ASSUME TypeOK, NEW c \in MRs, pc[c] # "idle"
    PROVE  job[c] \in MRObject /\ job[c].ref \in Configs
BY DEF TypeOK, MRObject

LEMMA TrackType ==
    ASSUME TypeOK, NEW c \in MRs, pc[c] # "idle"
    PROVE  /\ [usage EXCEPT ![c] = [kind |-> TrackedAs, config |-> job[c].ref]]
                  \in [MRs -> Usage \cup {Nil}]
           /\ [joined EXCEPT ![c] = IF @ = job[c].ref THEN @ ELSE Nil]
                  \in [MRs -> Configs \cup {Nil}]
<1>1. [kind |-> TrackedAs, config |-> job[c].ref] \in Usage
  BY CopyType DEF Usage, UsageKinds, TrackedAs
<1>. QED BY <1>1 DEF TypeOK

LEMMA TailType ==
    ASSUME NEW seq \in Seq(Secrets), seq # <<>>
    PROVE  Tail(seq) \in Seq(Secrets) /\ (Len(seq) # 1 => Tail(seq) # <<>>)
<1>. DEFINE t == Tail(seq)
<1>1. t \in Seq(Secrets) /\ Len(t) = Len(seq) - 1
  OBVIOUS
<1>2. Len(seq) \in Nat /\ Len(seq) > 0
  OBVIOUS
<1>. HIDE DEF t
<1>3. Len(seq) # 1 => Len(t) # 0
  BY <1>1, <1>2
<1>4. Len(seq) # 1 => t # <<>>
  BY <1>3
<1>. QED BY <1>1, <1>4 DEF t

LEMMA WorkerType ==
    ASSUME TypeOK, NEW c \in MRs, Worker(c)
    PROVE  TypeOK'
<1>. USE DEF configVars, mrVars, keeperVars, Goto
<1>1. CASE Reconcile(c)
  BY <1>1, ConfigAssumption DEF Reconcile, TypeOK, MRObject
<1>2. CASE TrackUsage(c)
  BY <1>2, TrackType DEF TrackUsage, Track, TypeOK
<1>3. CASE GetConfig(c)
  <2>1. config[job[c].ref].spec \in CredentialsSpec
    BY <1>3, CopyType DEF GetConfig, TypeOK, ConfigObject
  <2>2. SecretsToRead(config[job[c].ref].spec) \in Seq(Secrets)
    BY <2>1, SecretsType
  <2>. QED BY <1>3, <2>2, CopyType DEF GetConfig, TypeOK
<1>4. CASE BuildConfig(c)
  BY <1>4, TrackType DEF BuildConfig, Track, TypeOK
<1>5. CASE BuildConfigFails(c)
  BY <1>5, TrackType, ForgetType DEF BuildConfigFails, TypeOK
<1>6. CASE ReadSecret(c)
  <2>1. todo[c] \in Seq(Secrets) /\ todo[c] # <<>>
    BY <1>6 DEF ReadSecret, TypeOK
  <2>2. Tail(todo[c]) \in Seq(Secrets) /\ (Len(todo[c]) # 1 => Tail(todo[c]) # <<>>)
    BY <2>1, TailType
  <2>. QED BY <1>6, <2>2 DEF ReadSecret, TypeOK
<1>7. CASE ConnectFails(c)
  <2>0. budget \in Nat
    BY DEF TypeOK
  <2>1. budget' \in Nat
    BY <1>7, <2>0 DEF ConnectFails
  <2>. QED BY <1>7, <2>1, ForgetType DEF ConnectFails, TypeOK
<1>8. CASE Establish(c)
  <2>0. mr \in [MRs -> MRObject] /\ places \in [MRs -> SUBSET Configs]
    BY DEF TypeOK
  <2>1. mr' \in [MRs -> MRObject]
    BY <1>8, <2>0 DEF Establish, MRObject
  <2>2. places' \in [MRs -> SUBSET Configs]
    BY <1>8, <2>0, CopyType DEF Establish
  <2>. QED BY <1>8, <2>1, <2>2, ForgetType DEF Establish, TypeOK
<1>9. CASE Destroy(c)
  BY <1>9, ForgetType DEF Destroy, TypeOK
<1>10. CASE RemoveFinalizer(c)
  BY <1>10, ForgetType DEF RemoveFinalizer, TypeOK
<1>11. CASE Conflict(c)
  BY <1>11, ForgetType DEF Conflict, TypeOK
<1>. QED BY <1>1, <1>2, <1>3, <1>4, <1>5, <1>6, <1>7, <1>8, <1>9, <1>10, <1>11 DEF Worker

LEMMA KeeperType ==
    ASSUME TypeOK, NEW p \in Configs, Keeper(p)
    PROVE  TypeOK'
<1>1. /\ config \in [Configs -> ConfigObject] /\ NewConfig(Nil) \in ConfigObject
      /\ \A q \in configs : config[q].spec # Nil
      /\ configs \in SUBSET Configs
  BY DEF TypeOK, ConfigObject, NewConfig
<1>2. config' \in [Configs -> ConfigObject]
  BY <1>1 DEF Keeper, ConfigRead, ConfigKeep, ConfigList, ConfigRelease, ConfigConflict, Removed,
              configVars, ConfigObject
<1>5. \A q \in configs' : config'[q].spec # Nil
  BY <1>1 DEF Keeper, ConfigRead, ConfigKeep, ConfigList, ConfigRelease, ConfigConflict, Removed,
              configVars, ConfigObject
<1>3. /\ configs' \in SUBSET Configs
      /\ cpc' \in [Configs -> {"idle", "keep", "list", "release"}]
      /\ cstale' \in [Configs -> BOOLEAN]
  BY DEF Keeper, ConfigRead, ConfigKeep, ConfigList, ConfigRelease, ConfigConflict, Removed,
         configVars, CGoto, CForget, TypeOK
<1>4. UNCHANGED unkept
  BY DEF Keeper, ConfigRead, ConfigKeep, ConfigList, ConfigRelease, ConfigConflict
<1>. QED BY <1>2, <1>3, <1>4, <1>5 DEF unkept, mrVars, workerVars, TypeOK

LEMMA EnvironmentType ==
    ASSUME TypeOK,
           \/ \E c \in MRs : CollectUsage(c) \/ DeleteMR(c) \/ EditRef(c)
           \/ \E p \in Configs : DeleteConfig(p) \/ WriteConfig(p)
           \/ \E s \in Secrets : DeleteSecret(s) \/ CreateSecret(s)
           \/ Restart
    PROVE  TypeOK'
<1>. USE DEF configVars, mrVars, workerVars, keeperVars, Touched, CTouched
<1>1. ASSUME NEW c \in MRs, CollectUsage(c) PROVE TypeOK'
  BY <1>1 DEF CollectUsage, TypeOK
<1>2. ASSUME NEW c \in MRs, DeleteMR(c) PROVE TypeOK'
  <2>0. mr \in [MRs -> MRObject]
    BY DEF TypeOK
  <2>1. mr' \in [MRs -> MRObject]
    BY <1>2, <2>0 DEF DeleteMR, MRObject
  <2>. QED BY <1>2, <2>1 DEF DeleteMR, TypeOK
<1>3. ASSUME NEW c \in MRs, EditRef(c) PROVE TypeOK'
  <2>0. mr \in [MRs -> MRObject] /\ budget \in Nat /\ Refs[c] \subseteq Configs
    BY ConfigAssumption DEF TypeOK
  <2>1. mr' \in [MRs -> MRObject] /\ budget' \in Nat
    BY <1>3, <2>0 DEF EditRef, MRObject
  <2>. QED BY <1>3, <2>1 DEF EditRef, TypeOK
<1>4. ASSUME NEW p \in Configs, DeleteConfig(p) PROVE TypeOK'
  <2>0. /\ config \in [Configs -> ConfigObject] /\ NewConfig(Nil) \in ConfigObject
        /\ \A q \in configs : config[q].spec # Nil
        /\ configs \in SUBSET Configs
    BY DEF TypeOK, ConfigObject, NewConfig
  <2>1. config' \in [Configs -> ConfigObject]
    BY <1>4, <2>0 DEF DeleteConfig, Removed, ConfigObject
  <2>2. \A q \in configs' : config'[q].spec # Nil
    BY <1>4, <2>0 DEF DeleteConfig, Removed, ConfigObject
  <2>. QED BY <1>4, <2>1, <2>2 DEF DeleteConfig, Removed, TypeOK
<1>5. ASSUME Admin PROVE budget' \in Nat
  <2>0. budget \in Nat
    BY DEF TypeOK
  <2>. QED BY <1>5, <2>0 DEF Admin
<1>6. ASSUME NEW p \in Configs, WriteConfig(p) PROVE TypeOK'
  <2>0. /\ config \in [Configs -> ConfigObject]
        /\ \A q \in configs : config[q].spec # Nil
        /\ Specs[p] \subseteq CredentialsSpec
    BY ConfigAssumption DEF TypeOK
  <2>1. \A spec \in CredentialsSpec : spec # Nil
    BY ConfigAssumption
  <2>2. config' \in [Configs -> ConfigObject]
    BY <1>6, <2>0 DEF WriteConfig, ConfigObject
  <2>3. \A q \in configs' : config'[q].spec # Nil
    BY <1>6, <2>0, <2>1 DEF WriteConfig, ConfigObject
  <2>. QED BY <1>5, <1>6, <2>2, <2>3 DEF WriteConfig, Admin, TypeOK
<1>7. ASSUME NEW s \in Secrets, DeleteSecret(s) \/ CreateSecret(s) PROVE TypeOK'
  BY <1>5, <1>7 DEF DeleteSecret, CreateSecret, Admin, TypeOK
<1>8. ASSUME Restart PROVE TypeOK'
  <2>0. budget \in Nat
    BY DEF TypeOK
  <2>1. budget' \in Nat
    BY <1>8, <2>0 DEF Restart
  <2>. QED BY <1>8, <2>1 DEF Restart, TypeOK
<1>. QED BY <1>1, <1>2, <1>3, <1>4, <1>6, <1>7, <1>8

LEMMA StepType == TypeOK /\ [Next]_vars => TypeOK'
<1>1. ASSUME TypeOK, UNCHANGED vars PROVE TypeOK'
  BY <1>1 DEF vars, configVars, mrVars, workerVars, keeperVars, TypeOK
<1>. QED BY <1>1, WorkerType, KeeperType, EnvironmentType DEF Next

\* TypeOK is an invariant of the specification.
THEOREM TypeCorrect == Spec => []TypeOK
BY InitType, StepType, PTL DEF Spec

----------------------------------------------------------------------------
(* A configuration in use stays.                                            *)

LEMMA InitKept == Init => KeptInv
BY DEF Init, KeptInv, ReleaseOK, JoinedOK

\* A step of one MR that leaves the configurations and their controllers
\* alone disturbs no other MR.
LEMMA KeptByMR ==
    ASSUME TypeOK, KeptInv, NEW c \in MRs,
           UNCHANGED <<configVars, keeperVars>>,
           live' = live \/ live' = live \ {c},
           \A d \in MRs \ {c} : /\ joined'[d] = joined[d] /\ usage'[d] = usage[d]
                                /\ pc'[d] = pc[d] /\ job'[d] = job[d],
           JoinedOK(c)'
    PROVE  KeptInv'
<1>1. \A p \in Configs : ReleaseOK(p)'
  BY DEF KeptInv, ReleaseOK, configVars, keeperVars
<1>2. ASSUME NEW d \in MRs \ {c} PROVE JoinedOK(d)'
  <2>1. JoinedOK(d)
    BY DEF KeptInv
  <2>2. d \in live' <=> d \in live
    OBVIOUS
  <2>3. joined'[d] = joined[d] /\ usage'[d] = usage[d] /\ pc'[d] = pc[d] /\ job'[d] = job[d]
    OBVIOUS
  <2>. QED BY <2>1, <2>2, <2>3 DEF JoinedOK, configVars, keeperVars
<1>. QED BY <1>1, <1>2 DEF KeptInv

LEMMA WorkerKept ==
    ASSUME TypeOK, KeptInv, NEW c \in MRs, Worker(c)
    PROVE  KeptInv'
<1>. USE DEF Goto, mrVars
<1>0. JoinedOK(c)
  BY DEF KeptInv, ReleaseOK, JoinedOK, TypeOK
<1>1. ASSUME Reconcile(c) \/ ReadSecret(c) PROVE KeptInv'
  <2>1. JoinedOK(c)'
    BY <1>0, <1>1 DEF Reconcile, ReadSecret, JoinedOK, TypeOK, configVars, keeperVars
  <2>. QED BY <1>1, <2>1, KeptByMR DEF Reconcile, ReadSecret, TypeOK
<1>2. ASSUME TrackUsage(c) \/ BuildConfig(c) PROVE KeptInv'
  <2>1. JoinedOK(c)'
    BY <1>0, <1>2 DEF TrackUsage, BuildConfig, Track, JoinedOK, TypeOK, configVars, keeperVars
  <2>. QED BY <1>2, <2>1, KeptByMR DEF TrackUsage, BuildConfig, Track, TypeOK
<1>3. ASSUME BuildConfigFails(c) PROVE KeptInv'
  <2>1. JoinedOK(c)'
    BY <1>0, <1>3 DEF BuildConfigFails, Forget, JoinedOK, TypeOK, configVars, keeperVars
  <2>. QED BY <1>3, <2>1, KeptByMR DEF BuildConfigFails, Forget, TypeOK
\* The usage is there, the configuration not being deleted: its controller
\* cannot have found it unused.
<1>4. ASSUME GetConfig(c) PROVE KeptInv'
  <2>1. CASE c \in live /\ config[job[c].ref].final /\ ~config[job[c].ref].deleting
    <3>1. job[c].ref \in Configs /\ pc[c] = "get"
      BY <1>4, CopyType DEF GetConfig
    <3>2. cpc[job[c].ref] # "release"
      BY <2>1, <3>1 DEF KeptInv, ReleaseOK, JoinedOK
    <3>3. joined'[c] = job[c].ref /\ usage[c] = [kind |-> TrackedAs, config |-> job[c].ref]
      BY <1>0, <1>4, <2>1, <3>1 DEF GetConfig, JoinedOK, TypeOK
    <3>4. JoinedOK(c)'
      BY <1>4, <2>1, <3>1, <3>2, <3>3 DEF GetConfig, JoinedOK, TypeOK, configVars, keeperVars
    <3>. QED BY <1>4, <3>4, KeptByMR DEF GetConfig, TypeOK
  <2>2. CASE ~(c \in live /\ config[job[c].ref].final /\ ~config[job[c].ref].deleting)
    <3>1. JoinedOK(c)'
      BY <1>0, <1>4, <2>2 DEF GetConfig, JoinedOK, TypeOK, configVars, keeperVars
    <3>. QED BY <1>4, <3>1, KeptByMR DEF GetConfig, TypeOK
  <2>. QED BY <2>1, <2>2
<1>5. ASSUME \/ ConnectFails(c) \/ Establish(c) \/ Destroy(c)
             \/ RemoveFinalizer(c) \/ Conflict(c)
      PROVE  KeptInv'
  <2>1. JoinedOK(c)'
    BY <1>0, <1>5 DEF ConnectFails, Establish, Destroy, RemoveFinalizer, Conflict, Forget,
                      JoinedOK, TypeOK, configVars, keeperVars
  <2>. QED BY <1>5, <2>1, KeptByMR DEF ConnectFails, Establish, Destroy, RemoveFinalizer,
                                       Conflict, Forget, TypeOK
<1>. QED BY <1>1, <1>2, <1>3, <1>4, <1>5 DEF Worker

LEMMA KeeperKept ==
    ASSUME TypeOK, KeptInv, NEW p \in Configs, Keeper(p)
    PROVE  KeptInv'
<1>. USE DEF unkept, mrVars, workerVars, configVars, CGoto, CForget
<1>1. CASE ConfigRead(p)
  BY <1>1 DEF ConfigRead, KeptInv, ReleaseOK, JoinedOK, TypeOK
<1>2. CASE ConfigKeep(p)
  BY <1>2 DEF ConfigKeep, KeptInv, ReleaseOK, JoinedOK, TypeOK, ConfigObject
\* A usage of every MR that joined p is found.
<1>3. CASE ConfigList(p)
  <2>1. ASSUME NEW c \in MRs, joined[c] = p, Namespaced(p) PROVE InUse(p)
    BY <2>1, ConfigAssumption DEF KeptInv, ReleaseOK, JoinedOK, InUse, UsageOf, TrackedAs, Namespaced
  <2>. QED BY <1>3, <2>1 DEF ConfigList, KeptInv, ReleaseOK, JoinedOK, TypeOK
<1>4. CASE ConfigRelease(p)
  <2>1. \A c \in MRs : joined[c] # Nil /\ Namespaced(joined[c]) => joined[c] # p
    BY <1>4 DEF ConfigRelease, KeptInv, ReleaseOK, JoinedOK
  <2>. QED BY <1>4, <2>1 DEF ConfigRelease, Removed, KeptInv, ReleaseOK, JoinedOK, TypeOK
<1>5. CASE ConfigConflict(p)
  BY <1>5 DEF ConfigConflict, KeptInv, ReleaseOK, JoinedOK, TypeOK
<1>. QED BY <1>1, <1>2, <1>3, <1>4, <1>5 DEF Keeper

LEMMA EnvironmentKept ==
    ASSUME TypeOK, KeptInv,
           \/ \E c \in MRs : CollectUsage(c) \/ DeleteMR(c) \/ EditRef(c)
           \/ \E p \in Configs : DeleteConfig(p) \/ WriteConfig(p)
           \/ \E s \in Secrets : DeleteSecret(s) \/ CreateSecret(s)
           \/ Restart
    PROVE  KeptInv'
<1>. USE DEF mrVars, workerVars, Touched, CTouched
<1>1. ASSUME NEW c \in MRs, CollectUsage(c) PROVE KeptInv'
  <2>1. JoinedOK(c)'
    BY <1>1 DEF CollectUsage, KeptInv, ReleaseOK, JoinedOK, configVars, keeperVars
  <2>. QED BY <1>1, <2>1, KeptByMR DEF CollectUsage, TypeOK
<1>2. ASSUME NEW c \in MRs, DeleteMR(c) PROVE KeptInv'
  <2>1. JoinedOK(c)'
    BY <1>2 DEF DeleteMR, KeptInv, ReleaseOK, JoinedOK, configVars, keeperVars, TypeOK
  <2>. QED BY <1>2, <2>1, KeptByMR DEF DeleteMR, TypeOK
<1>3. ASSUME NEW c \in MRs, EditRef(c) PROVE KeptInv'
  BY <1>3 DEF EditRef, KeptInv, ReleaseOK, JoinedOK, configVars, keeperVars
\* What joined p found its finalizer set.
<1>4. ASSUME NEW p \in Configs, DeleteConfig(p) PROVE KeptInv'
  <2>1. \A q \in Configs \ {p} : config'[q] = config[q] /\ (q \in configs' <=> q \in configs)
    BY <1>4 DEF DeleteConfig, Removed, TypeOK
  <2>2. config[p].final => p \in configs' /\ config'[p].final /\ config'[p].deleting
    <3>1. config \in [Configs -> ConfigObject]
      BY DEF TypeOK
    <3>. QED BY <1>4, <3>1 DEF DeleteConfig, Removed, ConfigObject
  <2>3. \A d \in MRs : JoinedOK(d)'
    BY <1>4, <2>1, <2>2 DEF DeleteConfig, KeptInv, JoinedOK, TypeOK
  <2>4. \A q \in Configs : ReleaseOK(q)'
    BY <1>4, <2>1, <2>2 DEF DeleteConfig, KeptInv, ReleaseOK
  <2>. QED BY <2>3, <2>4 DEF KeptInv
<1>5. ASSUME NEW p \in Configs, WriteConfig(p) PROVE KeptInv'
  <2>0. config \in [Configs -> ConfigObject]
    BY DEF TypeOK
  <2>1. \A q \in Configs : /\ config'[q].final = config[q].final
                           /\ config'[q].deleting = config[q].deleting
    BY <1>5, <2>0 DEF WriteConfig, ConfigObject
  <2>2. configs \subseteq configs' /\ UNCHANGED <<usage, mrVars, workerVars, cpc, joined>>
    BY <1>5 DEF WriteConfig, Admin
  <2>3. \A q \in Configs : ReleaseOK(q)'
    BY <2>1, <2>2 DEF KeptInv, ReleaseOK
  <2>4. \A d \in MRs : JoinedOK(d)'
    <3>1. \A d \in MRs : joined[d] \in Configs \cup {Nil}
      BY DEF TypeOK
    <3>. QED BY <2>1, <2>2, <3>1, ConfigAssumption DEF KeptInv, JoinedOK
  <2>. QED BY <2>3, <2>4 DEF KeptInv
<1>6. ASSUME NEW s \in Secrets, DeleteSecret(s) \/ CreateSecret(s) PROVE KeptInv'
  BY <1>6 DEF DeleteSecret, CreateSecret, Admin, KeptInv, ReleaseOK, JoinedOK, configVars
<1>7. ASSUME Restart PROVE KeptInv'
  BY <1>7 DEF Restart, KeptInv, ReleaseOK, JoinedOK, configVars, TypeOK
<1>. QED BY <1>1, <1>2, <1>3, <1>4, <1>5, <1>6, <1>7

LEMMA StepKept == TypeOK /\ KeptInv /\ [Next]_vars => KeptInv'
<1>1. ASSUME KeptInv, UNCHANGED vars PROVE KeptInv'
  BY <1>1 DEF vars, configVars, mrVars, workerVars, keeperVars, KeptInv, ReleaseOK, JoinedOK
<1>. QED BY <1>1, WorkerKept, KeeperKept, EnvironmentKept DEF Next

\* However the workers of MRs and configurations, users and crashes
\* interleave, a ProviderConfig stays while an MR that joined it uses it.
THEOREM ConfigsInUseAreKept == Spec => []UsedConfigKept
<1>1. KeptInv => UsedConfigKept
  BY DEF KeptInv, ReleaseOK, JoinedOK, UsedConfigKept
<1>2. Spec => []KeptInv
  BY InitKept, StepKept, TypeCorrect, PTL DEF Spec
<1>. QED BY <1>1, <1>2, PTL
==============================================================================
