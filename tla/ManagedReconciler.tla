------------------------- MODULE ManagedReconciler -------------------------
(***************************************************************************)
(* The managed reconciler of crossplane-runtime and the API server, as the  *)
(* controllers of the provider use them.  A controller's module declares    *)
(* the variables below, instantiates this module and adds the steps of its  *)
(* external client: Observe, Create, Update, Delete.                        *)
(*                                                                          *)
(* Each managed resource (MR) has a worker: one reconcile runs at a time    *)
(* for an MR, reconciles of different MRs interleave.  A step of a worker   *)
(* is one call to the API server or, in the controllers' modules, to        *)
(* SonarQube.                                                               *)
(*                                                                          *)
(* An object is a record with at least the fields                           *)
(*   ext       the external-name annotation                                 *)
(*   seen      status.atProvider                                            *)
(*   pending   a creation was announced and its outcome not recorded (the   *)
(*             external-create-* annotations)                               *)
(*   final     the finalizer is set                                         *)
(*   deleting  the deletion timestamp is set                                *)
(***************************************************************************)
EXTENDS Naturals

CONSTANTS
    MRs,            \* the managed resources
    FaultyCalls,    \* the calls that may fail although SonarQube would serve them
    NoObject,       \* what a worker holds between two reconciles
    NoTodo,         \* no call left to make
    Decode(_, _)    \* Decode(sent, stored): what an object sent may be like in
                    \* memory, the reply with the status of stored decoded over it

VARIABLES
    live,       \* the API server: the MRs that exist
    mr,         \* mr[c]: the stored object
    pc,         \* pc[c]: the step the worker of c is at
    mem,        \* mem[c]: the worker's copy of the object
    stale,      \* stale[c]: the object changed since the copy was read
    verdict,    \* verdict[c]: what Observe returned
    todo,       \* todo[c]: the calls Update has still to make
    budget      \* what is left of the bounds

Budget == [edits : Nat, admin : Nat, faults : Nat, crashes : Nat]

\* ResourceExists, ResourceLateInitialized and ResourceUpToDate.
Verdict == [exists : BOOLEAN, late : BOOLEAN, upToDate : BOOLEAN]
Absent == [exists |-> FALSE, late |-> FALSE, upToDate |-> FALSE]

\* A call fails although SonarQube would serve it.
Fault(call) ==
    /\ call \in FaultyCalls
    /\ budget.faults > 0
    /\ budget' = [budget EXCEPT !.faults = @ - 1]

\* client.Update by the worker of c: refused when the object changed since it
\* was read.  All but the status is stored, and the reply is decoded in place,
\* over the copy that was sent.
ClientUpdate(c, object) ==
    /\ ~stale[c]
    /\ mr' = [mr EXCEPT ![c] = [object EXCEPT !.seen = mr[c].seen]]
    /\ \E copy \in Decode(object, mr[c]) : mem' = [mem EXCEPT ![c] = copy]

Goto(c, label) == pc' = [pc EXCEPT ![c] = label]

\* The reconcile of c ends; nothing of it is kept in memory.
Forget(c) ==
    /\ Goto(c, "idle")
    /\ mem' = [mem EXCEPT ![c] = NoObject]
    /\ stale' = [stale EXCEPT ![c] = FALSE]
    /\ verdict' = [verdict EXCEPT ![c] = Absent]
    /\ todo' = [todo EXCEPT ![c] = NoTodo]

\* The step after Observe, given the finalizer is set.
AfterObserve(v) ==
    IF ~v.exists THEN "pending"
    ELSE IF v.late THEN "persist"
    ELSE IF v.upToDate THEN "report" ELSE "update"

\* Observe returns v: a deletion goes by its existence alone.
ObserveReturns(c, v) ==
    /\ verdict' = [verdict EXCEPT ![c] = v]
    /\ Goto(c, IF mem[c].deleting THEN IF v.exists THEN "destroy" ELSE "unfinalize"
               ELSE IF mem[c].final THEN AfterObserve(v) ELSE "finalize")

----------------------------------------------------------------------------
(* The steps of a reconcile around those of the external client.            *)

\* A reconcile starts: the object is read.  The runtime refuses one whose
\* creation was announced and not concluded, deletion included: it cannot know
\* whether the external resource exists, and waits for a human.
Reconcile(c) ==
    /\ pc[c] = "idle"
    /\ c \in live
    /\ ~mr[c].pending
    /\ mem' = [mem EXCEPT ![c] = mr[c]]
    /\ Goto(c, "observe")
    /\ UNCHANGED <<live, mr, stale, verdict, todo, budget>>

\* AddFinalizer: the whole copy is written, late initialised fields included.
AddFinalizer(c) ==
    /\ pc[c] = "finalize"
    /\ ClientUpdate(c, [mem[c] EXCEPT !.final = TRUE])
    /\ Goto(c, AfterObserve(verdict[c]))
    /\ UNCHANGED <<live, stale, verdict, todo, budget>>

\* The creation is announced (external-create-pending) before it is tried.
AnnounceCreate(c) ==
    /\ pc[c] = "pending"
    /\ ClientUpdate(c, [mem[c] EXCEPT !.pending = TRUE])
    /\ Goto(c, "create")
    /\ UNCHANGED <<live, stale, verdict, todo, budget>>

\* UpdateCriticalAnnotations: external name and outcome are recorded whether
\* Create succeeded or not, on the latest object if the copy is stale.
RecordCreate(c) ==
    /\ pc[c] = "record"
    /\ mr' = IF c \in live
               THEN [mr EXCEPT ![c].ext = mem[c].ext, ![c].pending = FALSE]
               ELSE mr
    /\ Forget(c)
    /\ UNCHANGED <<live, budget>>

\* The late initialised desired state is persisted.
PersistLateInit(c) ==
    /\ pc[c] = "persist"
    /\ ClientUpdate(c, mem[c])
    /\ Goto(c, IF verdict[c].upToDate THEN "report" ELSE "update")
    /\ UNCHANGED <<live, stale, verdict, todo, budget>>

\* Status().Update; the MR is queued again, at once or at the next poll.
ReportStatus(c) ==
    /\ pc[c] = "report"
    /\ ~stale[c]
    /\ mr' = [mr EXCEPT ![c].seen = mem[c].seen]
    /\ Forget(c)
    /\ UNCHANGED <<live, budget>>

\* RemoveFinalizer: Observe found nothing, the object may go.
RemoveFinalizer(c) ==
    /\ pc[c] = "unfinalize"
    /\ ~stale[c]
    /\ live' = live \ {c}
    /\ Forget(c)
    /\ UNCHANGED <<mr, budget>>

\* A write of a stale copy is refused; the reconcile ends and is retried.
Conflict(c) ==
    /\ pc[c] \in {"finalize", "pending", "persist", "report", "unfinalize"}
    /\ stale[c]
    /\ Forget(c)
    /\ UNCHANGED <<live, mr, budget>>

\* The provider process dies and restarts: what the workers held is lost.
Crash ==
    /\ budget.crashes > 0
    /\ \E c \in MRs : pc[c] # "idle"
    /\ budget' = [budget EXCEPT !.crashes = @ - 1]
    /\ pc' = [c \in MRs |-> "idle"]
    /\ mem' = [c \in MRs |-> NoObject]
    /\ stale' = [c \in MRs |-> FALSE]
    /\ verdict' = [c \in MRs |-> Absent]
    /\ todo' = [c \in MRs |-> NoTodo]
    /\ UNCHANGED <<live, mr>>

----------------------------------------------------------------------------
(* Users.                                                                   *)

Touched(c) == stale' = [stale EXCEPT ![c] = pc[c] # "idle"]

\* The user changes the desired state of the MR: the object becomes object.
Edit(c, object) ==
    /\ budget.edits > 0
    /\ c \in live /\ ~mr[c].deleting
    /\ object # mr[c]
    /\ mr' = [mr EXCEPT ![c] = object]
    /\ Touched(c)
    /\ budget' = [budget EXCEPT !.edits = @ - 1]
    /\ UNCHANGED <<live, pc, mem, verdict, todo>>

\* The user deletes the MR; with no finalizer it is gone at once.
DeleteMR(c) ==
    /\ c \in live /\ ~mr[c].deleting
    /\ IF mr[c].final
         THEN mr' = [mr EXCEPT ![c].deleting = TRUE] /\ UNCHANGED live
         ELSE live' = live \ {c} /\ UNCHANGED mr
    /\ Touched(c)
    /\ UNCHANGED <<pc, mem, verdict, todo, budget>>

\* An administrator changes SonarQube by hand.
Admin ==
    /\ budget.admin > 0
    /\ budget' = [budget EXCEPT !.admin = @ - 1]
    /\ UNCHANGED <<live, mr, pc, mem, stale, verdict, todo>>
============================================================================
