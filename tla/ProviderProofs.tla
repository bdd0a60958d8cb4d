----------------------------- MODULE ProviderProofs -----------------------------
(***************************************************************************)
(* Theorems about Provider: what the two controllers guarantee each other. *)
(* The argument is Cluster API's order.  As long as it is kept, the        *)
(* JujuCluster is there while any JujuMachine is, so that its controller   *)
(* takes nothing away (Stands, of JujuClusterSafety), and no request of    *)
(* the JujuMachine controller is refused; and a JujuMachine that holds a   *)
(* machine is there, so that nothing takes the machine away but the pass   *)
(* that deletes it.  Each half rests on the invariants of one controller,  *)
(* which the steps of the other leave alone; MS is JujuMachineSafety, with *)
(* its theorems, for the variables of Provider.                            *)
(***************************************************************************)
EXTENDS Provider, JujuClusterSafety

MS == INSTANCE JujuMachineSafety WITH
    Objects <- JujuMachines, Apps <- BootstrapApps,
    UseJujuProviderID <- JujuMachines, LateBootstrap <- {},
    LatePrerequisites <- {"infrastructureReady", "jujuCluster", "config", "model",
                          "kubeconfig"},
    FaultBudget <- [k \in MachineFaults |-> 0], budget <- [k \in MachineFaults |-> 0],
    provided <- Provided, stored <- mStored, cache <- mCache, queue <- mQueue,
    bootstrapped <- mBootstrapped, pc <- mPc, cur <- mCur, before <- mBefore,
    mem <- mMem, requeue <- mRequeue, pass <- mPass, mstate <- mState,
    creator <- mCreator, units <- mUnits, dup <- mDup, node <- mNode

--------------------------------------------------------------------------------
(* The inductive invariant                                                 *)

\* Whatever the order: everything is typed, every copy of a JujuMachine is older
\* than the object, and the JujuCluster was not deleted early unless it was deleted.
BaseInv ==
    /\ Inv /\ Within /\ MS!Inv /\ MS!CopiesInv
    /\ infrastructureReady \in BOOLEAN /\ early \in BOOLEAN
    /\ early => Ended(stored)

\* In Cluster API's order the JujuCluster outlives the JujuMachines, and no pass
\* speaks to the model before the infrastructure has been ready.
OrderInv ==
    /\ Ended(stored) => \A o \in JujuMachines : ~mStored[o].present
    /\ infrastructureReady => Ended(stored) \/ "ready" \in stored
    /\ mPass.modelKnown => infrastructureReady

\* An object is there while a pass works under its finalizer, and nobody who knows
\* an object that a machine was asked for knows it without the finalizer.
HeldInv ==
    /\ mPc \notin {"idle", "patchStatus"} /\ mBefore.finalizer => mStored[mCur].present
    /\ \A i \in MachineIDs, o \in JujuMachines : mCreator[i] = o =>
          /\ mCache[o].present => mCache[o].finalizer
          /\ mPc # "idle" /\ mCur = o => mBefore.finalizer

ClusterInv == EditInv /\ HostInv /\ FoundInv
MachineInv == MS!StaleInv /\ MS!PlacedInv /\ MS!ReleaseInv /\ MS!AliveInv /\ HeldInv

\* Of the faults that hit more than Juju, only the death of the process may happen.
CrashesOnly == \A k \in OtherThanJuju \ {"crash"} : FaultBudget[k] = 0

\* What JujuCluster's BootInv says, now whenever the process may have died in
\* Cluster API's order; and a machine is recorded unless it has.
DataInv   == DataGood /\ JobAlone /\ JobLast /\ Undisturbed
RecordInv == Spared({"crash"}) => MS!RecordInv

TimelyInv == ~early => OrderInv /\ ClusterInv /\ MachineInv
CrashInv  == CrashesOnly /\ ~early => DataInv /\ RecordInv
AllInv    == BaseInv /\ TimelyInv /\ CrashInv

--------------------------------------------------------------------------------
(* The two instances of JujuMachine                                        *)

\* What Provider takes from JujuMachine under the name of M is what the theorems say
\* under the name of MS: both put the same for every variable and constant.
LEMMA SameWorker == M!Worker <=> MS!Worker
BY DEF
    M!Worker, MS!Worker, M!WaitForOwner, MS!WaitForOwner, M!EndPass, MS!EndPass,
    M!Absent, MS!Absent, M!NoPass, MS!NoPass, M!env, MS!env, M!juju, MS!juju,
    M!WaitForCluster, MS!WaitForCluster, M!ConnectToModel, MS!ConnectToModel,
    M!Spend, MS!Spend, M!k8s, MS!k8s, M!CallFails, MS!CallFails, M!JujuCalls,
    MS!JujuCalls, M!Return, MS!Return, M!AddFinalizer, MS!AddFinalizer,
    M!ReleaseWithoutMachine, MS!ReleaseWithoutMachine, M!ID, MS!ID, M!StartDeletion,
    MS!StartDeletion, M!Goto, MS!Goto, M!ReleaseAfterMachine,
    MS!ReleaseAfterMachine, M!Call, MS!Call, M!MayRelease, MS!MayRelease, M!InModel,
    MS!InModel, M!MachineRemains, MS!MachineRemains, M!ListUnits, MS!ListUnits,
    M!Victims, MS!Victims, M!UnitsRequested, MS!UnitsRequested, M!DestroyUnit,
    MS!DestroyUnit, M!ReplyLost, MS!ReplyLost, M!StartProvisioning,
    MS!StartProvisioning, M!AddMachine, MS!AddMachine, M!GetMachineNil,
    MS!GetMachineNil, M!MachineNotReady, MS!MachineNotReady, M!MachineStarted,
    MS!MachineStarted, M!AddUnit, MS!AddUnit, M!AppsNotReady, MS!AppsNotReady,
    M!UnitFound, MS!UnitFound, M!UnitMissing, MS!UnitMissing, M!AppsReady,
    MS!AppsReady, M!MarkReady, MS!MarkReady, M!NodeMissing, MS!NodeMissing,
    M!JujuProvider, MS!JujuProvider, M!NodeFound, MS!NodeFound, M!SetProviderID,
    MS!SetProviderID, M!UpdateNode, MS!UpdateNode, M!UpdateNodeFails,
    MS!UpdateNodeFails, M!CloudProvider, MS!CloudProvider, M!AddressesRead,
    MS!AddressesRead, M!MachineVanished, MS!MachineVanished, M!PatchSpec,
    MS!PatchSpec, M!SpecChanged, MS!SpecChanged, M!Collected, MS!Collected,
    M!Merged, MS!Merged, M!PatchSpecFails, MS!PatchSpecFails, M!PatchStatus,
    MS!PatchStatus, M!StatusChanged, MS!StatusChanged, M!PatchStatusFails,
    MS!PatchStatusFails

LEMMA SameObjects ==
    \A o \in JujuMachines :
        /\ (M!Begin(o) <=> MS!Begin(o)) /\ (M!Forget(o) <=> MS!Forget(o))
        /\ (M!Observe(o) <=> MS!Observe(o)) /\ (M!SetOwner(o) <=> MS!SetOwner(o))
        /\ (M!Delete(o) <=> MS!Delete(o))
BY DEF
    M!Begin, MS!Begin, M!ReadFromCache, MS!ReadFromCache, M!Spend, MS!Spend,
    M!NoPass, MS!NoPass, M!env, MS!env, M!juju, MS!juju, M!Forget, MS!Forget,
    M!local, MS!local, M!Observe, MS!Observe, M!SetOwner, MS!SetOwner, M!Delete,
    MS!Delete, M!Collected, MS!Collected, M!Absent, MS!Absent

LEMMA SameMachines ==
    \A i \in MachineIDs :
        /\ (M!MachineStarts(i) <=> MS!MachineStarts(i))
        /\ (M!MachineStops(i) <=> MS!MachineStops(i))
        /\ (M!NodeRegisters(i) <=> MS!NodeRegisters(i))
        /\ \A a \in BootstrapApps : /\ (M!UnitSettles(i, a) <=> MS!UnitSettles(i, a))
                                    /\ (M!UnitRemoved(i, a) <=> MS!UnitRemoved(i, a))
BY DEF
    M!MachineStarts, MS!MachineStarts, M!k8s, MS!k8s, M!env, MS!env, M!local,
    MS!local, M!MachineStops, MS!MachineStops, M!NodeRegisters, MS!NodeRegisters,
    M!juju, MS!juju, M!UnitSettles, MS!UnitSettles, M!SetUnit, MS!SetUnit,
    M!UnitRemoved, MS!UnitRemoved

LEMMA SameTerms ==
    /\ \A i \in MachineIDs : M!InModel(i) <=> MS!InModel(i)
    /\ M!NoPass = MS!NoPass /\ M!Absent = MS!Absent /\ M!JujuCalls = MS!JujuCalls
    /\ M!Return(mMem, TRUE) <=> MS!Return(mMem, TRUE)
    /\ M!Goto("panicked") <=> MS!Goto("panicked")
    /\ M!Init <=> MS!Init
BY DEF
    M!InModel, MS!InModel, M!NoPass, MS!NoPass, M!Absent, MS!Absent, M!JujuCalls,
    MS!JujuCalls, M!Return, MS!Return, M!Goto, MS!Goto, M!Init, MS!Init, M!Created, MS!Created,
    M!Prerequisites, MS!Prerequisites

\* What the theorems of JujuMachineSafety assume of the constants.
LEMMA MachineConstants ==
    /\ MachineFaults = MS!FaultKinds
    /\ [k \in MachineFaults |-> 0] \in [MS!FaultKinds -> Nat]
    /\ JujuMachines \subseteq JujuMachines /\ {} \subseteq JujuMachines
    /\ {"infrastructureReady", "jujuCluster", "config", "model", "kubeconfig"}
          \subseteq MS!Prerequisites
    /\ Provided \subseteq MS!Prerequisites
    /\ MS!ProviderIDs = M!ProviderIDs
    /\ None \notin JujuMachines \cup BootstrapApps \cup MachineIDs \cup MS!ProviderIDs
BY MachinesAssumption
DEF MachineFaults, MS!FaultKinds, MS!Prerequisites, Provided, MS!ProviderIDs, M!ProviderIDs

\* A lemma of JujuMachineSafety is cited under these assumptions.
USE MachineConstants

--------------------------------------------------------------------------------
(* The kinds of steps                                                      *)

\* A step of the JujuCluster controller or its surroundings, and one of the
\* JujuMachine controller or its.
ClusterStep ==
    /\ UNCHANGED mVars
    /\ \/ Begin \/ Worker \/ Observe \/ ObserveOthers \/ SetOwner \/ RunJob
       \/ CollectRegistration \/ Juju \/ UNCHANGED vars
MachineStep == UNCHANGED <<vars, between>> /\ [MS!Next]_(MS!vars)

\* The JujuMachine controller's request is refused, or about what is not there.
RefusedStep == /\ \/ Refused /\ MS!Return(mMem, TRUE)
                  \/ \E a \in BootstrapApps : Unknown(a) /\ MS!Goto("panicked")
               /\ UNCHANGED <<vars, between, mObjects, mJuju, mNode>>

\* What Juju does to the machines when their application, model or controller goes.
Follows == \E i \in MachineIDs : \/ MachineFollows(i)
                                 \/ \E a \in BootstrapApps : UnitFollows(i, a)

LEMMA MachineMoves ==
    ASSUME \/ MachineWorks
           \/ \E i \in MachineIDs : MachineLives(i)
           \/ \E o \in JujuMachines : \/ MachineBegins(o) \/ MachineObserved(o)
                                      \/ MachineOwned(o) \/ DeleteMachine(o)
    PROVE  MachineStep \/ RefusedStep
<1>1. CASE MachineWorks
    BY <1>1, SameWorker, SameTerms DEF MachineWorks, MachineStep, RefusedStep, MS!Next
<1>2. CASE \E i \in MachineIDs : MachineLives(i)
    BY <1>2, SameMachines DEF MachineLives, MachineStep, MS!Next, MS!Juju
<1>3. CASE \E o \in JujuMachines : \/ MachineBegins(o) \/ MachineObserved(o)
                                   \/ MachineOwned(o) \/ DeleteMachine(o)
    BY <1>3, SameObjects DEF MachineBegins, MachineObserved, MachineOwned, DeleteMachine,
       MachineStep, MS!Next, MS!Take, MS!Kubernetes
<1> QED
    BY <1>1, <1>2, <1>3

LEMMA StepKinds ==
    ASSUME [NextAll]_allVars
    PROVE  \/ ClusterStep /\ (UNCHANGED between \/ InfrastructureReady)
           \/ DeleteCluster \/ MachineStep \/ RefusedStep \/ RestartBoth \/ ControllerGone \/ Follows
<1>1. CASE \/ ClusterBegins \/ ClusterWorks \/ ObjectsChange \/ ModelRemovedLast
           \/ \E a \in Apps : AppSettlesAlone(a) \/ AppRemovedLast(a)
    BY <1>1 DEF ClusterBegins, ClusterWorks, ObjectsChange, ModelRemovedLast, AppSettlesAlone,
       AppRemovedLast, ClusterStep, Juju
<1>2. CASE DeleteCluster \/ InfrastructureReady
    BY <1>2 DEF InfrastructureReady, ClusterStep
<1>3. CASE \/ MachineWorks
           \/ \E i \in MachineIDs : MachineLives(i)
           \/ \E o \in JujuMachines : \/ MachineBegins(o) \/ MachineObserved(o)
                                      \/ MachineOwned(o) \/ DeleteMachine(o)
    BY <1>3, MachineMoves
<1>4. CASE \/ ControllerGone
           \/ \E i \in MachineIDs : MachineFollows(i) \/ \E a \in BootstrapApps : UnitFollows(i, a)
    BY <1>4 DEF Follows
<1>5. CASE RestartBoth
    BY <1>5
<1>6. CASE UNCHANGED allVars
    BY <1>6 DEF allVars, ClusterStep
<1> QED
    BY <1>1, <1>2, <1>3, <1>4, <1>5, <1>6 DEF NextAll, InJuju

\* To the JujuCluster every step but a restart is one of its own, and no crash.
Calm == Begin \/ Worker \/ Kubernetes \/ Juju \/ UNCHANGED vars

LEMMA ClusterSide ==
    ASSUME [NextAll]_allVars
    PROVE  RestartBoth \/ (Calm /\ [Next]_vars)
<1>1. Calm => [Next]_vars
    BY DEF Calm, Next
<1>2. ControllerGone => Calm
    BY DEF ControllerGone, Calm, Kubernetes
<1>3. ClusterStep \/ DeleteCluster => Calm
    BY DEF ClusterStep, DeleteCluster, Calm, Kubernetes
<1>4. MachineStep \/ RefusedStep \/ Follows => Calm
    BY DEF MachineStep, RefusedStep, Follows, MachineFollows, UnitFollows, Calm
<1> QED
    BY <1>1, <1>2, <1>3, <1>4, StepKinds

LEMMA CalmBudget ==
    ASSUME Inv, Calm
    PROVE  ~Spend("crash")
<1>1. UNCHANGED budget \/ \E k \in FaultKinds \ {"crash"} : Spend(k)
    BY CalmSpending DEF Calm
<1> QED
    BY <1>1 DEF Spend, Inv, TypeOK, FaultKinds

\* With Restart spent by the panic of the other controller as well, JujuCluster's
\* theorems do not speak of it; a restart is easy on every invariant, though.
LEMMA RestartKeeps ==
    ASSUME Inv, Within, RestartBoth
    PROVE  /\ Inv' /\ Within'
           /\ EditInv' /\ (HostInv => HostInv')
           /\ EditInv /\ FoundInv => FoundInv'
<1>1. BudgetTyped' /\ Within'
    <2>1. CASE UNCHANGED budget
        BY <2>1 DEF Inv, TypeOK, BudgetTyped, Within
    <2>2. CASE Spend("crash")
        <3>1. BudgetTyped'
            BY <2>2, SpendTyped DEF Inv, TypeOK, BudgetTyped, FaultKinds
        <3>2. \A k \in FaultKinds : budget'[k] <= budget[k]
            BY <2>2 DEF Inv, TypeOK, Spend
        <3> QED
            BY <3>1, <3>2, BudgetAssumption DEF Inv, TypeOK, BudgetTyped, Within
    <2> QED
        BY <2>1, <2>2 DEF RestartBoth, SpendIf
<1>2. /\ pc' = "idle" /\ before' = {} /\ mem' = {} /\ pass' = NoPass
      /\ cache' = stored /\ seen' = kube /\ queued' \in BOOLEAN
      /\ UNCHANGED <<stored, kube, juju, valid>>
    BY DEF RestartBoth
<1>3. Inv'
    <2>1. ObjectsKept' /\ KubeTyped' /\ JujuTyped'
        BY <1>2, Parts DEF ObjectsKept, StoredWhole, Copies, Sound, Ended, Building, KubeTyped,
           JujuTyped, juju
    <2>2. PassInv'
        BY <1>2, NoPassTyped DEF PassInv, PassTyped, Position, Steps, BuildSteps, TearSteps
    <2> QED
        BY <1>1, <1>2, <2>1, <2>2, PartsNext
<1>4. EditInv'
    BY <1>2 DEF EditInv
<1>5. HostInv => HostInv'
    BY <1>2 DEF HostInv, juju
<1>6. EditInv /\ FoundInv => FoundInv'
    <2>1. EditInv /\ FoundInv /\ ~Ended(stored) => Standing
        BY Stands
    <2> QED
        BY <1>2, <2>1 DEF FoundInv, Standing, Whole, Ended, Building, Deferred, juju
<1> QED
    BY <1>1, <1>3, <1>4, <1>5, <1>6

LEMMA ClusterNext ==
    ASSUME Inv, Within, [NextAll]_allVars
    PROVE  /\ Inv' /\ Within'
           /\ ClusterInv => ClusterInv'
<1>1. CASE RestartBoth
    BY <1>1, RestartKeeps DEF ClusterInv
<1>2. CASE [Next]_vars
    <2>1. Inv' /\ Within'
        BY <1>2, InvNext, Unspent
    <2> QED
        BY <1>2, <2>1, HostNext, EditNext, FoundNext DEF ClusterInv
<1> QED
    BY <1>1, <1>2, ClusterSide

\* As long as nothing else fails, the process may die before the teardown, and only
\* then does it: nothing of the bootstrap is half done, and the job leaves data.
LEMMA DataKept ==
    ASSUME Inv, Within, ClusterInv, CrashesOnly, DataInv, mPc # "panicked",
           [NextAll]_allVars
    PROVE  DataInv'
<1>1. CASE RestartBoth
    <2>1. /\ pc' = "idle" /\ before' = {} /\ pass' = NoPass /\ seen' = kube
          /\ UNCHANGED <<stored, kube>> /\ "deleted" \notin stored
        BY <1>1 DEF RestartBoth, Panicked, DataInv, DataGood
    <2>2. stored # {} => pc \notin TearSteps
        BY <2>1, Stands DEF Ended, ClusterInv
    <2>3. "namespace" \in kube /\ "job" \notin kube => stored = {}
        BY <2>2 DEF DataInv, JobLast, TearSteps
    <2>4. DataGood'
        BY <2>1 DEF DataInv, DataGood, NoPass
    <2>5. JobAlone' /\ JobLast'
        BY <2>1, <2>3 DEF DataInv, JobAlone, JobLast
    <2>6. Undisturbed'
        BY <2>1 DEF Undisturbed, InTeardown, TearSteps
    <2> QED
        BY <2>4, <2>5, <2>6 DEF DataInv
<1>2. CASE Calm /\ [Next]_vars
    <2>1. \A k \in OtherThanJuju \ {"crash"} : ~Spend(k)
        BY DEF CrashesOnly, Within, Spend, OtherThanJuju, Inv, TypeOK
    <2>2. JujuOnly
        BY <1>2, <2>1, CalmBudget DEF JujuOnly, OtherThanJuju, FaultKinds
    <2> QED
        BY <1>2, <2>2, DataNext, JobAloneNext, JobLastNext, UndisturbedNext
        DEF DataInv, ClusterInv
<1> QED
    BY <1>1, <1>2, ClusterSide

--------------------------------------------------------------------------------
(* The JujuMachine's side                                                  *)

\* Provider spends no fault of JujuMachine.
LEMMA NothingSpent ==
    /\ \A kinds \in SUBSET MS!FaultKinds : MS!Spared(kinds) /\ MS!Spared(kinds)'
    /\ MS!OnceAtMost("stale") /\ MS!OnceAtMost("stale")'
    /\ MS!Within /\ MS!Within' /\ MS!BudgetTyped /\ MS!BudgetTyped'
    /\ \A kind \in MS!FaultKinds : ~MS!Spend(kind)
<1>1. MachineFaults = MS!FaultKinds
    BY MachineConstants
<1>2. \A kind \in MS!FaultKinds : [k \in MachineFaults |-> 0][kind] = 0
    BY <1>1
<1>3. "stale" \in MS!FaultKinds
    BY DEF MS!FaultKinds
<1> QED
    BY <1>1, <1>2, <1>3 DEF MS!Spared, MS!OnceAtMost, MS!Within, MS!BudgetTyped, MS!Spend

\* What the steps of the JujuCluster leave alone.
LEMMA MachineFrame ==
    ASSUME UNCHANGED mVars
    PROVE  /\ MS!Inv => MS!Inv'
           /\ MS!CopiesInv => MS!CopiesInv'
           /\ MS!StaleInv => MS!StaleInv'
           /\ MS!PlacedInv => MS!PlacedInv'
           /\ MS!ReleaseInv => MS!ReleaseInv'
           /\ MS!AliveInv => MS!AliveInv'
           /\ MS!RecordInv => MS!RecordInv'
           /\ HeldInv => HeldInv'
<1> USE DEF mVars, mObjects, mLocal, mJuju
<1>1. MS!Inv => MS!Inv'
    <2>1. Provided' \subseteq MS!Prerequisites
        BY DEF Provided, MS!Prerequisites
    <2> QED
        BY <2>1, NothingSpent DEF MS!Inv, MS!TypeOK, MS!KubernetesTyped, MS!WorkerTyped,
           MS!JujuTyped, MS!HasObject, MS!HasMachine, MS!AddsMissing, MS!OneUnitPerApp, MS!ID
<1>2. MS!CopiesInv => MS!CopiesInv'
    BY DEF MS!CopiesInv, MS!Unplaced, MS!CopyInv, MS!Copies, MS!CopiesOf, MS!Issued,
       MS!Read, MS!Position, MS!Edits, MS!OwnMachine, MS!ID
<1>3. MS!StaleInv => MS!StaleInv'
    BY NothingSpent DEF MS!StaleInv, MS!FaultKinds
<1>4. MS!PlacedInv => MS!PlacedInv'
    BY DEF MS!PlacedInv, MS!InModel, MS!ID
<1>5. MS!ReleaseInv => MS!ReleaseInv'
    BY DEF MS!ReleaseInv
<1>6. MS!AliveInv => MS!AliveInv'
    BY NothingSpent DEF MS!AliveInv, MS!FaultKinds, MS!Leaving
<1>7. MS!RecordInv => MS!RecordInv'
    BY NothingSpent DEF MS!RecordInv, MS!FaultKinds, MS!InModel
<1>8. HeldInv => HeldInv'
    BY DEF HeldInv
<1> QED
    BY <1>1, <1>2, <1>3, <1>4, <1>5, <1>6, <1>7, <1>8

\* What becomes of the machines and units when their owner in Juju goes: they leave,
\* and a machine that stops or is gone has no units.
LEMMA FateChanges ==
    ASSUME MS!Inv, MS!CopiesInv, ControllerGone \/ Follows
    PROVE  /\ UNCHANGED <<mObjects, mLocal, mCreator, mDup, mNode, between>>
           /\ mState' \in [MachineIDs -> MS!Machines]
           /\ mUnits' \in [MachineIDs -> [BootstrapApps -> MS!UnitStates]]
           /\ \A i \in MachineIDs :
                 /\ mState'[i] = "absent" <=> mState[i] = "absent"
                 /\ MS!InModel(i)' => MS!InModel(i)
                 /\ mState[i] = "gone" => mState'[i] = "gone"
                 /\ \A a \in BootstrapApps :
                       mUnits[i][a] = "none" => mUnits'[i][a] = "none"
           /\ MS!PlacedInv => \A i \in MachineIDs, a \in BootstrapApps :
                 mState'[i] \in {"stopping", "gone"} => mUnits'[i][a] = "none"
<1> USE DEF MS!InModel, MS!Machines, MS!UnitStates
<1>1. /\ mState \in [MachineIDs -> MS!Machines]
      /\ mUnits \in [MachineIDs -> [BootstrapApps -> MS!UnitStates]]
    BY DEF MS!Inv, MS!TypeOK, MS!JujuTyped
<1>2. CASE ControllerGone
    BY <1>1, <1>2, SameTerms DEF ControllerGone, between
<1>3. ASSUME NEW i \in MachineIDs, MachineFollows(i)
      PROVE  /\ UNCHANGED <<mObjects, mLocal, mCreator, mDup, mNode, between, mUnits>>
             /\ mState[i] \in {"pending", "started"}
             /\ \A a \in BootstrapApps : mUnits[i][a] = "none"
             /\ mState' = [mState EXCEPT ![i] = "stopping"]
    BY <1>3 DEF MachineFollows
<1>4. ASSUME NEW i \in MachineIDs, NEW b \in BootstrapApps, UnitFollows(i, b)
      PROVE  /\ UNCHANGED <<mObjects, mLocal, mCreator, mDup, mNode, between, mState>>
             /\ mUnits[i][b] \in {"allocating", "active"}
             /\ mUnits' = [mUnits EXCEPT ![i][b] = "dying"]
    BY <1>4 DEF UnitFollows
<1>5. CASE \E i \in MachineIDs : MachineFollows(i)
    BY <1>1, <1>3, <1>5 DEF MS!PlacedInv
<1>6. CASE \E i \in MachineIDs, b \in BootstrapApps : UnitFollows(i, b)
    <2>1. PICK i \in MachineIDs, b \in BootstrapApps : UnitFollows(i, b)
        BY <1>6
    <2>2. /\ UNCHANGED <<mObjects, mLocal, mCreator, mDup, mNode, between, mState>>
          /\ mUnits[i][b] \in {"allocating", "active"}
          /\ mUnits' = [mUnits EXCEPT ![i][b] = "dying"]
        BY <1>4, <2>1
    <2>3. mUnits' \in [MachineIDs -> [BootstrapApps -> MS!UnitStates]]
        BY <1>1, <2>2
    <2>4. \A j \in MachineIDs, a \in BootstrapApps :
             mUnits[j][a] = "none" => mUnits'[j][a] = "none"
        BY <1>1, <2>2
    <2> QED
        BY <1>1, <2>2, <2>3, <2>4 DEF MS!PlacedInv
<1> QED
    BY <1>2, <1>5, <1>6 DEF Follows

\* A restart does to the JujuMachine what JujuMachine's Restart does.
LEMMA Restarting ==
    ASSUME RestartBoth
    PROVE  /\ mPc' = "idle" /\ mCur' = None /\ mBefore' = MS!Absent /\ mMem' = MS!Absent
           /\ mRequeue' = FALSE /\ mPass' = MS!NoPass
           /\ mCache' = mStored /\ mQueue' = {o \in JujuMachines : mStored[o].present}
           /\ UNCHANGED <<between, mStored, mBootstrapped, mState, mCreator, mUnits, mDup, mNode>>
BY SameTerms DEF RestartBoth, between, mJuju

LEMMA MachineBase ==
    ASSUME MS!Inv, MS!CopiesInv, [NextAll]_allVars
    PROVE  MS!Inv' /\ MS!CopiesInv'
<1>1. CASE ClusterStep \/ DeleteCluster
    BY <1>1, MachineFrame DEF ClusterStep, DeleteCluster
<1>2. CASE MachineStep
    <2>1. [MS!Next]_(MS!vars)
        BY <1>2 DEF MachineStep
    <2>2. MS!Inv'
        BY <2>1, MS!InvNext
    <2> QED
        BY <2>1, <2>2, MS!CopiesNext
<1>3. CASE RefusedStep
    <2>1. UNCHANGED <<mStored, mCache, mQueue, mBootstrapped, mState, mCreator, mUnits,
                      mDup, mNode, Provided>>
        BY <1>3 DEF RefusedStep, mObjects, mJuju, vars, between, Provided, Granted, Reachable
    <2>2. CASE Refused /\ MS!Return(mMem, TRUE)
        <3>1. mPc # "idle" /\ mMem \in MS!Object
            BY <2>2, SameTerms DEF Refused, Asks, MS!JujuCalls, MS!Inv, MS!TypeOK,
               MS!WorkerTyped
        <3>2. MS!Inv'
            BY <2>1, <2>2, <3>1, NothingSpent, MS!ReturnStep DEF MS!k8s, MS!env, MS!juju
        <3>3. MS!CopyInv'
            BY <2>1, <2>2, <3>1, MS!PlainReturn DEF MS!CopiesInv
        <3> QED
            BY <2>1, <3>2, <3>3 DEF MS!CopiesInv, MS!Unplaced
    <2>3. CASE mPc = "applications" /\ MS!Goto("panicked")
        <3>1. MS!Inv'
            BY <2>1, <2>3, NothingSpent, MS!GotoStep
            DEF MS!Steps, MS!HoldsMachine, MS!k8s, MS!env, MS!juju
        <3>2. /\ mPc \in MS!Unedited /\ mPc' = "panicked"
              /\ UNCHANGED <<mCur, mBefore, mMem, mRequeue, mPass>>
            BY <2>3 DEF MS!Goto, MS!Unedited
        <3>3. mMem = mBefore
            BY <3>2 DEF MS!CopiesInv, MS!CopyInv, MS!Position
        <3>4. MS!Position'
            BY <3>2, <3>3 DEF MS!Position, MS!Unedited, MS!Deleting, MS!Provisioning
        <3>5. MS!CopyInv'
            BY <2>1, <3>2, <3>3, <3>4, MS!PlainMove DEF MS!CopiesInv, MS!Unedited
        <3> QED
            BY <2>1, <3>1, <3>5 DEF MS!CopiesInv, MS!Unplaced
    <2> QED
        BY <1>3, <2>2, <2>3 DEF RefusedStep, Unknown
<1>4. CASE RestartBoth
    <2> USE Restarting, <1>4
    <2>1. /\ mStored \in [JujuMachines -> MS!Object] /\ MS!K8sInv /\ MS!JujuInv
          /\ Provided' \subseteq MS!Prerequisites
        BY MachineConstants, MS!Parts DEF MS!K8sInv, MS!KubernetesTyped, Provided,
           MS!Prerequisites
    <2>2. MS!Inv'
        <3>1. MS!K8sInv' /\ MS!JujuInv' /\ MS!BudgetTyped'
            BY <2>1, NothingSpent DEF MS!K8sInv, MS!KubernetesTyped, MS!JujuInv, MS!JujuTyped,
               MS!OneUnitPerApp
        <3>2. MS!WorkerInv' /\ mPc' # "addUnit"
            BY MS!ConstantsTyped DEF MS!WorkerInv, MS!WorkerTyped, MS!Steps, MS!HasObject,
               MS!HasMachine, MS!HoldsMachine
        <3> QED
            BY <3>1, <3>2, MS!PartsNext
    <2>3. MS!CopiesInv'
        <3>1. \A o \in JujuMachines : MS!CopiesOf(o)
            BY DEF MS!CopiesInv, MS!CopyInv, MS!Copies
        <3>2. MS!Copies'
            BY <2>1, <3>1 DEF MS!Copies, MS!CopiesOf, MS!Sound, MS!Older, MS!Guarded,
               MS!OwnMachine, MS!Object
        <3>3. MS!Read' /\ MS!Position' /\ MS!Edits'
            BY DEF MS!Read, MS!Position, MS!Edits, MS!Unedited, MS!Deleting, MS!Provisioning
        <3>4. MS!Issued' /\ MS!Unplaced'
            BY DEF MS!CopiesInv, MS!CopyInv, MS!Issued, MS!Unplaced
        <3> QED
            BY <3>2, <3>3, <3>4 DEF MS!CopiesInv, MS!CopyInv
    <2> QED
        BY <2>2, <2>3
<1>5. CASE ControllerGone \/ Follows
    <2> USE FateChanges, <1>5
    <2>1. /\ UNCHANGED <<mStored, mCache, mQueue, mBootstrapped, mPc, mCur, mBefore, mMem,
                         mRequeue, mPass, mCreator, mDup, mNode>>
          /\ Provided' \subseteq MS!Prerequisites
        BY DEF mObjects, mLocal, Provided, MS!Prerequisites
    <2>2. MS!Inv'
        <3>1. MS!K8sInv' /\ MS!JujuTyped' /\ MS!BudgetTyped'
            BY <2>1, NothingSpent DEF MS!Inv, MS!TypeOK, MS!K8sInv, MS!KubernetesTyped,
               MS!JujuTyped
        <3> QED
            BY <2>1, <3>1, MS!OutsideStep DEF MS!local
    <2>3. MS!Issued' /\ MS!Unplaced'
        BY <2>1 DEF MS!CopiesInv, MS!CopyInv, MS!Issued, MS!Unplaced
    <2> QED
        BY <2>1, <2>2, <2>3, MS!AsideStep DEF MS!CopiesInv, MS!local
<1> QED
    BY <1>1, <1>2, <1>3, <1>4, <1>5, StepKinds

\* The controller's own steps and their surroundings take no object away from a pass
\* that works under its finalizer, and acquire a machine only under it.
LEMMA HeldNext ==
    ASSUME MS!Inv, MS!Inv', MS!CopiesInv, HeldInv, [MS!Next]_(MS!vars)
    PROVE  HeldInv'
<1>1. ASSUME mPc' \notin {"idle", "patchStatus"}, mBefore'.finalizer
      PROVE  mStored'[mCur'].present
    <2>1. CASE mPc # "idle" /\ UNCHANGED <<mCur, mBefore>>
        <3>1. mPc # "patchStatus" /\ ~MS!PatchSpec
            BY <1>1, <2>1, MS!PassChange, MS!Beginning DEF MS!PatchSpec, MS!Goto, MS!Begin
        <3>2. mCur \in JujuMachines /\ mStored[mCur].present
            BY <1>1, <2>1, <3>1 DEF HeldInv, MS!Inv, MS!HasObject
        <3>3. mStored[mCur].finalizer
            BY <1>1, <2>1, <3>2, MS!BeforeIsOlder DEF MS!CopiesInv, MS!Older
        <3>4. MS!StoredChange(mCur)
            BY <3>2, MS!StoredChanges
        <3> QED
            BY <2>1, <3>1, <3>2, <3>3, <3>4 DEF MS!StoredChange, MS!Releases
    <2>2. CASE \E o \in JujuMachines : MS!Begin(o)
        <3>1. PICK o \in JujuMachines : MS!Begin(o)
            BY <2>2
        <3>2. /\ mCur' = o /\ mBefore' = mCache[o] /\ mCache[o] = mStored[o]
              /\ UNCHANGED mStored /\ MS!Sound(mStored[o])
            BY <3>1, NothingSpent, MS!Beginning
            DEF MS!FaultKinds, MS!CopiesInv, MS!CopyInv, MS!Copies, MS!CopiesOf
        <3> QED
            BY <1>1, <3>2 DEF MS!Sound
    <2> QED
        BY <1>1, <2>1, <2>2, MS!PassChange
<1>2. ASSUME NEW i \in MachineIDs, NEW o \in JujuMachines, mCreator'[i] = o
      PROVE  /\ mCache'[o].present => mCache'[o].finalizer
             /\ mPc' # "idle" /\ mCur' = o => mBefore'.finalizer
    <2>1. CASE mCreator[i] = o
        <3>1. /\ mCache[o].present => mCache[o].finalizer
              /\ mPc # "idle" /\ mCur = o => mBefore.finalizer
            BY <2>1 DEF HeldInv
        <3>2. /\ MS!Older(mCache[o], mStored[o])
              /\ mCache'[o] = mCache[o] \/ mCache'[o] = mStored[o]
            BY MS!CacheChange DEF MS!CopiesInv, MS!CopyInv, MS!Copies, MS!CopiesOf
        <3>3. mCache'[o].present => mCache'[o].finalizer
            BY <3>1, <3>2 DEF MS!Older
        <3>4. ASSUME mPc' # "idle", mCur' = o PROVE mBefore'.finalizer
            <4>1. CASE mPc # "idle" /\ UNCHANGED <<mCur, mBefore>>
                BY <3>1, <3>4, <4>1
            <4>2. CASE \E p \in JujuMachines : MS!Begin(p)
                BY <3>1, <3>4, <4>2, MS!Beginning DEF MS!Begin
            <4> QED
                BY <3>4, <4>1, <4>2, MS!PassChange
        <3> QED
            BY <3>3, <3>4
    <2>2. CASE MS!AddMachine /\ mCreator'[i] = mCur
        <3>1. /\ mPc = "addMachine" /\ mCur = o
              /\ UNCHANGED <<mCache, mCur, mBefore>>
            BY <1>2, <2>2 DEF MS!AddMachine, MS!Call, MS!Return, MS!ReplyLost, MS!k8s
        <3>2. mBefore.finalizer /\ MS!Older(mBefore, mCache[o])
            BY <3>1 DEF MS!CopiesInv, MS!CopyInv, MS!Position, MS!Provisioning, MS!Read
        <3> QED
            BY <3>1, <3>2 DEF MS!Older
    <2> QED
        BY <1>2, <2>1, <2>2, MS!CreatorStays
<1> QED
    BY <1>1, <1>2 DEF HeldInv

\* A restart forgets what the passes know and brings the cache up to date.
LEMMA RestartedMachine ==
    ASSUME MS!Inv, MS!CopiesInv, MachineInv, RestartBoth
    PROVE  MachineInv'
<1> USE Restarting
<1>1. \A o \in JujuMachines : MS!Sound(mStored[o]) /\ MS!Older(mCache[o], mStored[o])
    BY DEF MS!CopiesInv, MS!CopyInv, MS!Copies, MS!CopiesOf
<1>2. MS!StaleInv'
    BY <1>1 DEF MS!StaleInv, MS!Sound
<1>3. MS!PlacedInv' /\ MS!ReleaseInv'
    BY DEF MachineInv, MS!PlacedInv, MS!ReleaseInv
<1>4. MS!AliveInv'
    <2>1. ASSUME NEW i \in MachineIDs, MS!Leaving(i)', mStored[mCreator[i]].present
          PROVE  mStored[mCreator[i]].deleted
        <3>1. /\ mCreator[i] \in JujuMachines
              /\ MS!Leaving(i)
            BY <2>1 DEF MS!Leaving, MS!Inv, MS!TypeOK, MS!JujuTyped, MS!CopiesInv, MS!CopyInv,
               MS!Issued, MS!Unplaced
        <3>2. mCache[mCreator[i]].present => mCache[mCreator[i]].deleted
            BY <3>1, NothingSpent DEF MachineInv, MS!AliveInv, MS!FaultKinds
        <3> QED
            BY <1>1, <2>1, <3>1, <3>2 DEF MS!Older
    <2> QED
        BY <2>1 DEF MS!AliveInv
<1>5. HeldInv'
    BY <1>1 DEF MachineInv, HeldInv, MS!Older
<1> QED
    BY <1>2, <1>3, <1>4, <1>5 DEF MachineInv

\* Juju takes a machine or a unit away with its owner only after the last JujuMachine
\* has gone: before, nothing of the JujuCluster is on its way out.
LEMMA FateAfterEnd ==
    ASSUME Inv, ClusterInv, OrderInv, ControllerGone \/ Follows
    PROVE  \A o \in JujuMachines : ~mStored[o].present
<1>1. ~Standing
    BY BootstrapAssumption DEF ControllerGone, NamespaceTerminates, Follows, MachineFollows,
       UnitFollows, Standing
<1>2. Ended(stored)
    BY <1>1, Stands DEF ClusterInv
<1> QED
    BY <1>2 DEF OrderInv

\* By then nobody knows a JujuMachine that is not deleted, and no pass serves one.
LEMMA FatedMachine ==
    ASSUME MS!Inv, MS!CopiesInv, MachineInv, ControllerGone \/ Follows,
           \A o \in JujuMachines : ~mStored[o].present
    PROVE  MachineInv' /\ (MS!RecordInv => MS!RecordInv')
<1>1. UNCHANGED <<mStored, mCache, mQueue, mPc, mCur, mBefore, mMem, mPass, mCreator>>
    BY FateChanges DEF mObjects, mLocal
<1>2. /\ \A i \in MachineIDs : mCreator[i] \in JujuMachines \cup {None}
      /\ mBefore.machineID \in MachineIDs \cup {None}
      /\ mPc # "idle" => mCur \in JujuMachines
    BY DEF MS!Inv, MS!TypeOK, MS!JujuTyped, MS!WorkerTyped, MS!HasObject, MS!Object
<1>3. MS!StaleInv'
    BY <1>1, NothingSpent DEF MachineInv, MS!StaleInv, MS!FaultKinds
<1>4. MS!PlacedInv'
    <2>1. mPc # "destroyUnits"
        BY <1>2 DEF MachineInv, HeldInv, MS!CopiesInv, MS!CopyInv, MS!Position, MS!Deleting,
           MS!Read, MS!Sound
    <2> QED
        BY <1>1, <2>1, FateChanges DEF MachineInv, MS!PlacedInv
<1>5. MS!ReleaseInv'
    BY <1>1, <1>2, FateChanges DEF MachineInv, MS!ReleaseInv
<1>6. MS!AliveInv'
    <2>1. ASSUME NEW i \in MachineIDs, MS!Leaving(i)'
          PROVE  /\ mCache[mCreator[i]].present => mCache[mCreator[i]].deleted
                 /\ mPc # "idle" /\ mCur = mCreator[i] => mBefore.deleted
        <3>1. mState'[i] # "absent"
            <4>1. CASE mState[i] = "absent"
                <5>1. \A a \in BootstrapApps : mUnits[i][a] = "none"
                    BY <4>1 DEF MS!CopiesInv, MS!Unplaced
                <5> QED
                    BY <2>1, <4>1, <5>1, FateChanges DEF MS!Leaving
            <4> QED
                BY <4>1, FateChanges
        <3>2. PICK o \in JujuMachines : mCreator[i] = o
            BY <1>2, <3>1, FateChanges DEF MS!CopiesInv, MS!CopyInv, MS!Issued
        <3>3. /\ mCache[o].present => mCache[o].finalizer
              /\ mPc # "idle" /\ mCur = o => mBefore.finalizer
            BY <3>2 DEF MachineInv, HeldInv
        <3>4. /\ MS!Guarded(mCache[o], mStored[o])
              /\ mPc # "idle" => MS!Guarded(mBefore, mStored[mCur])
            BY DEF MS!CopiesInv, MS!CopyInv, MS!Copies, MS!CopiesOf, MS!Read
        <3> QED
            BY <3>2, <3>3, <3>4 DEF MS!Guarded
    <2>2. mPc # "panicked"
        BY NothingSpent DEF MachineInv, MS!AliveInv, MS!FaultKinds
    <2> QED
        BY <1>1, <2>1, <2>2 DEF MS!AliveInv
<1>7. HeldInv'
    BY <1>1 DEF MachineInv, HeldInv
<1>8. MS!RecordInv => MS!RecordInv'
    BY <1>1, <1>2, FateChanges, NothingSpent DEF MS!RecordInv, MS!FaultKinds
<1> QED
    BY <1>3, <1>4, <1>5, <1>6, <1>7, <1>8 DEF MachineInv

--------------------------------------------------------------------------------
(* The order                                                               *)

\* In Cluster API's order the model and the applications are alive at every request:
\* the pass works under the finalizer of an object that is there, so the JujuCluster
\* is there and has been ready, when everything was complete, and nothing goes.
LEMMA NeverRefused ==
    ASSUME BaseInv, OrderInv, ClusterInv, MachineInv
    PROVE  ~Refused /\ \A a \in BootstrapApps : ~Unknown(a)
<1>1. SUFFICES ASSUME Asks
               PROVE  /\ Granted /\ model = "alive"
                      /\ mPc = "addUnit" => AppAlive(mPass.app)
                      /\ \A a \in BootstrapApps : apps[a] # "absent"
    BY DEF Refused, Unknown
<1>2. mPc \in MS!Provisioning \cup MS!Deleting
    BY <1>1, SameTerms DEF Asks, MS!JujuCalls, MS!Provisioning, MS!Deleting
<1>3. mCur \in JujuMachines /\ mBefore.finalizer /\ mPc \notin {"idle", "patchStatus"}
    BY <1>2 DEF BaseInv, MS!CopiesInv, MS!CopyInv, MS!Position, MS!Read, MS!Sound, MS!Inv,
       MS!HasObject, MS!Provisioning, MS!Deleting
<1>4. mStored[mCur].present
    BY <1>3 DEF MachineInv, HeldInv
<1>5. ~Ended(stored) /\ "ready" \in stored
    BY <1>1, <1>3, <1>4 DEF OrderInv, Asks
<1>6. Whole /\ Standing
    BY <1>5, Stands DEF BaseInv, ClusterInv, FoundInv, Ended
<1>7. Granted /\ model = "alive"
    BY <1>6 DEF Granted, Reachable, Whole, Standing, ClusterInv, HostInv
<1>8. ASSUME mPc = "addUnit" PROVE AppAlive(mPass.app)
    <2>1. mPass.app \in Apps
        BY <1>8, BootstrapAssumption DEF BaseInv, MS!Inv, MS!AddsMissing
    <2>2. apps[mPass.app] \in AppStates
        BY <2>1 DEF BaseInv, Inv, TypeOK, JujuTyped
    <2> QED
        BY <1>6, <2>1, <2>2 DEF Whole, Standing, AppAlive, AppStates
<1>9. ASSUME NEW a \in BootstrapApps PROVE apps[a] # "absent"
    BY <1>6, BootstrapAssumption DEF Whole, Standing
<1> QED
    BY <1>7, <1>8, <1>9

\* No JujuMachine comes back.
LEMMA NoneReturns ==
    ASSUME MS!Inv, MS!CopiesInv, [NextAll]_allVars,
           NEW o \in JujuMachines, ~mStored[o].present
    PROVE  ~mStored'[o].present
<1>1. CASE MachineStep
    <2>1. [MS!Next]_(MS!vars) /\ MS!Inv'
        BY <1>1, MachineBase DEF MachineStep
    <2>2. MS!StoredChange(o)
        BY <2>1, MS!StoredChanges
    <2> QED
        BY <2>2 DEF MS!StoredChange, MS!Older
<1>2. CASE ControllerGone \/ Follows
    BY <1>2, FateChanges DEF mObjects
<1>3. CASE ClusterStep \/ DeleteCluster \/ RefusedStep \/ RestartBoth
    BY <1>3, Restarting DEF ClusterStep, DeleteCluster, mVars, mObjects, RefusedStep
<1> QED
    BY <1>1, <1>2, <1>3, StepKinds

\* What is said of the history: it never takes an early deletion back.
LEMMA HistoryNext ==
    ASSUME BaseInv, [NextAll]_allVars
    PROVE  /\ infrastructureReady' \in BOOLEAN /\ early' \in BOOLEAN
           /\ early => early'
           /\ early' => Ended(stored')
           /\ Ended(stored) => Ended(stored')
           /\ infrastructureReady => infrastructureReady'
<1>1. stored' = {} \/ stored \subseteq stored'
    <2>1. [Next]_vars => stored' = {} \/ stored \subseteq stored'
        BY ObjectGrows DEF BaseInv
    <2> QED
        BY <2>1, ClusterSide DEF RestartBoth
<1>2. Ended(stored) => Ended(stored')
    <2>1. stored = {} => stored' = {}
        <3>1. [Next]_vars /\ stored = {} => stored' = {}
            BY ObjectGrows DEF BaseInv
        <3> QED
            BY <3>1, ClusterSide DEF RestartBoth
    <2> QED
        BY <1>1, <2>1 DEF Ended
<1>3. CASE UNCHANGED between
    BY <1>2, <1>3 DEF between, BaseInv
<1>4. CASE DeleteCluster
    BY <1>2, <1>4 DEF DeleteCluster, Delete, Collected, Ended, BaseInv
<1>5. CASE InfrastructureReady
    BY <1>2, <1>5 DEF InfrastructureReady, BaseInv
<1>6. MachineStep \/ RefusedStep \/ Follows \/ ControllerGone \/ RestartBoth => UNCHANGED between
    BY DEF MachineStep, RefusedStep, Follows, MachineFollows, UnitFollows, ControllerGone,
       RestartBoth, between
<1> QED
    BY <1>3, <1>4, <1>5, <1>6, StepKinds

\* Only a deletion ends a JujuCluster: no pass and no other party does.
LEMMA StaysAlive ==
    ASSUME Inv, EditInv, ClusterStep, ~Ended(stored)
    PROVE  ~Ended(stored')
<1>1. stored \subseteq ObjectFacts /\ stored # {} /\ "deleted" \notin stored
    BY DEF Inv, TypeOK, ObjectTyped, Ended
<1>2. CASE UNCHANGED stored
    BY <1>2
<1>3. CASE AddFinalizer \/ SetEndpoint \/ SetOwner
    <2>1. CASE SetOwner
        BY <1>1, <2>1 DEF SetOwner, Ended
    <2>2. CASE AddFinalizer \/ SetEndpoint
        <3>1. \E facts \in {{"finalizer", "written"}, {"endpoint", "written"}} :
                 stored' = Collected(stored \cup facts)
            BY <2>2 DEF AddFinalizer, SetEndpoint, Update
        <3> QED
            BY <1>1, <3>1 DEF Collected, Ended
    <2> QED
        BY <1>3, <2>1, <2>2
<1>4. CASE RemoveFinalizer
    BY <1>4 DEF RemoveFinalizer, Inv, Position, TearSteps, Copies, Sound
<1>5. CASE Patch
    BY <1>1, <1>5 DEF Patch, EditInv, Ended
<1>6. CASE \/ CreateObject \/ DeleteObject \/ ResetPassword \/ StoreString
           \/ AddCloud \/ AddCredential \/ CreateModel \/ SetConstraints \/ Expose
           \/ DestroyModel \/ DestroyController
           \/ \E a \in Apps : CreateApp(a) \/ DestroyApp(a)
           \/ \E i \in Integrations : CreateIntegration(i)
    BY <1>2, <1>6 DEF CreateObject, DeleteObject, ResetPassword, StoreString, AddCloud,
       AddCredential, CreateModel, SetConstraints, Expose, DestroyModel, DestroyController,
       CreateApp, DestroyApp, CreateIntegration
<1>7. CASE Begin \/ Worker
    BY <1>2, <1>3, <1>4, <1>5, <1>6, <1>7, Reading DEF Worker
<1>8. CASE Observe \/ ObserveOthers \/ RunJob \/ CollectRegistration \/ Juju
    BY <1>2, <1>8 DEF Observe, ObserveOthers, RunJob, CollectRegistration, Juju, ModelRemoved,
       AppSettles, UnitFails, UnitResolved, AppRemoved, SetApp, object
<1> QED
    BY <1>2, <1>3, <1>7, <1>8 DEF ClusterStep, vars

LEMMA OrderNext ==
    ASSUME BaseInv, OrderInv, EditInv, ~early', [NextAll]_allVars
    PROVE  OrderInv'
<1>1. ASSUME Ended(stored'), NEW o \in JujuMachines PROVE ~mStored'[o].present
    <2>1. CASE ~mStored[o].present
        BY <2>1, NoneReturns DEF BaseInv
    <2>2. CASE DeleteCluster
        BY <2>2 DEF DeleteCluster, mVars, mObjects
    <2>3. CASE mStored[o].present /\ ~DeleteCluster
        <3>1. ~Ended(stored)
            BY <2>3 DEF OrderInv
        <3>2. ClusterStep => ~Ended(stored')
            BY <3>1, StaysAlive DEF BaseInv
        <3>3. MachineStep \/ RefusedStep \/ RestartBoth \/ ControllerGone \/ Follows
                 => UNCHANGED stored
            BY DEF MachineStep, RefusedStep, RestartBoth, ControllerGone, NamespaceTerminates,
               Follows, MachineFollows, UnitFollows, vars, object
        <3> QED
            BY <1>1, <2>3, <3>1, <3>2, <3>3, StepKinds
    <2> QED
        BY <2>1, <2>2, <2>3
<1>2. infrastructureReady' => Ended(stored') \/ "ready" \in stored'
    <2>1. stored' = {} \/ stored \subseteq stored'
        <3>1. [Next]_vars => stored' = {} \/ stored \subseteq stored'
            BY ObjectGrows DEF BaseInv
        <3> QED
            BY <3>1, ClusterSide DEF RestartBoth
    <2>2. infrastructureReady' = infrastructureReady \/ InfrastructureReady
        BY StepKinds DEF DeleteCluster, MachineStep, RefusedStep, RestartBoth, ControllerGone,
           Follows, MachineFollows, UnitFollows, between
    <2> QED
        BY <2>1, <2>2, HistoryNext DEF OrderInv, Ended, InfrastructureReady
<1>3. mPass'.modelKnown => infrastructureReady'
    <2>1. CASE MachineStep
        <3>1. mPass'.modelKnown => mPass.modelKnown \/ "infrastructureReady" \in Provided
            BY <2>1, MS!ModelKnown DEF MachineStep, BaseInv
        <3> QED
            BY <3>1, HistoryNext DEF Provided, OrderInv
    <2>2. CASE RefusedStep \/ RestartBoth
        <3>1. mPass' = MS!NoPass \/ UNCHANGED <<mPass, between>>
            BY <2>2, Restarting DEF RefusedStep, MS!Return, MS!Goto
        <3>2. ~MS!NoPass.modelKnown
            BY DEF MS!NoPass
        <3> QED
            BY <3>1, <3>2 DEF OrderInv, between
    <2>3. CASE ClusterStep \/ DeleteCluster \/ ControllerGone \/ Follows
        <3>1. UNCHANGED mPass
            BY <2>3, FateChanges DEF ClusterStep, DeleteCluster, mVars, mLocal, BaseInv
        <3> QED
            BY <3>1, HistoryNext DEF OrderInv
    <2> QED
        BY <2>1, <2>2, <2>3, StepKinds
<1> QED
    BY <1>1, <1>2, <1>3 DEF OrderInv

\* The steps of either controller, and what follows in Juju, keep what is known of
\* the machines as long as the order is kept.
LEMMA MachineNext ==
    ASSUME BaseInv, OrderInv, ClusterInv, MachineInv, [NextAll]_allVars
    PROVE  /\ MachineInv'
           /\ MS!RecordInv => MS!RecordInv' \/ RestartBoth
<1>1. MS!Inv /\ MS!Inv' /\ MS!CopiesInv /\ MS!CopiesInv'
    BY MachineBase DEF BaseInv
<1>2. CASE ClusterStep \/ DeleteCluster
    BY <1>2, MachineFrame DEF ClusterStep, DeleteCluster, MachineInv
<1>3. CASE MachineStep
    <2>1. [MS!Next]_(MS!vars) /\ MS!Within
        BY <1>3, NothingSpent DEF MachineStep
    <2>2. MS!StaleInv /\ MS!PlacedInv /\ MS!ReleaseInv /\ MS!AliveInv /\ HeldInv
        BY DEF MachineInv
    <2>3. MS!StaleInv'
        BY <1>1, <2>1, <2>2, MS!StaleNext
    <2>4. MS!PlacedInv'
        BY <1>1, <2>1, <2>2, MS!PlacedNext
    <2>5. MS!ReleaseInv'
        BY <1>1, <2>1, <2>2, MS!ReleaseNext
    <2>6. MS!AliveInv'
        BY <1>1, <2>1, <2>2, MS!AliveNext
    <2>7. HeldInv'
        BY <1>1, <2>1, <2>2, HeldNext
    <2>8. MS!RecordInv => MS!RecordInv'
        BY <1>1, <2>1, <2>2, MS!RecordNext
    <2> QED
        BY <2>3, <2>4, <2>5, <2>6, <2>7, <2>8 DEF MachineInv
<1>4. ~RefusedStep
    BY NeverRefused DEF RefusedStep
<1>5. CASE RestartBoth
    BY <1>1, <1>5, RestartedMachine
<1>6. CASE ControllerGone \/ Follows
    BY <1>1, <1>6, FateAfterEnd, FatedMachine DEF BaseInv
<1> QED
    BY <1>2, <1>3, <1>4, <1>5, <1>6, StepKinds

--------------------------------------------------------------------------------
(* The invariant                                                           *)

LEMMA AllInvInit == InitAll => AllInv
<1> SUFFICES ASSUME InitAll PROVE AllInv
    OBVIOUS
<1>1. /\ Init /\ MS!Init /\ infrastructureReady = FALSE /\ early = FALSE
    BY SameTerms DEF InitAll
<1>2. SafetyInv /\ Inv /\ Within
    BY <1>1, SafetyInit DEF SafetyInv
<1>3. MS!Inv /\ MS!CopiesInv /\ MS!SafetyInv
    BY <1>1, MS!InvInit, MS!CopiesInit, MS!SafetyInit
<1>4. BaseInv
    BY <1>1, <1>2, <1>3 DEF BaseInv
<1>5. /\ stored # {} /\ "deleted" \notin stored
      /\ pc = "idle" /\ before = {} /\ kube = {} /\ seen = {} /\ pass = NoPass
    BY <1>1 DEF Init
<1>6. /\ mPc = "idle" /\ mPass = MS!NoPass /\ \A i \in MachineIDs : mCreator[i] = None
    BY <1>1 DEF MS!Init
<1>7. OrderInv
    <2>1. ~MS!NoPass.modelKnown
        BY DEF MS!NoPass
    <2> QED
        BY <1>1, <1>5, <1>6, <2>1 DEF OrderInv, Ended
<1>8. HeldInv
    BY <1>6, MachineConstants DEF HeldInv
<1>9. DataInv
    BY <1>5 DEF DataInv, DataGood, JobAlone, JobLast, Undisturbed, InTeardown, NoPass, TearSteps
<1> QED
    BY <1>2, <1>3, <1>4, <1>7, <1>8, <1>9
    DEF AllInv, TimelyInv, CrashInv, ClusterInv, MachineInv, RecordInv, SafetyInv, MS!SafetyInv

\* No pass has panicked, so that a restart is a fault of its own.
LEMMA RestartIsCrash ==
    ASSUME BaseInv, MachineInv, DataInv, RestartBoth
    PROVE  Spend("crash") /\ ~Spared({"crash"})'
<1>1. pc # "panicked" /\ mPc # "panicked"
    BY NothingSpent DEF DataInv, DataGood, MachineInv, MS!AliveInv, MS!FaultKinds
<1>2. Spend("crash")
    BY <1>1 DEF RestartBoth, Panicked, SpendIf
<1> QED
    BY <1>2, BudgetAssumption DEF Spend, Spared, BaseInv, Inv, TypeOK, Within, FaultKinds

LEMMA SparedStays ==
    ASSUME BaseInv, [NextAll]_allVars, Spared({"crash"})', ~RestartBoth
    PROVE  Spared({"crash"})
<1>1. [Next]_vars
    BY ClusterSide
<1> QED
    BY <1>1, Unspent DEF BaseInv, FaultKinds

LEMMA AllInvNext == AllInv /\ [NextAll]_allVars => AllInv'
<1> SUFFICES ASSUME AllInv, [NextAll]_allVars PROVE AllInv'
    OBVIOUS
<1>1. BaseInv'
    BY ClusterNext, MachineBase, HistoryNext DEF AllInv, BaseInv
<1>2. early => early'
    BY HistoryNext DEF AllInv
<1>3. TimelyInv'
    <2> SUFFICES ASSUME ~early' PROVE OrderInv' /\ ClusterInv' /\ MachineInv'
        BY DEF TimelyInv
    <2>1. BaseInv /\ OrderInv /\ ClusterInv /\ MachineInv
        BY <1>2 DEF AllInv, TimelyInv
    <2>2. OrderInv'
        BY <2>1, OrderNext DEF ClusterInv
    <2>3. ClusterInv'
        BY <2>1, ClusterNext DEF BaseInv
    <2>4. MachineInv'
        BY <2>1, MachineNext
    <2> QED
        BY <2>2, <2>3, <2>4
<1>4. CrashInv'
    <2> SUFFICES ASSUME CrashesOnly, ~early' PROVE DataInv' /\ RecordInv'
        BY DEF CrashInv, CrashesOnly
    <2>1. BaseInv /\ OrderInv /\ ClusterInv /\ MachineInv /\ DataInv /\ RecordInv
        BY <1>2 DEF AllInv, TimelyInv, CrashInv
    <2>2. mPc # "panicked"
        BY <2>1, NothingSpent DEF MachineInv, MS!AliveInv, MS!FaultKinds
    <2>3. DataInv'
        BY <2>1, <2>2, DataKept DEF BaseInv
    <2>4. ASSUME Spared({"crash"})' PROVE MS!RecordInv'
        <3>1. ~RestartBoth
            BY <2>1, <2>4, RestartIsCrash
        <3>2. Spared({"crash"})
            BY <2>1, <2>4, <3>1, SparedStays
        <3> QED
            BY <2>1, <3>1, <3>2, MachineNext DEF RecordInv
    <2> QED
        BY <2>3, <2>4 DEF RecordInv
<1> QED
    BY <1>1, <1>3, <1>4 DEF AllInv

\* Provider keeps the invariant: either half's own, and what joins them.
THEOREM ProviderInvariance == SpecAll => []AllInv
<1> QED
    BY AllInvInit, AllInvNext, PTL DEF SpecAll

--------------------------------------------------------------------------------
(* What follows                                                            *)

\* In either order of deletion both controllers and their surroundings stay typed, and
\* Juju never has two units of an application on a machine, whatever fails and whoever
\* restarts.
THEOREM ProviderTyped == SpecAll => [](TypeOK /\ MS!TypeOK /\ MS!OneUnitPerApp)
<1>1. AllInv => TypeOK /\ MS!TypeOK /\ MS!OneUnitPerApp
    BY DEF AllInv, BaseInv, Inv, MS!Inv
<1> QED
    BY <1>1, ProviderInvariance, PTL

\* A request of the JujuMachine controller finds what it is about alive, unless the
\* JujuCluster was deleted before the last JujuMachine had gone, whatever fails.
THEOREM AsksOnlyInTime == SpecAll => []AsksInTime
<1>1. AllInv => AsksInTime
    BY NeverRefused DEF AllInv, TimelyInv, AsksInTime
<1> QED
    BY <1>1, ProviderInvariance, PTL

\* Neither controller takes away what a pass of the other goes on to use, although
\* the process may die at any moment: the panics are those of an early deletion.
THEOREM PanicsOnlyWhenEarly ==
    ASSUME CrashesOnly PROVE SpecAll => []PanicsOnlyIfEarly
<1>1. AllInv => PanicsOnlyIfEarly
    BY NothingSpent DEF AllInv, TimelyInv, CrashInv, DataInv, DataGood, MachineInv,
       MS!AliveInv, MS!FaultKinds, PanicsOnlyIfEarly, Panicked
<1> QED
    BY <1>1, ProviderInvariance, PTL

NoMachinesWhenDying ==
    model = "alive" /\ model' = "dying" /\ ~early /\ Spared({"crash"})
        => \A i \in MachineIDs : ~M!InModel(i)

LEMMA MachinesGone ==
    ASSUME CrashesOnly PROVE AllInv /\ [NextAll]_allVars => [NoMachinesWhenDying]_allVars
<1> SUFFICES ASSUME AllInv, [NextAll]_allVars, model = "alive", model' = "dying", ~early,
                    Spared({"crash"}), NEW i \in MachineIDs
             PROVE  ~M!InModel(i)
    BY DEF NoMachinesWhenDying
<1>1. BaseInv /\ OrderInv /\ ClusterInv /\ MS!RecordInv
    BY DEF AllInv, TimelyInv, CrashInv, RecordInv
<1>2. [Next]_vars
    BY ClusterSide DEF RestartBoth, juju
<1>3. pc \in TearSteps
    BY <1>1, <1>2, JujuChanges
    DEF BaseInv, DestroyModel, DestroyController, Call, TearSteps
<1>4. \A o \in JujuMachines : ~mStored[o].present
    BY <1>1, <1>3, Stands DEF BaseInv, ClusterInv, OrderInv
<1>5. mCreator[i] \in JujuMachines \cup {None}
    BY <1>1 DEF BaseInv, MS!Inv, MS!TypeOK, MS!JujuTyped
<1>6. mCreator[i] = None => ~MS!InModel(i)
    BY <1>1 DEF BaseInv, MS!CopiesInv, MS!CopyInv, MS!Issued, MS!InModel
<1>7. mCreator[i] # None => ~MS!InModel(i)
    BY <1>1, <1>4, <1>5, NothingSpent DEF MS!RecordInv, MS!FaultKinds
<1> QED
    BY <1>6, <1>7, SameTerms

\* The controllers' orders add up: the JujuCluster controller asks the model to go
\* without a look at the machines, and there are none, unless the process has died
\* and forgotten one.
THEOREM MachinesGoBeforeModel ==
    ASSUME CrashesOnly PROVE SpecAll => MachinesGoneFirst
<1>1. SpecAll => [][NoMachinesWhenDying]_allVars
    BY MachinesGone, ProviderInvariance, PTL DEF SpecAll
<1> QED
    BY <1>1 DEF NoMachinesWhenDying, MachinesGoneFirst
================================================================================
