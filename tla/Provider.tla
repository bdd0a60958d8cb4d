-------------------------------- MODULE Provider --------------------------------
(***************************************************************************)
(* The provider as a whole: one manager process (main.go) runs the         *)
(* JujuCluster controller and the JujuMachine controller side by side.     *)
(* Each is the module of its name, step by step; here is where they meet:  *)
(*   - in Kubernetes: what a JujuMachine waits for is what the JujuCluster *)
(*     is and has made, and Cluster API deletes one only after the other;  *)
(*   - in Juju: machines and units live in the model and belong to the     *)
(*     applications that the JujuCluster controller makes and destroys;    *)
(*   - in the process: a panic in one controller ends both.                *)
(*                                                                         *)
(* The JujuCluster has the variables of JujuCluster, those of JujuMachine  *)
(* are prefixed with m.  The only fault is the death of the process; the   *)
(* others, and resyncs and late bootstrap data, are in the two modules.    *)
(***************************************************************************)
EXTENDS JujuCluster

CONSTANTS
    JujuMachines,  \* the JujuMachine objects
    MachineIDs,    \* the Juju machine numbers
    BootstrapApps, \* the applications that the bootstrap data name
    None           \* an unset optional field

ASSUME BootstrapAssumption == BootstrapApps \subseteq Apps

VARIABLES
    infrastructureReady, \* Cluster API has seen that the JujuCluster is ready
    early,               \* history: it was deleted before the JujuMachines had gone
    mStored, mCache, mQueue, mBootstrapped, mPc, mCur, mBefore, mMem, mRequeue,
    mPass, mState, mCreator, mUnits, mDup, mNode

Granted == Reachable /\ model # "absent"

\* What JujuMachine calls the prerequisites.  The owners are there from the start,
\* and the kubeconfig comes with the infrastructure.
Provided == {"cluster"}
    \cup (IF infrastructureReady THEN {"infrastructureReady", "kubeconfig"} ELSE {})
    \cup (IF "present" \in cache THEN {"jujuCluster"} ELSE {})
    \cup (IF "config" \in seen   THEN {"config"} ELSE {})
    \cup (IF Granted             THEN {"model"} ELSE {})

MachineFaults == {"call", "reply", "patch", "stale", "crash", "conflict",
                  "unitError", "machineLost"}

M == INSTANCE JujuMachine WITH
    Objects <- JujuMachines, Apps <- BootstrapApps,
    UseJujuProviderID <- JujuMachines, LateBootstrap <- {},
    LatePrerequisites <- {"infrastructureReady", "jujuCluster", "config", "model",
                          "kubeconfig"},
    FaultBudget <- [k \in MachineFaults |-> 0], budget <- [k \in MachineFaults |-> 0],
    provided <- Provided, stored <- mStored, cache <- mCache, queue <- mQueue,
    bootstrapped <- mBootstrapped, pc <- mPc, cur <- mCur, before <- mBefore,
    mem <- mMem, requeue <- mRequeue, pass <- mPass, mstate <- mState,
    creator <- mCreator, units <- mUnits, dup <- mDup, node <- mNode

ASSUME MachinesAssumption ==
    /\ MachineIDs \subseteq Nat
    /\ None \notin JujuMachines \cup BootstrapApps \cup MachineIDs \cup M!ProviderIDs

mObjects == <<mStored, mCache, mQueue, mBootstrapped>>
mLocal   == <<mPc, mCur, mBefore, mMem, mRequeue, mPass>>
mJuju    == <<mState, mCreator, mUnits, mDup>>
mVars    == <<mObjects, mLocal, mJuju, mNode>>
between  == <<infrastructureReady, early>>
allVars  == <<vars, between, mVars>>

InitAll == Init /\ infrastructureReady = FALSE /\ early = FALSE /\ M!Init

--------------------------------------------------------------------------------
(* The process                                                             *)

\* The JujuMachine worker's next step is a request to Juju.
Asks == /\ mPc \in M!JujuCalls /\ mPass.modelKnown
        /\ mPc = "destroyUnits" => mPass.victims # {}
        /\ mPc = "applications" => mPass.todo # {}

AppAlive(a) == apps[a] \in {"deployed", "active", "error"}

\* Juju adds nothing to what is on its way out, and answers nobody without a model.
Refused == /\ Asks
           /\ \/ ~Granted
              \/ mPc = "addMachine" /\ model # "alive"
              \/ mPc = "addUnit" /\ ~(model = "alive" /\ AppAlive(mPass.app))

\* ReadApplication takes an application that is not in the model for one without data.
Unknown(a) == /\ Asks /\ Granted
              /\ mPc = "applications" /\ a \in mPass.todo /\ apps[a] = "absent"

MachineBegins(o) ==
    /\ UNCHANGED <<vars, between>> /\ (M!Forget(o) \/ M!Begin(o))

\* Juju numbers its machines in order.  ReadApplication dereferences the data of the
\* application before it looks for the unit.
MachineWorks ==
    \/ /\ ~Refused /\ UNCHANGED <<vars, between>> /\ M!Worker
       /\ mPc' = "addUnit" => ~Unknown(mPass'.app)
       /\ \A i \in MachineIDs, j \in MachineIDs :
             i < j /\ mState'[j] # "absent" => mState'[i] # "absent"
    \/ /\ \/ Refused /\ M!Return(mMem, TRUE)
          \/ \E a \in BootstrapApps : Unknown(a) /\ M!Goto("panicked")
       /\ UNCHANGED <<vars, between, mObjects, mJuju, mNode>>

ClusterBegins == Begin /\ UNCHANGED <<between, mVars>>
ClusterWorks  == Worker /\ UNCHANGED <<between, mVars>>

Panicked == pc = "panicked" \/ mPc = "panicked"

\* The process dies, by itself or by a panic in either controller, and starts
\* again with fresh caches and every object in the queues.  (Bound: by itself only
\* while there is a machine, and before the teardown of the JujuCluster; JujuCluster
\* breaks off what comes before and after at every step.)
RestartBoth ==
    /\ \/ Panicked
       \/ "deleted" \notin stored /\ \E i \in MachineIDs : M!InModel(i)
    /\ SpendIf(~Panicked, "crash")
    /\ pc' = "idle" /\ before' = {} /\ mem' = {} /\ pass' = NoPass
    /\ cache' = stored /\ seen' = kube /\ queued' = ("present" \in stored)
    /\ mPc' = "idle" /\ mCur' = None /\ mBefore' = M!Absent /\ mMem' = M!Absent
    /\ mRequeue' = FALSE /\ mPass' = M!NoPass
    /\ mCache' = mStored /\ mQueue' = {o \in JujuMachines : mStored[o].present}
    /\ UNCHANGED <<stored, kube, juju, valid, between, mStored, mBootstrapped, mJuju,
                   mNode>>

--------------------------------------------------------------------------------
(* Kubernetes and Cluster API                                              *)

MachineObserved(o) == UNCHANGED <<vars, between>> /\ M!Observe(o)
MachineOwned(o)    == UNCHANGED <<vars, between>> /\ M!SetOwner(o)
DeleteMachine(o)   == UNCHANGED <<vars, between>> /\ M!Delete(o)

\* Cluster API deletes the infrastructure of a cluster after the last machine, but
\* users may be faster.  (Bound: not after a crash.)
DeleteCluster ==
    /\ Delete /\ UNCHANGED <<infrastructureReady, mVars>>
    /\ early' = \E o \in JujuMachines : mStored[o].present
    /\ early' => Spared({"crash"})

ObjectsChange ==
    /\ Observe \/ ObserveOthers \/ SetOwner \/ RunJob \/ CollectRegistration
    /\ UNCHANGED <<between, mVars>>

\* Cluster API never takes this back.
InfrastructureReady ==
    /\ "ready" \in stored /\ ~infrastructureReady
    /\ infrastructureReady' = TRUE
    /\ UNCHANGED <<vars, early, mVars>>

\* Without its controller Juju knows of no machine any more.
ControllerGone ==
    /\ NamespaceTerminates
    /\ mState' = [i \in MachineIDs |-> IF M!InModel(i) THEN "gone" ELSE mState[i]]
    /\ mUnits' = [i \in MachineIDs |-> [a \in BootstrapApps |-> "none"]]
    /\ UNCHANGED <<between, mObjects, mLocal, mCreator, mDup, mNode>>

--------------------------------------------------------------------------------
(* Juju                                                                    *)

MachineLives(i) ==
    /\ Reachable /\ UNCHANGED <<vars, between>>
    /\ \/ M!MachineStarts(i) \/ M!MachineStops(i) \/ M!NodeRegisters(i)
       \/ \E a \in BootstrapApps : M!UnitSettles(i, a) \/ M!UnitRemoved(i, a)

\* The units of an application go with it.
UnitFollows(i, a) ==
    /\ Reachable /\ apps[a] = "dying" /\ mUnits[i][a] \in {"allocating", "active"}
    /\ mUnits' = [mUnits EXCEPT ![i][a] = "dying"]
    /\ UNCHANGED <<vars, between, mObjects, mLocal, mState, mCreator, mDup, mNode>>

\* The machines of a model go with it.
MachineFollows(i) ==
    /\ Reachable /\ model = "dying" /\ mState[i] \in {"pending", "started"}
    /\ \A a \in BootstrapApps : mUnits[i][a] = "none"
    /\ mState' = [mState EXCEPT ![i] = "stopping"]
    /\ UNCHANGED <<vars, between, mObjects, mLocal, mCreator, mUnits, mDup, mNode>>

AppSettlesAlone(a) == AppSettles(a) /\ UNCHANGED <<between, mVars>>

\* An application is gone after its units, a model after its machines.
AppRemovedLast(a) ==
    /\ a \in BootstrapApps => \A i \in MachineIDs : mUnits[i][a] = "none"
    /\ AppRemoved(a) /\ UNCHANGED <<between, mVars>>

ModelRemovedLast ==
    /\ \A i \in MachineIDs : ~M!InModel(i)
    /\ ModelRemoved /\ UNCHANGED <<between, mVars>>

--------------------------------------------------------------------------------
(* The specification                                                       *)

InJuju ==
    \/ ControllerGone \/ ModelRemovedLast
    \/ \E a \in Apps : AppSettlesAlone(a) \/ AppRemovedLast(a)
    \/ \E i \in MachineIDs : \/ MachineLives(i) \/ MachineFollows(i)
                             \/ \E a \in BootstrapApps : UnitFollows(i, a)

NextAll ==
    \/ MachineWorks \/ ClusterBegins \/ ClusterWorks \/ RestartBoth
    \/ DeleteCluster \/ ObjectsChange \/ InfrastructureReady \/ InJuju
    \/ \E o \in JujuMachines : \/ MachineBegins(o) \/ MachineObserved(o)
                               \/ MachineOwned(o) \/ DeleteMachine(o)

SpecAll == InitAll /\ [][NextAll]_allVars

\* Each worker goes on whatever the other does, a queued object is taken in the
\* end, and the rest is as in the two modules.
FairnessAll ==
    /\ WF_allVars(MachineWorks) /\ WF_allVars(ClusterWorks) /\ SF_allVars(ClusterBegins)
    /\ WF_allVars(Panicked /\ RestartBoth)
    /\ WF_allVars(ObjectsChange) /\ WF_allVars(InfrastructureReady) /\ WF_allVars(InJuju)
    /\ \A o \in JujuMachines : /\ SF_allVars(MachineBegins(o))
                               /\ WF_allVars(MachineObserved(o) \/ MachineOwned(o))

FairSpecAll == SpecAll /\ FairnessAll

--------------------------------------------------------------------------------
(* Properties                                                              *)

\* A JujuMachine may end in a panic of the whole provider only when its JujuCluster
\* was deleted before it: in Cluster API's order neither controller takes anything
\* away that a pass of the other goes on to use.
PanicsOnlyIfEarly == Panicked => early

\* A request for a machine or a unit finds the model and the application alive, and
\* one about an application finds it in the model, unless the JujuCluster was deleted
\* first: nothing but the infrastructure's readiness, seen once, tells the JujuMachine
\* controller that they are there.
AsksInTime == Refused \/ (\E a \in BootstrapApps : Unknown(a)) => early

\* The model is asked to go only when it has no machines, although the JujuCluster
\* controller counts applications and never looks at machines: the finalizers of
\* the JujuMachines see to it in Cluster API's order, unless the process dies
\* between the request for a machine and the record of it.
MachinesGoneFirst ==
    [][model = "alive" /\ model' = "dying" /\ ~early /\ Spared({"crash"})
       => \A i \in MachineIDs : ~M!InModel(i)]_allVars

\* A deleted JujuCluster goes away in the end, and no machine is left in Juju, if
\* Cluster API has deleted it: whatever a crash has lost track of goes with the
\* model or with the Juju controller.
NothingLeftInJuju ==
    "deleted" \in stored /\ ~early ~>
        "present" \notin stored /\ \A i \in MachineIDs : ~M!InModel(i)

================================================================================
