------------------------------ MODULE JujuMachine ------------------------------
(***************************************************************************)
(* The JujuMachine controller (controllers/jujumachine_controller.go), the *)
(* Kubernetes objects it reconciles and the part of Juju it drives.        *)
(*                                                                         *)
(* One worker takes one JujuMachine at a time from the work queue, reads   *)
(* it from the informer cache, calls Juju and the workload cluster one     *)
(* request at a time, edits its copy of the object in memory and, on every *)
(* way out, writes the difference back with a patch.  A pass is therefore  *)
(* a chain of steps, and everything else (users, Cluster API, Juju, the    *)
(* kubelet, the process dying) may move between any two of them.           *)
(*                                                                         *)
(* Simplifications, each sound for the properties below:                   *)
(*   - the requeue delays are not modelled: a requeued object is at once   *)
(*     back in the queue, and may be taken arbitrarily late;               *)
(*   - the objects of the owning cluster only ever become available        *)
(*     (Cluster API deletes them after the machines), and every            *)
(*     application of the bootstrap data is in the model: Provider says    *)
(*     what a pass does without one;                                       *)
(*   - constraints, labels, addresses and log lines are left out.          *)
(***************************************************************************)
EXTENDS Naturals, FiniteSets

CONSTANTS
    Objects,             \* the JujuMachine objects
    Apps,                \* the applications named by the bootstrap data
    MachineIDs,          \* the Juju machine numbers: bounds calls of AddMachine
    UseJujuProviderID,   \* the objects whose spec sets useJujuProviderID
    LatePrerequisites,   \* the prerequisites that may appear only later
    LateBootstrap,       \* the objects whose bootstrap data may come later
    FaultBudget,         \* how often each kind of fault may happen
    None                 \* an unset optional field

Prerequisites == {"cluster", "infrastructureReady", "jujuCluster", "config",
                  "model", "kubeconfig"}

FaultKinds == {"call",        \* a request to Juju fails and changes nothing
               "reply",       \* a request to Juju is done, its answer lost
               "patch",       \* a patch of the JujuMachine is lost
               "stale",       \* a pass starts from an outdated cached object
               "crash",       \* the manager process restarts
               "conflict",    \* the update of the node is refused
               "unitError",   \* a unit enters the error state
               "machineLost"} \* a machine leaves the model by another hand

ProviderIDs == [scheme : {"juju", "cloud"}, machine : MachineIDs]

ASSUME SubsetsAssumption ==
    /\ UseJujuProviderID \subseteq Objects
    /\ LateBootstrap \subseteq Objects
    /\ LatePrerequisites \subseteq Prerequisites
ASSUME BudgetAssumption == FaultBudget \in [FaultKinds -> Nat]
ASSUME NoneAssumption == None \notin Objects \cup Apps \cup MachineIDs \cup ProviderIDs

VARIABLES
    stored,       \* the JujuMachine objects in the API server
    cache,        \* the informer's copy of them
    queue,        \* the controller's work queue
    provided,     \* the prerequisites that exist by now
    bootstrapped, \* objects whose Machine names a bootstrap data secret
    pc,           \* what the worker does next
    cur,          \* the object of the pass
    before,       \* that object as the pass read it (the patch helper's copy)
    mem,          \* that object as the pass has edited it
    requeue,      \* whether the result of the pass asks for another one
    pass,         \* the other local variables of the pass
    mstate,       \* the life of every Juju machine
    creator,      \* history: the object every Juju machine was asked for
    units,        \* the unit of every application on every machine
    dup,          \* history: pairs that got a second unit
    node,         \* the workload cluster's node of every machine
    budget        \* faults that may still happen

k8s    == <<stored, cache, queue>>
env    == <<provided, bootstrapped>>
local  == <<pc, cur, before, mem, requeue, pass>>
juju   == <<mstate, creator, units, dup>>
vars   == <<stored, cache, queue, provided, bootstrapped, pc, cur, before, mem,
            requeue, pass, mstate, creator, units, dup, node, budget>>

Object == [present : BOOLEAN, owned : BOOLEAN, deleted : BOOLEAN,
           finalizer : BOOLEAN, machineID : MachineIDs \cup {None},
           providerID : ProviderIDs \cup {None}, ready : BOOLEAN]
Absent == [present |-> FALSE, owned |-> FALSE, deleted |-> FALSE,
           finalizer |-> FALSE, machineID |-> None, providerID |-> None,
           ready |-> FALSE]
Created == [Absent EXCEPT !.present = TRUE]

UnitStates == {"none", "allocating", "active", "error",
               "dying",      \* asked to go, life "dying"
               "dyingError", \* life "dying" and in error: waits to be resolved
               "forced"}     \* asked to go by force
Machines == {"absent", "pending", "started", "stopping", "gone"}
Node == [registered : BOOLEAN, providerID : ProviderIDs \cup {None}]

Pass == [bootstrapped : BOOLEAN, modelKnown : BOOLEAN, appsReady : BOOLEAN,
         todo : SUBSET Apps, app : Apps \cup {None},
         victims : SUBSET (Apps \X BOOLEAN)]
NoPass == [bootstrapped |-> FALSE, modelKnown |-> FALSE, appsReady |-> TRUE,
           todo |-> {}, app |-> None, victims |-> {}]

\* The steps at which the worker is about to send a request to Juju.
JujuCalls == {"getMachineForDeletion", "listUnits", "destroyUnits",
              "addMachine", "getMachine", "applications", "addUnit",
              "matchNode", "addresses"}
Steps == JujuCalls \cup {"idle", "prerequisites", "branch", "updateNode",
                         "patch", "patchStatus", "panicked"}

Init ==
    /\ stored = [o \in Objects |-> Created]
    /\ cache = stored
    /\ queue = Objects
    /\ \E missing \in SUBSET LatePrerequisites : provided = Prerequisites \ missing
    /\ \E missing \in SUBSET LateBootstrap : bootstrapped = Objects \ missing
    /\ pc = "idle" /\ cur = None /\ before = Absent /\ mem = Absent
    /\ requeue = FALSE /\ pass = NoPass
    /\ mstate = [i \in MachineIDs |-> "absent"]
    /\ creator = [i \in MachineIDs |-> None]
    /\ units = [i \in MachineIDs |-> [a \in Apps |-> "none"]]
    /\ dup = {}
    /\ node = [i \in MachineIDs |-> [registered |-> FALSE, providerID |-> None]]
    /\ budget = FaultBudget

--------------------------------------------------------------------------------
(* Starting and ending a pass                                              *)

Spend(kind) == /\ budget[kind] > 0
               /\ budget' = [budget EXCEPT ![kind] = @ - 1]

ID == mem.machineID
InModel(i) == mstate[i] \in {"pending", "started", "stopping"}

\* Every return statement of Reconcile: the deferred patch comes next.
Return(object, again) ==
    /\ pc' = "patch" /\ mem' = object /\ requeue' = again /\ pass' = NoPass
    /\ UNCHANGED <<cur, before>>

Goto(step) == pc' = step /\ UNCHANGED <<cur, before, mem, requeue, pass>>

EndPass(again) ==
    /\ pc' = "idle" /\ cur' = None /\ before' = Absent /\ mem' = Absent
    /\ requeue' = FALSE /\ pass' = NoPass
    /\ queue' = IF again THEN queue \cup {cur} ELSE queue

\* r.Get answers from the cache, which may lag behind the API server.
ReadFromCache(o) == IF cache[o] = stored[o] THEN UNCHANGED budget ELSE Spend("stale")

\* The object is gone: nothing to do.
Forget(o) ==
    /\ pc = "idle" /\ o \in queue /\ ~cache[o].present
    /\ ReadFromCache(o)
    /\ queue' = queue \ {o}
    /\ UNCHANGED <<stored, cache, env, local, juju, node>>

Begin(o) ==
    /\ pc = "idle" /\ o \in queue /\ cache[o].present
    /\ ReadFromCache(o)
    /\ queue' = queue \ {o}
    /\ pc' = "prerequisites" /\ cur' = o /\ before' = cache[o] /\ mem' = cache[o]
    /\ pass' = [NoPass EXCEPT !.bootstrapped = o \in bootstrapped]
    /\ UNCHANGED <<stored, cache, env, requeue, juju, node>>

\* No owner Machine, or no Cluster: wait for an event.
WaitForOwner ==
    /\ pc = "prerequisites"
    /\ ~before.owned \/ "cluster" \notin provided
    /\ EndPass(FALSE)
    /\ UNCHANGED <<stored, cache, env, juju, node, budget>>

\* Mutation: no polling.
WaitForClusterEvent ==
    /\ pc = "prerequisites"
    /\ before.owned /\ "cluster" \in provided
    /\ ~({"infrastructureReady", "jujuCluster", "config"} \subseteq provided)
    /\ EndPass(FALSE)
    /\ UNCHANGED <<stored, cache, env, juju, node, budget>>

\* The infrastructure is not ready, or its objects are missing: poll.
WaitForCluster ==
    /\ pc = "prerequisites"
    /\ before.owned /\ "cluster" \in provided
    /\ ~({"infrastructureReady", "jujuCluster", "config"} \subseteq provided)
    /\ EndPass(TRUE)
    /\ UNCHANGED <<stored, cache, env, juju, node, budget>>

\* Mutation: the infrastructure may not be ready.
ConnectUnready ==
    /\ pc = "prerequisites"
    /\ before.owned
    /\ {"cluster", "jujuCluster", "config"} \subseteq provided
    /\ pass' = [pass EXCEPT !.modelKnown = "model" \in provided]
    /\ pc' = "branch"
    /\ UNCHANGED <<k8s, env, cur, before, mem, requeue, juju, node, budget>>

\* GetModelUUID answers "" without an error when it cannot resolve the name.
ConnectToModel ==
    /\ pc = "prerequisites"
    /\ before.owned
    /\ {"cluster", "infrastructureReady", "jujuCluster", "config"} \subseteq provided
    /\ \E known \in BOOLEAN :
          /\ known => "model" \in provided
          /\ IF known \/ "model" \notin provided THEN UNCHANGED budget ELSE Spend("call")
          /\ pass' = [pass EXCEPT !.modelKnown = known]
    /\ pc' = "branch"
    /\ UNCHANGED <<k8s, env, cur, before, mem, requeue, juju, node>>

\* A request to Juju fails: without a model UUID always, else as a fault.
CallFails ==
    /\ pc \in JujuCalls
    /\ pc = "destroyUnits" => pass.victims # {}
    /\ pc = "applications" => pass.todo # {}
    /\ IF pass.modelKnown THEN Spend("call") ELSE UNCHANGED budget
    /\ Return(mem, TRUE)
    /\ UNCHANGED <<k8s, env, juju, node>>

\* A request to Juju took effect, but the connection broke before the answer.
ReplyLost == Spend("reply") /\ Return(mem, TRUE)

Call(step) == pc = step /\ pass.modelKnown

--------------------------------------------------------------------------------
(* The finalizer, and deletion                                             *)

AddFinalizer ==
    /\ pc = "branch" /\ ~before.deleted /\ ~before.finalizer
    /\ Return([mem EXCEPT !.finalizer = TRUE], FALSE)
    /\ UNCHANGED <<k8s, env, juju, node, budget>>

\* Mutation: the machine ID is not looked at.
ReleaseAtOnce ==
    /\ pc = "branch" /\ before.deleted
    /\ Return([mem EXCEPT !.finalizer = FALSE], FALSE)
    /\ UNCHANGED <<k8s, env, juju, node, budget>>

\* Deleted and never given a machine, or already released.
ReleaseWithoutMachine ==
    /\ pc = "branch" /\ before.deleted /\ (~before.finalizer \/ ID = None)
    /\ Return([mem EXCEPT !.finalizer = FALSE], FALSE)
    /\ UNCHANGED <<k8s, env, juju, node, budget>>

StartDeletion ==
    /\ pc = "branch" /\ before.deleted /\ before.finalizer /\ ID # None
    /\ Goto("getMachineForDeletion")
    /\ UNCHANGED <<k8s, env, juju, node, budget>>

\* Mutation: a machine that is stopping counts as gone.
MayReleaseStopping(i) == mstate[i] \notin {"pending", "started"}

\* GetMachine found nothing: the machine has left the model.
MayRelease(i) == ~InModel(i)

ReleaseAfterMachine ==
    /\ Call("getMachineForDeletion") /\ MayRelease(ID)
    /\ Return([mem EXCEPT !.finalizer = FALSE], FALSE)
    /\ UNCHANGED <<k8s, env, juju, node, budget>>

MachineRemains ==
    /\ Call("getMachineForDeletion") /\ ~MayRelease(ID)
    /\ Goto("listUnits")
    /\ UNCHANGED <<k8s, env, juju, node, budget>>

\* Units of the machine that are not dying yet, and whether to force them.
Victims(i) ==
    {<<a, units[i][a] = "error">> :
        a \in {b \in Apps : units[i][b] \in {"allocating", "active", "error"}}}

\* destroyMachine: one status request, then one removal request per unit.
ListUnits ==
    /\ Call("listUnits")
    /\ pass' = [pass EXCEPT !.victims = Victims(ID)]
    /\ pc' = "destroyUnits"
    /\ UNCHANGED <<k8s, env, cur, before, mem, requeue, juju, node, budget>>

DestroyUnit(a, force) ==
    /\ Call("destroyUnits") /\ <<a, force>> \in pass.victims /\ InModel(ID)
    /\ units' = [units EXCEPT ![ID][a] = CASE force -> "forced"
                                           [] ~force /\ @ = "error" -> "dyingError"
                                           [] OTHER -> "dying"]
    /\ \/ /\ pass' = [pass EXCEPT !.victims = @ \ {<<a, force>>}]
          /\ UNCHANGED <<pc, cur, before, mem, requeue, budget>>
       \/ ReplyLost
    /\ UNCHANGED <<k8s, env, mstate, creator, dup, node>>

\* Mutation: the result does not ask for another pass.
UnitsRequestedOnce ==
    /\ pc = "destroyUnits" /\ pass.victims = {}
    /\ Return(mem, FALSE)
    /\ UNCHANGED <<k8s, env, juju, node, budget>>

UnitsRequested ==
    /\ pc = "destroyUnits" /\ pass.victims = {}
    /\ Return(mem, TRUE)
    /\ UNCHANGED <<k8s, env, juju, node, budget>>

--------------------------------------------------------------------------------
(* Requesting a machine, and placing units on it                           *)

\* Mutation: the machine is requested without waiting for the finalizer.
StartProvisioningEarly ==
    /\ pc = "branch" /\ ~before.deleted
    /\ Goto(IF ID = None THEN "addMachine" ELSE "getMachine")
    /\ UNCHANGED <<k8s, env, juju, node, budget>>

\* Mutation: a deleted object is provisioned on.
StartProvisioningDeleted ==
    /\ pc = "branch" /\ before.finalizer
    /\ Goto(IF ID = None THEN "addMachine" ELSE "getMachine")
    /\ UNCHANGED <<k8s, env, juju, node, budget>>

\* Only an object under the finalizer gets as far as asking for a machine.
StartProvisioning ==
    /\ pc = "branch" /\ ~before.deleted /\ before.finalizer
    /\ Goto(IF ID = None THEN "addMachine" ELSE "getMachine")
    /\ UNCHANGED <<k8s, env, juju, node, budget>>

AddMachine ==
    /\ Call("addMachine")
    /\ \E i \in {j \in MachineIDs : mstate[j] = "absent"} :
          /\ mstate' = [mstate EXCEPT ![i] = "pending"]
          /\ creator' = [creator EXCEPT ![i] = cur]
          /\ \/ Return([mem EXCEPT !.machineID = i], TRUE) /\ UNCHANGED budget
             \/ ReplyLost
    /\ UNCHANGED <<k8s, env, units, dup, node>>

\* m.Status is read without asking whether m is nil.
GetMachineNil ==
    /\ Call("getMachine") /\ ~InModel(ID)
    /\ Goto("panicked")
    /\ UNCHANGED <<k8s, env, juju, node, budget>>

\* The machine has not started, or its bootstrap data is not there yet.
MachineNotReady ==
    /\ Call("getMachine") /\ InModel(ID)
    /\ \/ mstate[ID] # "started" /\ Return(mem, TRUE)
       \/ mstate[ID] = "started" /\ ~pass.bootstrapped /\ Return(mem, FALSE)
    /\ UNCHANGED <<k8s, env, juju, node, budget>>

MachineStarted ==
    /\ Call("getMachine") /\ mstate[ID] = "started" /\ pass.bootstrapped
    /\ pass' = [pass EXCEPT !.todo = Apps]
    /\ pc' = "applications"
    /\ UNCHANGED <<k8s, env, cur, before, mem, requeue, juju, node, budget>>

\* Mutation: a unit counts whatever its status.
UnitFoundAnyStatus(a) ==
    /\ Call("applications") /\ a \in pass.todo /\ units[ID][a] # "none"
    /\ pass' = [pass EXCEPT !.todo = @ \ {a}]
    /\ UNCHANGED <<k8s, env, pc, cur, before, mem, requeue, juju, node, budget>>

\* getUnitStatusForAppOnMachine finds a unit: ready only if active and idle.
UnitFound(a) ==
    /\ Call("applications") /\ a \in pass.todo /\ units[ID][a] # "none"
    /\ pass' = [pass EXCEPT !.todo = @ \ {a},
                            !.appsReady = @ /\ units[ID][a] = "active"]
    /\ UNCHANGED <<k8s, env, pc, cur, before, mem, requeue, juju, node, budget>>

\* Mutation: a unit that is not active counts as missing.
UnitMissingOrInactive(a) ==
    /\ Call("applications") /\ a \in pass.todo /\ units[ID][a] # "active"
    /\ pass' = [pass EXCEPT !.todo = @ \ {a}, !.appsReady = FALSE, !.app = a]
    /\ pc' = "addUnit"
    /\ UNCHANGED <<k8s, env, cur, before, mem, requeue, juju, node, budget>>

UnitMissing(a) ==
    /\ Call("applications") /\ a \in pass.todo /\ units[ID][a] = "none"
    /\ pass' = [pass EXCEPT !.todo = @ \ {a}, !.appsReady = FALSE, !.app = a]
    /\ pc' = "addUnit"
    /\ UNCHANGED <<k8s, env, cur, before, mem, requeue, juju, node, budget>>

AddUnit ==
    /\ Call("addUnit") /\ mstate[ID] \in {"pending", "started"}
    /\ units' = [units EXCEPT ![ID][pass.app] = "allocating"]
    /\ dup' = IF units[ID][pass.app] = "none" THEN dup ELSE dup \cup {<<ID, pass.app>>}
    /\ \/ /\ pass' = [pass EXCEPT !.app = None] /\ pc' = "applications"
          /\ UNCHANGED <<cur, before, mem, requeue, budget>>
       \/ ReplyLost
    /\ UNCHANGED <<k8s, env, mstate, creator, node>>

AppsNotReady ==
    /\ pc = "applications" /\ pass.todo = {} /\ ~pass.appsReady
    /\ Return(mem, TRUE)
    /\ UNCHANGED <<k8s, env, juju, node, budget>>

--------------------------------------------------------------------------------
(* The provider ID, and readiness                                          *)

\* Status.Ready is set before the last request, reading the addresses again.
MarkReady(object) == /\ mem' = [object EXCEPT !.ready = TRUE]
                     /\ pc' = "addresses"
                     /\ UNCHANGED <<cur, before, requeue, pass>>

\* Mutation: ready as soon as the applications are.
AppsReadyAtOnce ==
    /\ pc = "applications" /\ pass.todo = {} /\ pass.appsReady
    /\ mem' = [mem EXCEPT !.ready = TRUE]
    /\ pc' = IF before.providerID = None THEN "matchNode" ELSE "addresses"
    /\ UNCHANGED <<k8s, env, cur, before, requeue, pass, juju, node, budget>>

AppsReady ==
    /\ pc = "applications" /\ pass.todo = {} /\ pass.appsReady
    /\ IF before.providerID = None THEN Goto("matchNode") ELSE MarkReady(mem)
    /\ UNCHANGED <<k8s, env, juju, node, budget>>

\* No kubeconfig yet, no node with an address of the machine, or no provider
\* ID on the node of an object that expects a cloud provider to set it.
NodeMissing ==
    /\ Call("matchNode") /\ InModel(ID)
    /\ \/ "kubeconfig" \notin provided
       \/ ~node[ID].registered
       \/ cur \notin UseJujuProviderID /\ node[ID].providerID = None
    /\ Return(mem, TRUE)
    /\ UNCHANGED <<k8s, env, juju, node, budget>>

NodeFound == /\ Call("matchNode") /\ InModel(ID)
             /\ "kubeconfig" \in provided /\ node[ID].registered

\* Mutation: the Juju machine number instead of the provider ID made of it.
SetProviderIDToMachineID ==
    /\ mem' = [mem EXCEPT !.providerID = ID]
    /\ pc' = "updateNode"
    /\ UNCHANGED <<cur, before, requeue, pass>>

\* The object's provider ID is set in memory before the node's is updated.
SetProviderID ==
    /\ mem' = [mem EXCEPT !.providerID = [scheme |-> "juju", machine |-> ID]]
    /\ pc' = "updateNode"
    /\ UNCHANGED <<cur, before, requeue, pass>>

JujuProvider ==
    /\ NodeFound /\ cur \in UseJujuProviderID
    /\ SetProviderID
    /\ UNCHANGED <<k8s, env, juju, node, budget>>

\* Mutation: the update of the node is left out.
UpdateNodeSkipped ==
    /\ pc = "updateNode"
    /\ MarkReady(mem)
    /\ UNCHANGED <<k8s, env, juju, node, budget>>

UpdateNode ==
    /\ pc = "updateNode"
    /\ node' = [node EXCEPT ![ID].providerID = mem.providerID]
    /\ MarkReady(mem)
    /\ UNCHANGED <<k8s, env, juju, budget>>

\* The node changed since it was listed, or the workload API is unreachable.
UpdateNodeFails ==
    /\ pc = "updateNode" /\ Spend("conflict")
    /\ Return(mem, TRUE)
    /\ UNCHANGED <<k8s, env, juju, node>>

CloudProvider ==
    /\ NodeFound /\ cur \notin UseJujuProviderID /\ node[ID].providerID # None
    /\ MarkReady([mem EXCEPT !.providerID = node[ID].providerID])
    /\ UNCHANGED <<k8s, env, juju, node, budget>>

AddressesRead ==
    /\ Call("addresses") /\ InModel(ID)
    /\ Return(mem, FALSE)
    /\ UNCHANGED <<k8s, env, juju, node, budget>>

\* The machine went away during the pass: unit requests are refused, and its
\* addresses are empty.
MachineVanished ==
    /\ pc \in {"destroyUnits", "addUnit", "matchNode", "addresses"} /\ pass.modelKnown
    /\ pc = "destroyUnits" => pass.victims # {}
    /\ mstate[ID] \notin IF pc = "addUnit" THEN {"pending", "started"}
                        ELSE {"pending", "started", "stopping"}
    /\ Return(mem, TRUE)
    /\ UNCHANGED <<k8s, env, juju, node, budget>>

--------------------------------------------------------------------------------
(* The deferred patch: metadata and spec first, then the status, each sent *)
(* only if it changed, each on its own; an error is logged and forgotten.  *)

SpecChanged == \/ mem.finalizer # before.finalizer
               \/ mem.machineID # before.machineID
               \/ mem.providerID # before.providerID

\* Mutation: the machine ID is not part of the patch.
MergedWithoutMachineID(object) ==
    [object EXCEPT
        !.finalizer = IF mem.finalizer # before.finalizer THEN mem.finalizer ELSE @,
        !.providerID = IF mem.providerID # before.providerID THEN mem.providerID ELSE @]

\* A merge patch: only the fields the pass changed.
Merged(object) ==
    [object EXCEPT
        !.finalizer = IF mem.finalizer # before.finalizer THEN mem.finalizer ELSE @,
        !.machineID = IF mem.machineID # before.machineID THEN mem.machineID ELSE @,
        !.providerID = IF mem.providerID # before.providerID THEN mem.providerID ELSE @]

\* The API server removes a deleted object with its last finalizer.
Collected(object) == IF object.deleted /\ ~object.finalizer THEN Absent ELSE object

PatchSpec ==
    /\ pc = "patch"
    /\ SpecChanged => stored[cur].present
    /\ stored' = [stored EXCEPT ![cur] = Collected(Merged(@))]
    /\ Goto("patchStatus")
    /\ UNCHANGED <<cache, queue, env, juju, node, budget>>

PatchSpecFails ==
    /\ pc = "patch" /\ SpecChanged
    /\ IF stored[cur].present THEN Spend("patch") ELSE UNCHANGED budget
    /\ Goto("patchStatus")
    /\ UNCHANGED <<k8s, env, juju, node>>

StatusChanged == mem.ready # before.ready

PatchStatus ==
    /\ pc = "patchStatus"
    /\ StatusChanged => stored[cur].present
    /\ stored' = [stored EXCEPT ![cur].ready = IF StatusChanged THEN mem.ready ELSE @]
    /\ EndPass(requeue)
    /\ UNCHANGED <<cache, env, juju, node, budget>>

PatchStatusFails ==
    /\ pc = "patchStatus" /\ StatusChanged
    /\ IF stored[cur].present THEN Spend("patch") ELSE UNCHANGED budget
    /\ EndPass(requeue)
    /\ UNCHANGED <<stored, cache, env, juju, node>>

\* The process dies, by itself or by a panic in Reconcile, and starts again:
\* the informer lists all objects and queues them.
Restart ==
    /\ IF pc = "panicked" THEN UNCHANGED budget ELSE Spend("crash")
    /\ pc' = "idle" /\ cur' = None /\ before' = Absent /\ mem' = Absent
    /\ requeue' = FALSE /\ pass' = NoPass
    /\ cache' = stored
    /\ queue' = {o \in Objects : stored[o].present}
    /\ UNCHANGED <<stored, env, juju, node>>

--------------------------------------------------------------------------------
(* The informer, users and Cluster API                                     *)

\* A watch event brings the cache up to date and queues the object.
Observe(o) ==
    /\ cache[o] # stored[o]
    /\ cache' = [cache EXCEPT ![o] = stored[o]]
    /\ queue' = queue \cup {o}
    /\ UNCHANGED <<stored, env, local, juju, node, budget>>

\* The periodic resync queues every object of the cache again.
Resync(o) ==
    /\ cache[o].present /\ o \notin queue
    /\ queue' = queue \cup {o}
    /\ UNCHANGED <<stored, cache, env, local, juju, node, budget>>

Delete(o) ==
    /\ stored[o].present /\ ~stored[o].deleted
    /\ stored' = [stored EXCEPT ![o] = Collected([@ EXCEPT !.deleted = TRUE])]
    /\ UNCHANGED <<cache, queue, env, local, juju, node, budget>>

SetOwner(o) ==
    /\ stored[o].present /\ ~stored[o].owned
    /\ stored' = [stored EXCEPT ![o].owned = TRUE]
    /\ UNCHANGED <<cache, queue, env, local, juju, node, budget>>

\* The bootstrap provider sets dataSecretName on the owner Machine, which this
\* controller does not watch.
DataSecretNamed(o) ==
    /\ o \notin bootstrapped
    /\ bootstrapped' = bootstrapped \cup {o}
    /\ UNCHANGED <<k8s, provided, local, juju, node, budget>>

Provide(p) ==
    /\ p \notin provided
    /\ provided' = provided \cup {p}
    /\ UNCHANGED <<k8s, bootstrapped, local, juju, node, budget>>

--------------------------------------------------------------------------------
(* Juju, and the workload cluster                                          *)

MachineStarts(i) ==
    /\ mstate[i] = "pending"
    /\ mstate' = [mstate EXCEPT ![i] = "started"]
    /\ UNCHANGED <<k8s, env, local, creator, units, dup, node, budget>>

SetUnit(i, a, state) == units' = [units EXCEPT ![i][a] = state]

\* A unit comes up; one that is leaving stays as it is.
UnitSettles(i, a) ==
    /\ mstate[i] = "started" /\ units[i][a] = "allocating"
    /\ SetUnit(i, a, "active")
    /\ UNCHANGED <<k8s, env, local, mstate, creator, dup, node, budget>>

UnitFails(i, a) ==
    /\ units[i][a] \in {"allocating", "active", "dying"} /\ Spend("unitError")
    /\ SetUnit(i, a, IF units[i][a] = "dying" THEN "dyingError" ELSE "error")
    /\ UNCHANGED <<k8s, env, local, mstate, creator, dup, node>>

\* An operator resolves the error.
UnitResolved(i, a) ==
    /\ units[i][a] \in {"error", "dyingError"}
    /\ SetUnit(i, a, IF units[i][a] = "error" THEN "active" ELSE "dying")
    /\ UNCHANGED <<k8s, env, local, mstate, creator, dup, node, budget>>

\* A unit that was asked to go is gone; the last one takes the machine along.
UnitRemoved(i, a) ==
    /\ units[i][a] \in {"dying", "forced"}
    /\ SetUnit(i, a, "none")
    /\ mstate' = IF \A b \in Apps \ {a} : units[i][b] = "none"
                 THEN [mstate EXCEPT ![i] = "stopping"] ELSE mstate
    /\ UNCHANGED <<k8s, env, local, creator, dup, node, budget>>

MachineStops(i) ==
    /\ mstate[i] = "stopping"
    /\ mstate' = [mstate EXCEPT ![i] = "gone"]
    /\ UNCHANGED <<k8s, env, local, creator, units, dup, node, budget>>

\* The cloud or an administrator removes the machine with its units.
MachineLost(i) ==
    /\ InModel(i) /\ Spend("machineLost")
    /\ mstate' = [mstate EXCEPT ![i] = "gone"]
    /\ units' = [units EXCEPT ![i] = [a \in Apps |-> "none"]]
    /\ UNCHANGED <<k8s, env, local, creator, dup, node>>

\* The kubelet comes with one of the units; the others may still be coming up.
NodeRegisters(i) ==
    /\ mstate[i] = "started" /\ \E a \in Apps : units[i][a] = "active"
    /\ ~node[i].registered
    /\ node' = [node EXCEPT ![i].registered = TRUE]
    /\ UNCHANGED <<k8s, env, local, juju, budget>>

CloudSetsProviderID(i) ==
    /\ node[i].registered /\ node[i].providerID = None
    /\ creator[i] \notin UseJujuProviderID
    /\ node' = [node EXCEPT ![i].providerID = [scheme |-> "cloud", machine |-> i]]
    /\ UNCHANGED <<k8s, env, local, juju, budget>>

--------------------------------------------------------------------------------
(* The specification                                                       *)

Worker ==
    \/ WaitForOwner \/ WaitForCluster \/ ConnectToModel \/ CallFails
    \/ AddFinalizer \/ ReleaseWithoutMachine \/ StartDeletion
    \/ ReleaseAfterMachine \/ MachineRemains \/ ListUnits \/ UnitsRequested
    \/ \E a \in Apps, force \in BOOLEAN : DestroyUnit(a, force)
    \/ StartProvisioning \/ AddMachine \/ GetMachineNil \/ MachineNotReady
    \/ MachineStarted \/ AddUnit \/ AppsNotReady
    \/ \E a \in Apps : UnitFound(a) \/ UnitMissing(a)
    \/ AppsReady \/ NodeMissing \/ JujuProvider \/ UpdateNode
    \/ UpdateNodeFails \/ CloudProvider \/ AddressesRead \/ MachineVanished
    \/ PatchSpec \/ PatchSpecFails \/ PatchStatus \/ PatchStatusFails

Take == \E o \in Objects : Forget(o) \/ Begin(o)

Kubernetes ==
    \/ \E o \in Objects : \/ Observe(o) \/ Resync(o) \/ Delete(o)
                          \/ SetOwner(o) \/ DataSecretNamed(o)
    \/ \E p \in Prerequisites : Provide(p)

Juju ==
    \E i \in MachineIDs :
        \/ MachineStarts(i) \/ MachineStops(i) \/ MachineLost(i)
        \/ NodeRegisters(i) \/ CloudSetsProviderID(i)
        \/ \E a \in Apps : \/ UnitSettles(i, a) \/ UnitFails(i, a)
                            \/ UnitResolved(i, a) \/ UnitRemoved(i, a)

Next == Worker \/ Take \/ Restart \/ Kubernetes \/ Juju

Spec == Init /\ [][Next]_vars

\* The worker never stops in the middle of a pass, the queue is first in first
\* out, a panicked process is restarted by its Deployment, and the rest of the
\* system does its part.  Users delete nothing by obligation, and nobody has to
\* resolve the error of a unit.
Fairness ==
    /\ WF_vars(Worker)
    /\ WF_vars(pc = "panicked" /\ Restart)
    /\ \A o \in Objects : /\ SF_vars(Begin(o)) /\ WF_vars(Observe(o))
                          /\ WF_vars(SetOwner(o)) /\ WF_vars(DataSecretNamed(o))
    /\ \A p \in Prerequisites : WF_vars(Provide(p))
    /\ \A i \in MachineIDs :
          /\ WF_vars(MachineStarts(i)) /\ WF_vars(MachineStops(i))
          /\ WF_vars(NodeRegisters(i)) /\ WF_vars(CloudSetsProviderID(i))
          /\ \A a \in Apps : WF_vars(UnitSettles(i, a)) /\ WF_vars(UnitRemoved(i, a))

FairSpec == Spec /\ Fairness

--------------------------------------------------------------------------------
(* Properties                                                              *)

KubernetesTyped ==
    /\ stored \in [Objects -> Object]
    /\ cache \in [Objects -> Object]
    /\ queue \subseteq Objects
    /\ provided \subseteq Prerequisites
    /\ bootstrapped \subseteq Objects

WorkerTyped ==
    /\ pc \in Steps
    /\ cur \in Objects \cup {None}
    /\ before \in Object
    /\ mem \in Object
    /\ requeue \in BOOLEAN
    /\ pass \in Pass

JujuTyped ==
    /\ mstate \in [MachineIDs -> Machines]
    /\ creator \in [MachineIDs -> Objects \cup {None}]
    /\ units \in [MachineIDs -> [Apps -> UnitStates]]
    /\ dup \subseteq MachineIDs \X Apps
    /\ node \in [MachineIDs -> Node]

BudgetTyped == budget \in [FaultKinds -> Nat]

\* Every variable has its type.
TypeOK == KubernetesTyped /\ WorkerTyped /\ JujuTyped /\ BudgetTyped

\* No fault of these kinds has happened so far.
Spared(kinds) == \A k \in kinds : budget[k] = FaultBudget[k]

\* A fault of this kind has happened at most once so far.
OnceAtMost(kind) == budget[kind] + 1 >= FaultBudget[kind]

\* reconcileApplications never places a second unit of an application on a
\* machine, whatever fails and whoever restarts: every pass asks Juju for the
\* unit again before it adds one.
OneUnitPerApp == dup = {}

\* createMachine is called only for an object that still carries the
\* finalizer in the API server, so that its deletion has to come back here.
AcquiresUnderFinalizer ==
    [][\A i \in MachineIDs : creator'[i] # creator[i] =>
          stored[creator'[i]].present /\ stored[creator'[i]].finalizer]_vars

\* A machine in the model belongs to an object that still exists under its
\* finalizer and has recorded the machine, or is held by the pass that asked
\* for it and is about to record it.
NoOrphan ==
    Spared({"reply", "patch", "crash", "stale"}) =>
        \A i \in MachineIDs : InModel(i) =>
        LET o == creator[i] IN
        /\ stored[o].present /\ stored[o].finalizer
        /\ \/ stored[o].machineID = i
           \/ cur = o /\ pc = "patch" /\ mem.machineID = i

\* An object leaves the API server only after its machine has left the model
\* (the finalizer is removed under "is no longer in the model"), whatever fails,
\* unless a pass starts from an outdated object without the machine.
FinalizerGuards ==
    [][Spared({"stale"}) => \A o \in Objects :
          stored[o].present /\ stored[o].machineID # None /\ ~stored'[o].present
              => mstate[stored[o].machineID] = "gone"]_vars

\* The provider ID of an object is the one its node carries ("the node
\* provider ID and machine provider ID will need to match"), although they are
\* written by two requests to two API servers, unless an update of a node is
\* refused: that one is never repeated.  Outdated passes add up: one may replace
\* the recorded machine, and later ones, which know only the first machine, may
\* serve that one and record its provider ID beside the other's number.
ProviderIDsMatch ==
    Spared({"conflict"}) /\ OnceAtMost("stale") =>
        \A o \in Objects : stored[o].providerID # None =>
            /\ stored[o].machineID # None
            /\ node[stored[o].machineID].providerID = stored[o].providerID

\* An object is reported ready only once it has its provider ID: the spec is
\* patched before the status, and a crash between the two keeps the order.  Only
\* a lost patch of the spec, which does not stop that of the status, breaks it.
ReadyHasProviderID ==
    Spared({"patch"}) => \A o \in Objects : stored[o].ready => stored[o].providerID # None

\* When an object becomes ready, its machine runs an active unit of every
\* application of the bootstrap data, although the units were read one by one
\* and long before the status is written: units that serve go on serving unless
\* they err or their machine is lost.  Several outdated passes may look at the
\* units of a machine that is no longer the recorded one.
ReadyWhenServing ==
    [][Spared({"unitError", "machineLost"}) /\ OnceAtMost("stale") =>
          \A o \in Objects : ~stored[o].ready /\ stored'[o].ready =>
              \A a \in Apps : units[stored[o].machineID][a] = "active"]_vars

\* Reconcile never reads the status of a machine that is not in the model:
\* on the way that does not look for nil, the machine is still there.
NoPanic == Spared({"machineLost"}) => pc # "panicked"

\* The controller implements the abstract ownership of machines: an object is
\* guarded while it carries the finalizer, and a machine was issued to the
\* object it was created for.
Ownership == INSTANCE MachineOwnership WITH
    guarded  <- {o \in Objects : stored[o].finalizer},
    released <- {o \in Objects : ~stored[o].present},
    issued   <- [o \in Objects |-> {i \in MachineIDs : creator[i] = o}],
    live     <- {i \in MachineIDs : InModel(i)}
ImplementsOwnership == Ownership!Spec

\* Nothing that the controller has to be told of comes late or is lost: the
\* owning cluster and the bootstrap data, neither of which it watches, are there
\* from the start, and no patch is lost, whose error it drops.
Told(o) == []("cluster" \in provided /\ o \in bootstrapped /\ Spared({"patch"}))

\* The informer's resync (every ten hours by default) comes again and again.
Resynced(o) == WF_vars(Resync(o))

\* An object whose units stay out of error and that nobody deletes is ready in
\* the end: promptly, by its requeues and its own events, if the controller is
\* told of everything, and by the resync in any case.
Provisioned ==
    \A o \in Objects : Told(o) \/ Resynced(o) =>
        (stored[o].present ~> stored[o].ready \/ stored[o].deleted
                               \/ ~stored[o].present \/ ~Spared({"unitError"}))

\* A deleted object goes away, under the same conditions, if it has a unit on
\* its machine, or if no machine was asked for on its behalf and no pass is
\* about to.  (Removing the units is all the controller does to a machine.)  A unit
\* in error is no obstacle, unless it errs after its removal has been decided: it
\* is then asked to go without force, and no later pass asks again.
DeletionCompletes ==
    \A o \in Objects : Told(o) \/ Resynced(o) =>
        ((/\ stored[o].deleted
          /\ \/ cur # o /\ \A i \in MachineIDs : creator[i] # o
             \/ \E i \in MachineIDs, a \in Apps :
                   stored[o].machineID = i /\ units[i][a] # "none")
         ~> \/ ~stored[o].present
            \/ \E i \in MachineIDs, a \in Apps :
                  creator[i] = o /\ units[i][a] = "dyingError")

================================================================================
