--------------------------- MODULE JujuMachineSafety ---------------------------
(***************************************************************************)
(* The safety properties of the JujuMachine controller, for any number of  *)
(* objects, applications and machines: what holds whatever fails, and what *)
(* holds until a certain kind of fault has happened; and the refinement of *)
(* MachineOwnership.                                                       *)
(***************************************************************************)
EXTENDS JujuMachineCopies

(***************************************************************************)
(* The inductive invariants, each on top of Inv and CopiesInv.             *)
(***************************************************************************)
\* No more faults than the budget has.
Within == \A k \in FaultKinds : budget[k] <= FaultBudget[k]

\* As long as no patch is lost, the provider ID is in the API server before the
\* status.
ReadyInv == Spared({"patch"}) =>
    /\ \A o \in Objects : stored[o].ready => stored[o].providerID # None
    /\ pc = "patchStatus" /\ mem.providerID # None /\ stored[cur].present =>
          stored[cur].providerID # None

\* What an outdated copy of the object may get wrong about its machine.  The
\* provider ID is never outdated: it is set by a pass that knows of a machine,
\* and so do all that come later.
StaleInv ==
    /\ OnceAtMost("stale") /\ pc # "idle" /\ before.machineID # None
          /\ stored[cur].present => stored[cur].machineID = before.machineID
    /\ Spared({"stale"}) => \A o \in Objects :
          cache[o].machineID # None /\ stored[o].present =>
              stored[o].machineID = cache[o].machineID
    /\ Spared({"stale"}) /\ pc \notin {"idle", "patchStatus"} /\ stored[cur].present =>
          stored[cur].machineID = before.machineID
    /\ \A o \in Objects : stored[o].providerID # None => cache[o].machineID # None
    /\ pc # "idle" /\ before.machineID = None => stored[cur].providerID = None

\* A machine that stops or has gone runs no units, and the units about to be
\* asked to go have not been asked yet.
PlacedInv ==
    /\ \A i \in MachineIDs, a \in Apps :
          mstate[i] \in {"stopping", "gone"} => units[i][a] = "none"
    /\ pc = "destroyUnits" => \A a \in Apps, f \in BOOLEAN : <<a, f>> \in pass.victims =>
          /\ InModel(ID) => units[ID][a] \in {"allocating", "active", "error"}
          /\ \A g \in BOOLEAN : <<a, g>> \in pass.victims => f = g

\* The finalizer is given up only when the machine the pass knows of has gone.
ReleaseInv ==
    pc # "idle" /\ before.finalizer /\ ~mem.finalizer /\ before.machineID # None =>
        mstate[before.machineID] = "gone"

\* As long as no record of a machine is lost, every machine is recorded, about to
\* be, or has gone with its object.
RecordInv == Spared({"reply", "patch", "crash", "stale"}) =>
    \A i \in MachineIDs : creator[i] # None =>
        LET o == creator[i] IN
        \/ ~stored[o].present /\ ~InModel(i)
        \/ stored[o].present /\ stored[o].machineID = i
        \/ /\ stored[o].present /\ stored[o].finalizer
           /\ cur = o /\ pc = "patch" /\ mem.machineID = i /\ before.machineID = None

\* A machine that leaves the model by the controller's doing belongs to an object
\* whose deletion the informer has seen, and the pass too.
Leaving(i) == \/ mstate[i] \in {"stopping", "gone"}
              \/ \E a \in Apps : units[i][a] \in {"dying", "dyingError", "forced"}
AliveInv == Spared({"machineLost"}) =>
    /\ \A i \in MachineIDs : Leaving(i) =>
          /\ cache[creator[i]].present => cache[creator[i]].deleted
          /\ pc # "idle" /\ cur = creator[i] => before.deleted
    /\ pc # "panicked"

\* A node gets one provider ID, and an object gets the one of its node.
ProviderOf(i) == [scheme  |-> IF creator[i] \in UseJujuProviderID THEN "juju" ELSE "cloud",
                  machine |-> i]
MatchInv ==
    /\ \A i \in MachineIDs : node[i].registered \/ node[i].providerID # None =>
          creator[i] # None /\ node[i].providerID \in {None, ProviderOf(i)}
    /\ Spared({"conflict"}) /\ OnceAtMost("stale") => \A o \in Objects :
          stored[o].providerID # None =>
              node[stored[o].machineID].providerID = stored[o].providerID
    /\ Spared({"conflict"}) /\ pc \in {"addresses", "patch", "patchStatus"}
          /\ mem.providerID # before.providerID =>
              node[mem.machineID].providerID = mem.providerID

\* What a pass has found active stays so.
ServingInv == Spared({"unitError", "machineLost"}) =>
    /\ pc = "addUnit" => ~pass.appsReady
    /\ pc = "applications" /\ pass.appsReady =>
          \A a \in Apps \ pass.todo : units[ID][a] = "active"
    /\ pc \in {"matchNode", "updateNode", "addresses"} =>
          \A a \in Apps : units[ID][a] = "active"
    /\ pc \in {"patch", "patchStatus"} /\ mem.ready /\ ~before.ready =>
          \A a \in Apps : units[mem.machineID][a] = "active"

--------------------------------------------------------------------------------
(* What a step may do to each part of the state.                           *)

\* Everybody else leaves the pass alone.
LEMMA Bystanders == Kubernetes \/ Juju => UNCHANGED local
BY DEF Kubernetes, Observe, Resync, Delete, SetOwner, DataSecretNamed, Provide, Juju,
       MachineStarts, MachineStops, MachineLost, NodeRegisters, CloudSetsProviderID,
       UnitSettles, UnitFails, UnitResolved, UnitRemoved

\* The worker alone edits its copy, in eight places.
Editing == \/ AddFinalizer \/ ReleaseWithoutMachine \/ ReleaseAfterMachine \/ AddMachine
           \/ AppsReady \/ JujuProvider \/ UpdateNode \/ CloudProvider

\* A pass keeps its object, and what it has read of it, to its end.
LEMMA WorkerPass ==
    ASSUME Worker, pc' # "idle"
    PROVE  /\ pc # "idle" /\ UNCHANGED <<cur, before>>
           /\ mem' = mem \/ Editing
           /\ pc = "patch" => PatchSpec \/ PatchSpecFails
           /\ pc # "patchStatus"
           /\ pc' = "patchStatus" => PatchSpec \/ PatchSpecFails
<1>1. CASE Editing
    BY <1>1 DEF Editing, AddFinalizer, ReleaseWithoutMachine, ReleaseAfterMachine, AddMachine,
        AppsReady, JujuProvider, UpdateNode, CloudProvider, Return, Goto, ReplyLost,
        Call, NodeFound, SetProviderID, MarkReady
<1>2. CASE \/ CallFails \/ UnitsRequested \/ MachineNotReady \/ AppsNotReady
           \/ NodeMissing \/ UpdateNodeFails \/ AddressesRead \/ MachineVanished
    BY <1>2 DEF CallFails, UnitsRequested, MachineNotReady, AppsNotReady, NodeMissing,
        UpdateNodeFails, AddressesRead, MachineVanished, Return, JujuCalls, Call
<1>3. CASE \/ ConnectToModel \/ StartDeletion \/ MachineRemains \/ ListUnits
           \/ StartProvisioning \/ GetMachineNil \/ MachineStarted \/ AddUnit
           \/ \E a \in Apps, force \in BOOLEAN : DestroyUnit(a, force)
           \/ \E a \in Apps : UnitFound(a) \/ UnitMissing(a)
    BY <1>3 DEF ConnectToModel, StartDeletion, MachineRemains, ListUnits,
        StartProvisioning, GetMachineNil, MachineStarted, AddUnit, DestroyUnit,
        UnitFound, UnitMissing, Goto, Call, ReplyLost, Return
<1>4. CASE PatchSpec \/ PatchSpecFails
    BY <1>4 DEF PatchSpec, PatchSpecFails, Goto
<1>5. (WaitForOwner \/ WaitForCluster \/ PatchStatus \/ PatchStatusFails) => pc' = "idle"
    BY DEF WaitForOwner, WaitForCluster, PatchStatus, PatchStatusFails, EndPass
<1> QED
    BY <1>1, <1>2, <1>3, <1>4, <1>5 DEF Worker, Editing

\* A pass begins, goes on with the same object, or is over.
LEMMA PassChange ==
    ASSUME [Next]_vars, pc' # "idle"
    PROVE  \/ /\ pc # "idle" /\ UNCHANGED <<cur, before>>
              /\ mem' = mem \/ Editing
              /\ pc = "patch" => pc' = "patch" \/ PatchSpec \/ PatchSpecFails
              /\ pc = "patchStatus" => pc' = "patchStatus"
              /\ pc' = "patchStatus" => pc = "patchStatus" \/ PatchSpec \/ PatchSpecFails
           \/ \E o \in Objects : Begin(o)
<1>1. UNCHANGED local => UNCHANGED <<pc, cur, before, mem>>
    BY DEF local
<1>2. UNCHANGED vars => UNCHANGED local
    BY DEF vars, local
<1>3. Restart => pc' = "idle"
    BY DEF Restart
<1>4. \A o \in Objects : Forget(o) => UNCHANGED local
    BY DEF Forget
<1> QED
    BY <1>1, <1>2, <1>3, <1>4, Bystanders, WorkerPass DEF Next, Take

\* Only a pass that has seen the infrastructure ready gets to know the model.
LEMMA ModelKnown ==
    ASSUME Inv, [Next]_vars, pass'.modelKnown
    PROVE  pass.modelKnown \/ "infrastructureReady" \in provided
<1>1. pass \in Pass
    BY DEF Inv, TypeOK, WorkerTyped
<1>2. CASE Editing
    BY <1>1, <1>2 DEF Editing, AddFinalizer, ReleaseWithoutMachine, ReleaseAfterMachine,
        AddMachine, AppsReady, JujuProvider, UpdateNode, CloudProvider, Return, Goto,
        ReplyLost, SetProviderID, MarkReady, NoPass
<1>3. CASE \/ CallFails \/ UnitsRequested \/ MachineNotReady \/ AppsNotReady
           \/ NodeMissing \/ UpdateNodeFails \/ AddressesRead \/ MachineVanished
    BY <1>3 DEF CallFails, UnitsRequested, MachineNotReady, AppsNotReady, NodeMissing,
        UpdateNodeFails, AddressesRead, MachineVanished, Return, NoPass
<1>4. CASE ConnectToModel \/ ListUnits \/ MachineStarted
    BY <1>1, <1>4 DEF ConnectToModel, ListUnits, MachineStarted, Pass
<1>5. CASE StartDeletion \/ MachineRemains \/ StartProvisioning \/ GetMachineNil
    BY <1>5 DEF StartDeletion, MachineRemains, StartProvisioning, GetMachineNil, Goto
<1>6. CASE AddUnit \/ \E a \in Apps, force \in BOOLEAN : DestroyUnit(a, force)
    BY <1>6 DEF AddUnit, DestroyUnit, Call
<1>7. CASE \E a \in Apps : UnitFound(a) \/ UnitMissing(a)
    BY <1>1, <1>7 DEF UnitFound, UnitMissing, Pass
<1>8. CASE \/ PatchSpec \/ PatchSpecFails \/ WaitForOwner \/ WaitForCluster
           \/ PatchStatus \/ PatchStatusFails \/ Take \/ Restart
    BY <1>1, <1>8 DEF PatchSpec, PatchSpecFails, Goto, WaitForOwner, WaitForCluster,
        PatchStatus, PatchStatusFails, EndPass, Take, Forget, Begin, Restart, local, NoPass
<1>9. CASE Kubernetes \/ Juju \/ UNCHANGED vars
    BY <1>9, Bystanders DEF local, vars
<1> QED
    BY <1>2, <1>3, <1>4, <1>5, <1>6, <1>7, <1>8, <1>9 DEF Next, Worker, Editing

\* What the pass and the object in the API server look like when it begins.
LEMMA Beginning ==
    ASSUME Inv, NEW o \in Objects, Begin(o)
    PROVE  /\ pc' = "prerequisites" /\ cur' = o /\ before' = cache[o] /\ mem' = cache[o]
           /\ UNCHANGED <<stored, cache, mstate, creator, units, node>>
           /\ Spared({"stale"})' /\ Within => cache[o] = stored[o]
           /\ OnceAtMost("stale")' /\ Within => cache[o] = stored[o] \/ Spared({"stale"})
<1>1. budget \in [FaultKinds -> Nat] /\ FaultBudget \in [FaultKinds -> Nat] /\ "stale" \in FaultKinds
    BY BudgetAssumption DEF Inv, TypeOK, BudgetTyped, FaultKinds
<1>2. cache[o] # stored[o] => /\ budget["stale"] > 0
                              /\ budget'["stale"] = budget["stale"] - 1
    BY <1>1 DEF Begin, ReadFromCache, Spend
<1>3. Within => budget["stale"] <= FaultBudget["stale"]
    BY <1>1 DEF Within
<1>4. Spared({"stale"})' /\ Within => cache[o] = stored[o]
    BY <1>1, <1>2, <1>3 DEF Spared
<1>5. OnceAtMost("stale")' /\ Within => cache[o] = stored[o] \/ Spared({"stale"})
    BY <1>1, <1>2, <1>3 DEF Spared, OnceAtMost
<1> QED
    BY <1>4, <1>5 DEF Begin, juju

\* Faults are spent, never given back.
LEMMA SpendLess ==
    ASSUME Inv, NEW kind \in FaultKinds, Spend(kind)
    PROVE  \A k \in FaultKinds : budget'[k] <= budget[k]
BY DEF Inv, TypeOK, BudgetTyped, Spend

\* Every step leaves the budget alone or spends some of it.
LEMMA BudgetStep ==
    ASSUME Inv, [Next]_vars
    PROVE  \A k \in FaultKinds : budget'[k] <= budget[k]
<1>1. \/ UNCHANGED budget \/ \E kind \in FaultKinds : Spend(kind)
    <2> USE DEF FaultKinds
    <2>1. CASE Worker
        <3>1. CASE \/ AddMachine \/ AddUnit
                   \/ \E a \in Apps, force \in BOOLEAN : DestroyUnit(a, force)
            BY <3>1 DEF AddMachine, AddUnit, DestroyUnit, ReplyLost
        <3>2. CASE \/ ConnectToModel \/ CallFails \/ UpdateNodeFails \/ PatchSpecFails
                   \/ PatchStatusFails
            BY <3>2 DEF ConnectToModel, CallFails, UpdateNodeFails, PatchSpecFails,
                PatchStatusFails
        <3>3. CASE \/ WaitForOwner \/ WaitForCluster \/ AddFinalizer
                   \/ ReleaseWithoutMachine \/ StartDeletion \/ ReleaseAfterMachine
                   \/ MachineRemains \/ ListUnits \/ UnitsRequested \/ StartProvisioning
                   \/ GetMachineNil \/ MachineNotReady \/ MachineStarted \/ AppsNotReady
            BY <3>3 DEF WaitForOwner, WaitForCluster, AddFinalizer, ReleaseWithoutMachine,
                StartDeletion, ReleaseAfterMachine, MachineRemains, ListUnits,
                UnitsRequested, StartProvisioning, GetMachineNil, MachineNotReady,
                MachineStarted, AppsNotReady
        <3>4. CASE \/ \E a \in Apps : UnitFound(a) \/ UnitMissing(a)
                   \/ AppsReady \/ NodeMissing \/ JujuProvider \/ UpdateNode
                   \/ CloudProvider \/ AddressesRead \/ MachineVanished \/ PatchSpec
                   \/ PatchStatus
            BY <3>4 DEF UnitFound, UnitMissing, AppsReady, NodeMissing, JujuProvider,
                UpdateNode, CloudProvider, AddressesRead, MachineVanished, PatchSpec,
                PatchStatus
        <3> QED
            BY <2>1, <3>1, <3>2, <3>3, <3>4 DEF Worker
    <2>2. CASE Take \/ Restart
        BY <2>2 DEF Take, Forget, Begin, ReadFromCache, Restart
    <2>3. CASE Kubernetes
        BY <2>3 DEF Kubernetes, Observe, Resync, Delete, SetOwner, DataSecretNamed, Provide
    <2>4. CASE Juju
        BY <2>4 DEF Juju, MachineStarts, MachineStops, MachineLost, NodeRegisters,
            CloudSetsProviderID, UnitSettles, UnitFails, UnitResolved, UnitRemoved
    <2>5. CASE UNCHANGED vars
        BY <2>5 DEF vars
    <2> QED
        BY <2>1, <2>2, <2>3, <2>4, <2>5 DEF Next
<1>2. UNCHANGED budget => \A k \in FaultKinds : budget'[k] <= budget[k]
    BY DEF Inv, TypeOK, BudgetTyped
<1> QED
    BY <1>1, <1>2, SpendLess

\* A kind of fault that has not happened yet had not happened before either.
LEMMA SparedBefore ==
    ASSUME Inv, Within, [Next]_vars
    PROVE  /\ Within'
           /\ \A kinds \in SUBSET FaultKinds : Spared(kinds)' => Spared(kinds)
           /\ OnceAtMost("stale")' => OnceAtMost("stale")
<1>1. budget \in [FaultKinds -> Nat] /\ FaultBudget \in [FaultKinds -> Nat]
      /\ budget' \in [FaultKinds -> Nat]
    BY BudgetAssumption, InvNext DEF Inv, TypeOK, BudgetTyped
<1>2. \A k \in FaultKinds : budget'[k] <= budget[k] /\ budget[k] <= FaultBudget[k]
    BY BudgetStep DEF Within
<1>3. Within'
    BY <1>1, <1>2 DEF Within
<1>4. \A kinds \in SUBSET FaultKinds : Spared(kinds)' => Spared(kinds)
    BY <1>1, <1>2 DEF Spared
<1>5. OnceAtMost("stale")' => OnceAtMost("stale")
    BY <1>1, <1>2 DEF OnceAtMost, FaultKinds
<1> QED
    BY <1>3, <1>4, <1>5

\* The informer brings its copy up to date.
LEMMA CacheChange ==
    ASSUME Inv, [Next]_vars
    PROVE  \/ UNCHANGED cache
           \/ /\ UNCHANGED <<stored, creator, mstate, units, node>>
              /\ \A o \in Objects : cache'[o] = cache[o] \/ cache'[o] = stored[o]
<1>1. cache \in [Objects -> Object]
    BY DEF Inv, TypeOK, KubernetesTyped
<1>2. CASE \E o \in Objects : Observe(o)
    BY <1>1, <1>2 DEF Observe, juju
<1>3. CASE Restart
    BY <1>3 DEF Restart, juju
<1>4. CASE Kubernetes /\ ~\E o \in Objects : Observe(o)
    BY <1>4 DEF Kubernetes, Resync, Delete, SetOwner, DataSecretNamed, Provide, k8s
<1>5. CASE Take \/ Juju \/ UNCHANGED vars
    BY <1>5 DEF Take, Forget, Begin, Juju, MachineStarts, MachineStops, MachineLost,
        NodeRegisters, CloudSetsProviderID, UnitSettles, UnitFails, UnitResolved,
        UnitRemoved, k8s, vars
<1>6. CASE Worker
    BY <1>6 DEF Worker, WaitForOwner, WaitForCluster, ConnectToModel, CallFails,
       AddFinalizer, ReleaseWithoutMachine, StartDeletion, ReleaseAfterMachine,
       MachineRemains, ListUnits, UnitsRequested, StartProvisioning, GetMachineNil,
       MachineNotReady, MachineStarted, AppsNotReady, UnitFound, UnitMissing, AppsReady,
       NodeMissing, JujuProvider, UpdateNode, UpdateNodeFails, CloudProvider,
       AddressesRead, MachineVanished, PatchSpec, PatchSpecFails, PatchStatus,
       PatchStatusFails, AddMachine, AddUnit, DestroyUnit, k8s
<1> QED
    BY <1>2, <1>3, <1>4, <1>5, <1>6 DEF Next

\* The steps that change no object in the API server.
LEMMA StoredKept ==
    ASSUME [Next]_vars, ~PatchSpec, ~PatchStatus,
           \A o \in Objects : ~Delete(o) /\ ~SetOwner(o)
    PROVE  UNCHANGED stored
<1>1. CASE Worker
    BY <1>1 DEF Worker, WaitForOwner, WaitForCluster, ConnectToModel, CallFails,
       AddFinalizer, ReleaseWithoutMachine, StartDeletion, ReleaseAfterMachine,
       MachineRemains, ListUnits, UnitsRequested, StartProvisioning, GetMachineNil,
       MachineNotReady, MachineStarted, AppsNotReady, UnitFound, UnitMissing, AppsReady,
       NodeMissing, JujuProvider, UpdateNode, UpdateNodeFails, CloudProvider,
       AddressesRead, MachineVanished, PatchSpecFails, PatchStatusFails, AddMachine,
       AddUnit, DestroyUnit, k8s
<1>2. CASE Take \/ Restart \/ UNCHANGED vars
    BY <1>2 DEF Take, Forget, Begin, Restart, vars
<1>3. CASE Kubernetes
    BY <1>3 DEF Kubernetes, Observe, Resync, DataSecretNamed, Provide, k8s
<1>4. CASE Juju
    BY <1>4 DEF Juju, MachineStarts, MachineStops, MachineLost, NodeRegisters,
        CloudSetsProviderID, UnitSettles, UnitFails, UnitResolved, UnitRemoved, k8s
<1> QED
    BY <1>1, <1>2, <1>3, <1>4 DEF Next

\* What a step does to an object in the API server: the patch of the spec alone
\* changes what it says of its machine, the patch of the status alone makes it
\* ready, and only an object without the finalizer, or one that its own pass
\* releases, disappears.
Releases(o) == /\ PatchSpec /\ pc = "patch" /\ o = cur
               /\ before.finalizer /\ ~mem.finalizer /\ before.deleted
Readies(o) == /\ PatchStatus /\ pc = "patchStatus" /\ o = cur
              /\ mem.ready /\ ~before.ready /\ stored[o].present
StoredChange(o) ==
    /\ Older(stored[o], stored'[o])
    /\ \/ stored'[o].machineID = stored[o].machineID
       \/ ~stored'[o].present
       \/ /\ PatchSpec /\ pc = "patch" /\ o = cur
          /\ mem.machineID # before.machineID /\ stored'[o].machineID = mem.machineID
    /\ \/ stored'[o].providerID = stored[o].providerID
       \/ ~stored'[o].present
       \/ /\ PatchSpec /\ pc = "patch" /\ o = cur
          /\ mem.providerID # before.providerID /\ stored'[o].providerID = mem.providerID
    /\ stored'[o].ready => \/ stored[o].ready
                           \/ Readies(o) /\ stored'[o].providerID = stored[o].providerID
    /\ stored[o].present /\ ~stored'[o].present => ~stored[o].finalizer \/ Releases(o)

LEMMA StoredChanges ==
    ASSUME Inv, Inv', CopiesInv, [Next]_vars, NEW o \in Objects
    PROVE  StoredChange(o)
<1>1. /\ stored \in [Objects -> Object] /\ stored[o] \in Object /\ CopyInv
      /\ CopiesOf(o) /\ HasObject
    BY DEF Inv, TypeOK, KubernetesTyped, CopiesInv, CopyInv, Copies
<1>2. Older(stored[o], stored[o])
    BY <1>1, OlderPreorder
<1>3. CASE stored'[o] = stored[o]
    BY <1>1, <1>2, <1>3 DEF StoredChange
<1>4. CASE PatchSpec /\ o = cur
    <2>1. pc = "patch"
        BY <1>4 DEF PatchSpec
    <2> QED
        BY <1>1, <1>4, <2>1, PatchedSpec DEF StoredChange, Releases
<1>5. CASE PatchStatus /\ o = cur
    <2> DEFINE r == IF StatusChanged THEN mem.ready ELSE stored[o].ready
    <2>1. /\ stored'[o] = [stored[o] EXCEPT !.ready = r] /\ pc = "patchStatus"
          /\ StatusChanged => stored[o].present
        BY <1>1, <1>5 DEF PatchStatus
    <2>2. /\ stored'[o].present = stored[o].present
          /\ stored'[o].deleted = stored[o].deleted
          /\ stored'[o].finalizer = stored[o].finalizer
          /\ stored'[o].machineID = stored[o].machineID
          /\ stored'[o].providerID = stored[o].providerID
          /\ stored'[o].ready = r
        BY <1>1, <2>1 DEF Object
    <2>3. /\ mem.ready \in BOOLEAN /\ before.ready \in BOOLEAN
          /\ mem.ready # before.ready => mem.ready
        BY <2>1, <1>1, BeforeIsOlder, FieldsTyped DEF CopyInv, Edits
    <2>4. r => stored[o].ready \/ (mem.ready /\ ~before.ready /\ stored[o].present)
        BY <2>1, <2>3 DEF StatusChanged
    <2>5. Older(stored[o], stored'[o])
        BY <1>2, <2>2 DEF Older
    <2> QED
        BY <1>5, <2>1, <2>2, <2>4, <2>5 DEF StoredChange, Readies
<1>6. CASE Delete(o) \/ SetOwner(o)
    BY <1>1, <1>6, ChangedOutside DEF StoredChange
<1>7. (PatchSpec \/ PatchStatus) /\ o # cur => stored'[o] = stored[o]
    BY <1>1 DEF PatchSpec, PatchStatus
<1>8. (\E p \in Objects : p # o /\ (Delete(p) \/ SetOwner(p))) => stored'[o] = stored[o]
    BY <1>1 DEF Delete, SetOwner
<1> QED
    BY <1>3, <1>4, <1>5, <1>6, <1>7, <1>8, StoredKept

--------------------------------------------------------------------------------
(* Ready after the provider ID, and outdated machines.                     *)

\* As long as no patch is lost, ready objects have their provider ID.
LEMMA ReadyNext ==
    ASSUME Inv, Inv', CopiesInv, Within, ReadyInv, [Next]_vars
    PROVE  ReadyInv'
<1> SUFFICES ASSUME Spared({"patch"})'
             PROVE  /\ \A o \in Objects : stored'[o].ready => stored'[o].providerID # None
                    /\ pc' = "patchStatus" /\ mem'.providerID # None
                          /\ stored'[cur'].present => stored'[cur'].providerID # None
    BY DEF ReadyInv
<1>1. CopyInv /\ Copies /\ Edits /\ HasObject
    BY DEF CopiesInv, CopyInv, Inv
<1>2. /\ \A o \in Objects : stored[o].ready => stored[o].providerID # None
      /\ pc = "patchStatus" /\ mem.providerID # None /\ stored[cur].present =>
            stored[cur].providerID # None
    <2>1. {"patch"} \in SUBSET FaultKinds
        BY DEF FaultKinds
    <2> QED
        BY <2>1, SparedBefore DEF ReadyInv
<1>3. ASSUME NEW o \in Objects, stored'[o].ready
      PROVE  stored'[o].providerID # None
    <2>1. StoredChange(o) /\ Sound(stored'[o])
        <3>1. CopiesInv'
            BY CopiesNext
        <3> QED
            BY <3>1, StoredChanges DEF CopiesInv, CopyInv, Copies, CopiesOf
    <2>2. CASE stored[o].ready
        BY <1>2, <1>3, <2>1, <2>2 DEF StoredChange, Sound, Older
    <2>3. CASE Readies(o) /\ stored'[o].providerID = stored[o].providerID
        <3>1. /\ pc = "patchStatus" /\ o = cur /\ mem.ready # before.ready
              /\ stored[cur].present
            BY <2>3 DEF Readies
        <3>2. mem.providerID # None
            BY <1>1, <3>1 DEF Edits
        <3> QED
            BY <1>2, <2>3, <3>1, <3>2
    <2> QED
        BY <1>3, <2>1, <2>2, <2>3 DEF StoredChange
<1>4. ASSUME pc' = "patchStatus", mem'.providerID # None, stored'[cur'].present
      PROVE  stored'[cur'].providerID # None
    <2>1. /\ pc # "idle" /\ cur' = cur /\ cur \in Objects
          /\ pc = "patchStatus" \/ PatchSpec \/ PatchSpecFails
          /\ mem' = mem
        <3>1. \A o \in Objects : ~Begin(o)
            BY <1>4 DEF Begin
        <3>2. /\ pc # "idle" /\ cur' = cur
              /\ pc = "patchStatus" \/ PatchSpec \/ PatchSpecFails
              /\ mem' = mem \/ Editing
            BY <1>4, <3>1, PassChange
        <3>3. ~Editing
            BY <1>4 DEF Editing, AddFinalizer, ReleaseWithoutMachine, ReleaseAfterMachine,
                AddMachine, AppsReady, JujuProvider, UpdateNode, CloudProvider, Return,
                Goto, ReplyLost, SetProviderID, MarkReady
        <3> QED
            BY <1>1, <3>2, <3>3 DEF HasObject
    <2>2. StoredChange(cur) /\ Older(before, stored[cur]) /\ stored[cur] \in Object
        BY <1>1, <2>1, StoredChanges, BeforeIsOlder
    <2>3. stored[cur].present
        BY <1>4, <2>1, <2>2 DEF StoredChange, Older
    <2>4. CASE pc = "patchStatus"
        BY <1>2, <1>4, <2>1, <2>2, <2>3, <2>4 DEF StoredChange, Older
    <2>5. CASE PatchSpec
        BY <1>1, <1>4, <2>1, <2>2, <2>3, <2>5, PatchedSpec DEF Older
    <2>6. CASE PatchSpecFails
        <3>1. Spend("patch") /\ "patch" \in FaultKinds
            BY <2>3, <2>6 DEF PatchSpecFails, FaultKinds
        <3>2. budget' ["patch"] = budget["patch"] - 1 /\ budget["patch"] \in Nat
              /\ FaultBudget["patch"] \in Nat /\ budget["patch"] <= FaultBudget["patch"]
            BY <3>1, BudgetAssumption DEF Spend, Inv, TypeOK, BudgetTyped, Within
        <3>3. budget'["patch"] = FaultBudget["patch"]
            BY DEF Spared
        <3> QED
            BY <3>2, <3>3
    <2> QED
        BY <2>1, <2>4, <2>5, <2>6
<1> QED
    BY <1>3, <1>4

\* The machine that a pass, or the cache, knows of is the recorded one, as long as
\* passes start from the object as it is.
LEMMA StaleNext ==
    ASSUME Inv, Inv', CopiesInv, CopiesInv', Within, StaleInv, [Next]_vars
    PROVE  StaleInv'
<1>1. /\ CopyInv /\ Copies /\ Edits /\ Read /\ HasObject /\ Copies'
      /\ stored \in [Objects -> Object] /\ cache \in [Objects -> Object]
    BY DEF CopiesInv, CopyInv, Inv, TypeOK, KubernetesTyped
<1>2. /\ Spared({"stale"})' => Spared({"stale"})
      /\ OnceAtMost("stale")' => OnceAtMost("stale")
    BY SparedBefore DEF FaultKinds
<1>3. \A o \in Objects : StoredChange(o) /\ CopiesOf(o) /\ Sound(stored'[o])
    BY <1>1, StoredChanges DEF Copies, CopiesOf
<1>4. CASE pc' # "idle" /\ \E o \in Objects : Begin(o)
    <2>1. PICK o \in Objects : Begin(o)
        BY <1>4
    <2>2. /\ pc' = "prerequisites" /\ cur' = o /\ before' = cache[o]
          /\ UNCHANGED <<stored, cache>>
          /\ Spared({"stale"})' => cache[o] = stored[o]
          /\ OnceAtMost("stale")' => cache[o] = stored[o] \/ Spared({"stale"})
        BY <2>1, Beginning
    <2>3. cache[o].machineID # None /\ stored[o].present /\ Spared({"stale"}) =>
              stored[o].machineID = cache[o].machineID
        BY DEF StaleInv
    <2>4. OnceAtMost("stale")' /\ before'.machineID # None /\ stored'[cur'].present =>
              stored'[cur'].machineID = before'.machineID
        BY <2>2, <2>3
    <2>5. Spared({"stale"})' => stored'[cur'].machineID = before'.machineID
        BY <2>2
    <2>6. Spared({"stale"})' => \A p \in Objects :
              cache'[p].machineID # None /\ stored'[p].present =>
                  stored'[p].machineID = cache'[p].machineID
        BY <1>2, <2>2 DEF StaleInv
    <2>7. \A p \in Objects : stored'[p].providerID # None => cache'[p].machineID # None
        BY <2>2 DEF StaleInv
    <2>8. before'.machineID = None => stored'[cur'].providerID = None
        BY <2>2 DEF StaleInv
    <2> QED
        BY <2>4, <2>5, <2>6, <2>7, <2>8 DEF StaleInv
<1>5. CASE pc' = "idle" \/ ~\E o \in Objects : Begin(o)
    <2>1. pc' # "idle" =>
              /\ pc # "idle" /\ cur' = cur /\ before' = before /\ cur \in Objects
              /\ pc = "patchStatus" => pc' = "patchStatus"
        BY <1>1, <1>5, PassChange DEF HasObject
    <2>2. ASSUME OnceAtMost("stale")', pc' # "idle", before'.machineID # None,
                 stored'[cur'].present
          PROVE  stored'[cur'].machineID = before'.machineID
        <3>1. StoredChange(cur) /\ cur \in Objects /\ cur' = cur /\ before' = before
            BY <1>3, <2>1, <2>2
        <3>2. stored[cur].machineID = before.machineID
            BY <1>2, <2>1, <2>2, <3>1 DEF StoredChange, Older, StaleInv
        <3>3. mem.machineID # before.machineID => before.machineID = None
            BY <1>1, <2>1, <2>2 DEF Edits
        <3> QED
            BY <2>2, <3>1, <3>2, <3>3 DEF StoredChange
    <2>3. ASSUME Spared({"stale"})', NEW o \in Objects,
                 cache'[o].machineID # None, stored'[o].present
          PROVE  stored'[o].machineID = cache'[o].machineID
        <3>1. CASE UNCHANGED cache
            <4>1. stored[o].present /\ stored[o].machineID = cache[o].machineID
                BY <1>2, <1>3, <2>3, <3>1 DEF StoredChange, Older, StaleInv
            <4>2. CASE pc = "patch" /\ o = cur /\ mem.machineID # before.machineID
                <5>1. before.machineID = None
                    BY <1>1, <4>2 DEF Edits
                <5>2. stored[cur].machineID = before.machineID
                    BY <1>2, <2>3, <4>1, <4>2 DEF StaleInv
                <5> QED
                    BY <2>3, <3>1, <4>1, <4>2, <5>1, <5>2
            <4> QED
                BY <1>3, <2>3, <3>1, <4>1, <4>2 DEF StoredChange
        <3>2. CASE stored' = stored /\ (cache'[o] = cache[o] \/ cache'[o] = stored[o])
            BY <1>2, <2>3, <3>2 DEF StaleInv
        <3> QED
            BY <3>1, <3>2, CacheChange
    <2>4. ASSUME Spared({"stale"})', pc' \notin {"idle", "patchStatus"}, stored'[cur'].present
          PROVE  stored'[cur'].machineID = before'.machineID
        <3>1. /\ StoredChange(cur) /\ cur \in Objects /\ cur' = cur /\ before' = before
              /\ pc \notin {"idle", "patchStatus"}
            BY <1>3, <2>1, <2>4
        <3>2. stored[cur].machineID = before.machineID
            BY <1>2, <2>4, <3>1 DEF StoredChange, Older, StaleInv
        <3>3. ~PatchSpec
            BY <2>4 DEF PatchSpec, Goto
        <3> QED
            BY <2>4, <3>1, <3>2, <3>3 DEF StoredChange
    <2>5. ASSUME NEW o \in Objects, stored'[o].providerID # None
          PROVE  cache'[o].machineID # None
        <3>1. stored'[o].present /\ stored[o].present
            BY <1>3, <2>5 DEF Sound, StoredChange, Older
        <3>2. CASE stored[o].providerID # None
            <4>1. cache[o].machineID # None /\ stored[o].machineID # None
                BY <1>3, <3>2 DEF StaleInv, CopiesOf, Sound
            <4> QED
                BY <4>1, CacheChange
        <3>3. CASE pc = "patch" /\ o = cur /\ mem.providerID # before.providerID
            <4>1. before.machineID # None /\ Older(before, cache[cur])
                BY <1>1, <3>3 DEF Edits, Read
            <4>2. cache[o].machineID # None
                BY <1>3, <3>1, <3>3, <4>1 DEF Older, CopiesOf
            <4>3. stored[o].machineID # None
                BY <1>3, <3>1, <4>2 DEF Older, CopiesOf
            <4> QED
                BY <4>2, <4>3, CacheChange
        <3> QED
            BY <1>3, <2>5, <3>1, <3>2, <3>3 DEF StoredChange
    <2>6. ASSUME pc' # "idle", before'.machineID = None
          PROVE  stored'[cur'].providerID = None
        <3>1. StoredChange(cur) /\ Sound(stored'[cur]) /\ cur \in Objects /\ cur' = cur
              /\ before' = before /\ pc # "idle"
            BY <1>3, <2>1, <2>6
        <3>2. stored[cur].providerID = None
            BY <2>6, <3>1 DEF StaleInv
        <3>3. mem.providerID = before.providerID
            BY <1>1, <2>6, <3>1 DEF Edits
        <3> QED
            BY <3>1, <3>2, <3>3 DEF StoredChange, Sound
    <2> QED
        BY <2>2, <2>3, <2>4, <2>5, <2>6 DEF StaleInv
<1> QED
    BY <1>4, <1>5

--------------------------------------------------------------------------------
(* Machines and their units.                                               *)

\* The steps that change neither machines nor units.
LEMMA JujuKept ==
    ASSUME [Next]_vars, ~AddMachine, ~AddUnit, ~Juju,
           ~\E a \in Apps, force \in BOOLEAN : DestroyUnit(a, force)
    PROVE  UNCHANGED <<mstate, creator, units>>
<1>1. Take \/ Restart \/ Kubernetes => UNCHANGED juju
    BY DEF Take, Forget, Begin, Restart, Kubernetes, Observe, Resync, Delete, SetOwner,
           DataSecretNamed, Provide
<1>2. UNCHANGED vars => UNCHANGED juju
    BY DEF vars, juju
<1> QED
    BY <1>1, <1>2, LeavesJuju DEF Next, juju

\* What Juju does by itself to a machine and its units, unit by unit.
UnitChange(i, a) ==
    \/ units'[i][a] = units[i][a]
    \/ units[i][a] = "allocating" /\ units'[i][a] = "active"
    \/ /\ units[i][a] \in {"allocating", "active"} /\ units'[i][a] = "error"
       /\ Spend("unitError")
    \/ units[i][a] = "dying" /\ units'[i][a] = "dyingError"
    \/ units[i][a] = "error" /\ units'[i][a] = "active"
    \/ units[i][a] = "dyingError" /\ units'[i][a] = "dying"
    \/ units[i][a] \in {"dying", "forced"} /\ units'[i][a] = "none"
    \/ MachineLost(i) /\ units'[i][a] = "none"
MachineChange(i) ==
    \/ mstate'[i] = mstate[i]
    \/ mstate[i] = "pending" /\ mstate'[i] = "started"
    \/ mstate[i] = "stopping" /\ mstate'[i] = "gone"
    \/ mstate'[i] = "gone" /\ MachineLost(i)
    \/ /\ mstate'[i] = "stopping" /\ \A a \in Apps : units'[i][a] = "none"
       /\ \E a \in Apps : units[i][a] \in {"dying", "forced"}

LEMMA JujuChange ==
    ASSUME Inv, Juju
    PROVE  /\ UNCHANGED <<stored, cache, pc, cur, before, mem, requeue, pass, creator>>
           /\ \A i \in MachineIDs : MachineChange(i) /\ \A a \in Apps : UnitChange(i, a)
<1>1. /\ mstate \in [MachineIDs -> Machines]
      /\ units \in [MachineIDs -> [Apps -> UnitStates]]
    BY DEF Inv, TypeOK, JujuTyped
<1>2. PICK i \in MachineIDs :
          \/ MachineStarts(i) \/ MachineStops(i) \/ MachineLost(i)
          \/ NodeRegisters(i) \/ CloudSetsProviderID(i)
          \/ \E a \in Apps : \/ UnitSettles(i, a) \/ UnitFails(i, a)
                             \/ UnitResolved(i, a) \/ UnitRemoved(i, a)
    BY DEF Juju
<1>3. UNCHANGED <<stored, cache, pc, cur, before, mem, requeue, pass, creator>>
    BY <1>2 DEF MachineStarts, MachineStops, MachineLost, NodeRegisters, juju, k8s, local,
           CloudSetsProviderID, UnitSettles, UnitFails, UnitResolved, UnitRemoved
<1>4. CASE MachineStarts(i) \/ MachineStops(i)
    BY <1>1, <1>3, <1>4 DEF MachineStarts, MachineStops, MachineChange, UnitChange
<1>5. CASE MachineLost(i)
    <2>1. /\ mstate' = [mstate EXCEPT ![i] = "gone"]
          /\ units' = [units EXCEPT ![i] = [a \in Apps |-> "none"]]
        BY <1>5 DEF MachineLost
    <2> QED
        BY <1>1, <1>3, <1>5, <2>1 DEF MachineChange, UnitChange
<1>6. CASE NodeRegisters(i) \/ CloudSetsProviderID(i)
    BY <1>3, <1>6 DEF NodeRegisters, CloudSetsProviderID, juju, MachineChange, UnitChange
<1>7. ASSUME NEW a \in Apps, UnitSettles(i, a) \/ UnitResolved(i, a)
      PROVE  \A j \in MachineIDs : MachineChange(j) /\ \A b \in Apps : UnitChange(j, b)
    BY <1>1, <1>3, <1>7 DEF UnitSettles, UnitResolved, SetUnit, MachineChange, UnitChange
<1>8. ASSUME NEW a \in Apps, UnitFails(i, a)
      PROVE  \A j \in MachineIDs : MachineChange(j) /\ \A b \in Apps : UnitChange(j, b)
    BY <1>1, <1>3, <1>8 DEF UnitFails, SetUnit, MachineChange, UnitChange
<1>9. ASSUME NEW a \in Apps, UnitRemoved(i, a)
      PROVE  \A j \in MachineIDs : MachineChange(j) /\ \A b \in Apps : UnitChange(j, b)
    <2>1. \A j \in MachineIDs, b \in Apps : UnitChange(j, b)
        BY <1>1, <1>9 DEF UnitRemoved, SetUnit, UnitChange
    <2>2. \A j \in MachineIDs : MachineChange(j)
        BY <1>1, <1>9 DEF UnitRemoved, SetUnit, MachineChange
    <2> QED
        BY <2>1, <2>2
<1> QED
    BY <1>2, <1>3, <1>4, <1>5, <1>6, <1>7, <1>8, <1>9

\* The steps of the worker that change machines or units.
LEMMA WorkerChanges ==
    ASSUME Inv
    PROVE  /\ AddMachine => /\ pc' = "patch" /\ UNCHANGED units
                            /\ \E i \in MachineIDs :
                                  /\ mstate[i] = "absent" /\ mstate'[i] = "pending"
                                  /\ creator'[i] = cur
                                  /\ mem'.machineID = i \/ (mem' = mem /\ Spend("reply"))
                                  /\ \A j \in MachineIDs \ {i} :
                                        mstate'[j] = mstate[j] /\ creator'[j] = creator[j]
           /\ AddUnit => /\ UNCHANGED <<mstate, creator, mem>> /\ ID \in MachineIDs
                         /\ mstate[ID] \in {"pending", "started"}
                         /\ \A i \in MachineIDs, a \in Apps :
                               units'[i][a] = IF i = ID /\ a = pass.app THEN "allocating"
                                                                       ELSE units[i][a]
           /\ \A a \in Apps, f \in BOOLEAN : DestroyUnit(a, f) =>
                 /\ UNCHANGED <<mstate, creator, mem>> /\ ID \in MachineIDs
                 /\ InModel(ID) /\ pc = "destroyUnits" /\ <<a, f>> \in pass.victims
                 /\ units'[ID][a] \in {"dying", "dyingError", "forced"}
                 /\ \A i \in MachineIDs, b \in Apps :
                       i # ID \/ b # a => units'[i][b] = units[i][b]
<1>1. /\ mstate \in [MachineIDs -> Machines] /\ creator \in [MachineIDs -> Objects \cup {None}]
      /\ units \in [MachineIDs -> [Apps -> UnitStates]] /\ mem \in Object
      /\ pc \in HoldsMachine => ID \in MachineIDs
      /\ pc = "addUnit" => pass.app \in Apps
    BY DEF Inv, TypeOK, JujuTyped, WorkerTyped, HasMachine, AddsMissing
<1>2. ASSUME AddMachine
      PROVE  /\ pc' = "patch" /\ UNCHANGED units
             /\ \E i \in MachineIDs :
                   /\ mstate[i] = "absent" /\ mstate'[i] = "pending"
                   /\ creator'[i] = cur
                   /\ mem'.machineID = i \/ (mem' = mem /\ Spend("reply"))
                   /\ \A j \in MachineIDs \ {i} :
                         mstate'[j] = mstate[j] /\ creator'[j] = creator[j]
    <2>1. PICK i \in MachineIDs :
              /\ mstate[i] = "absent" /\ mstate' = [mstate EXCEPT ![i] = "pending"]
              /\ creator' = [creator EXCEPT ![i] = cur]
              /\ \/ Return([mem EXCEPT !.machineID = i], TRUE) /\ UNCHANGED budget
                 \/ ReplyLost
        BY <1>2 DEF AddMachine
    <2>2. mem'.machineID = i \/ (mem' = mem /\ Spend("reply"))
        BY <1>1, <2>1 DEF ReplyLost, Return, Object
    <2>3. pc' = "patch"
        BY <2>1 DEF ReplyLost, Return
    <2> QED
        BY <1>1, <1>2, <2>1, <2>2, <2>3 DEF AddMachine
<1>3. ASSUME AddUnit
      PROVE  /\ UNCHANGED <<mstate, creator, mem>> /\ ID \in MachineIDs
             /\ mstate[ID] \in {"pending", "started"}
             /\ \A i \in MachineIDs, a \in Apps :
                   units'[i][a] = IF i = ID /\ a = pass.app THEN "allocating"
                                                           ELSE units[i][a]
    BY <1>1, <1>3 DEF AddUnit, Call, HoldsMachine, ReplyLost, Return
<1>4. ASSUME NEW a \in Apps, NEW f \in BOOLEAN, DestroyUnit(a, f)
      PROVE  /\ UNCHANGED <<mstate, creator, mem>> /\ ID \in MachineIDs
             /\ InModel(ID) /\ pc = "destroyUnits" /\ <<a, f>> \in pass.victims
             /\ units'[ID][a] \in {"dying", "dyingError", "forced"}
             /\ \A i \in MachineIDs, b \in Apps :
                   i # ID \/ b # a => units'[i][b] = units[i][b]
    BY <1>1, <1>4 DEF DestroyUnit, Call, HoldsMachine, ReplyLost, Return
<1> QED
    BY <1>2, <1>3, <1>4

\* A machine stops only when it has no units left, and gets no new ones.
LEMMA PlacedNext ==
    ASSUME Inv, Inv', CopiesInv, PlacedInv, [Next]_vars
    PROVE  PlacedInv'
<1>1. /\ mstate \in [MachineIDs -> Machines]
      /\ units \in [MachineIDs -> [Apps -> UnitStates]]
      /\ pass \in Pass /\ HasMachine /\ Unplaced
    BY DEF Inv, TypeOK, JujuTyped, WorkerTyped, CopiesInv
<1>2. ASSUME NEW i \in MachineIDs, NEW a \in Apps, mstate'[i] \in {"stopping", "gone"}
      PROVE  units'[i][a] = "none"
    <2>1. CASE AddMachine
        BY <1>2, <2>1, WorkerChanges DEF PlacedInv
    <2>2. CASE AddUnit
        BY <1>2, <2>2, WorkerChanges DEF PlacedInv
    <2>3. ASSUME NEW b \in Apps, NEW f \in BOOLEAN, DestroyUnit(b, f)
          PROVE  units'[i][a] = "none"
        <3>1. /\ mstate'[i] = mstate[i] /\ InModel(ID) /\ pc = "destroyUnits"
              /\ <<b, f>> \in pass.victims /\ ID \in MachineIDs
              /\ i # ID \/ a # b => units'[i][a] = units[i][a]
            BY <2>3, WorkerChanges
        <3>2. units[ID][b] \in {"allocating", "active", "error"}
            BY <3>1 DEF PlacedInv
        <3>3. i # ID
            BY <1>2, <3>1, <3>2 DEF PlacedInv
        <3> QED
            BY <1>2, <3>1, <3>3 DEF PlacedInv
    <2>4. CASE Juju
        <3>1. MachineChange(i) /\ UnitChange(i, a)
            BY <2>4, JujuChange
        <3>2. CASE mstate[i] \in {"stopping", "gone"}
            BY <3>1, <3>2 DEF PlacedInv, UnitChange
        <3>3. CASE MachineLost(i)
            BY <1>1, <3>3 DEF MachineLost
        <3> QED
            BY <1>2, <3>1, <3>2, <3>3 DEF MachineChange
    <2>5. CASE UNCHANGED <<mstate, units>>
        BY <1>2, <2>5 DEF PlacedInv
    <2> QED
        BY <2>1, <2>2, <2>3, <2>4, <2>5, JujuKept
<1>3. ASSUME pc' = "destroyUnits", NEW a \in Apps, NEW f \in BOOLEAN,
             <<a, f>> \in pass'.victims
      PROVE  /\ InModel(ID)' => units'[ID'][a] \in {"allocating", "active", "error"}
             /\ \A g \in BOOLEAN : <<a, g>> \in pass'.victims => f = g
    <2>1. CASE ListUnits
        <3>1. /\ UNCHANGED <<mem, units>> /\ ID' = ID /\ ID \in MachineIDs
              /\ pass'.victims = Victims(ID)
            BY <1>1, <2>1 DEF ListUnits, Call, juju, ID, HasMachine, HoldsMachine, Pass
        <3>2. \A g \in BOOLEAN : <<a, g>> \in Victims(ID) =>
                  /\ units[ID][a] \in {"allocating", "active", "error"}
                  /\ g = (units[ID][a] = "error")
            BY Zenon DEF Victims
        <3>3. f = (units[ID][a] = "error")
              /\ \A g \in BOOLEAN : <<a, g>> \in Victims(ID) => g = (units[ID][a] = "error")
            BY <1>3, <3>1, <3>2
        <3>4. units[ID][a] \in {"allocating", "active", "error"}
            BY <1>3, <3>1, <3>2
        <3> QED
            BY <3>1, <3>3, <3>4
    <2>2. ASSUME NEW b \in Apps, NEW h \in BOOLEAN, DestroyUnit(b, h)
          PROVE  /\ InModel(ID)' => units'[ID'][a] \in {"allocating", "active", "error"}
                 /\ \A g \in BOOLEAN : <<a, g>> \in pass'.victims => f = g
        <3>1. /\ mstate' = mstate /\ InModel(ID) /\ pc = "destroyUnits" /\ ID' = ID
              /\ <<b, h>> \in pass.victims /\ ID \in MachineIDs
              /\ a # b => units'[ID][a] = units[ID][a]
            BY <2>2, WorkerChanges DEF ID
        <3>2. pass' = [pass EXCEPT !.victims = @ \ {<<b, h>>}]
            BY <1>3, <2>2 DEF DestroyUnit, ReplyLost, Return
        <3>3. pass'.victims = pass.victims \ {<<b, h>>}
            BY <1>1, <3>2 DEF Pass
        <3>4. <<a, f>> \in pass.victims /\ <<a, f>> # <<b, h>>
            BY <1>3, <3>3
        <3>5. a # b
            BY <3>1, <3>4 DEF PlacedInv
        <3>6. \A g \in BOOLEAN : <<a, g>> \in pass.victims => f = g
            BY <3>1, <3>4 DEF PlacedInv
        <3>7. units[ID][a] \in {"allocating", "active", "error"}
            BY <3>1, <3>4 DEF PlacedInv
        <3> QED
            BY <3>1, <3>3, <3>5, <3>6, <3>7
    <2>3. CASE Juju
        <3>1. /\ UNCHANGED <<pc, mem, pass>> /\ ID' = ID /\ pc = "destroyUnits"
              /\ ID \in MachineIDs
              /\ MachineChange(ID) /\ UnitChange(ID, a)
            BY <1>1, <1>3, <2>3, JujuChange DEF ID, HasMachine, HoldsMachine
        <3>2. \A g \in BOOLEAN : <<a, g>> \in pass'.victims => f = g
            BY <1>3, <3>1 DEF PlacedInv
        <3>3. InModel(ID) => units[ID][a] \in {"allocating", "active", "error"}
            BY <1>3, <3>1 DEF PlacedInv
        <3>4. InModel(ID)' => InModel(ID) /\ ~MachineLost(ID)
            <4>1. MachineLost(ID) => ~InModel(ID)'
                BY <1>1, <3>1 DEF MachineLost, InModel
            <4>2. \A b \in Apps : units[ID][b] \in {"dying", "forced"} =>
                      mstate[ID] \notin {"absent", "stopping", "gone"}
                BY <3>1 DEF PlacedInv, Unplaced, CopiesInv
            <4>3. mstate[ID] \in Machines
                BY <1>1, <3>1
            <4> QED
                BY <3>1, <4>1, <4>2, <4>3 DEF MachineChange, InModel, Machines
        <3> QED
            BY <3>1, <3>2, <3>3, <3>4 DEF UnitChange
    <2>4. CASE /\ UNCHANGED <<pc, mem, pass>> /\ UNCHANGED <<mstate, units>>
        BY <1>3, <2>4 DEF PlacedInv, ID, InModel
    <2>5. CASE Worker
        <3>1. ListUnits \/ \E b \in Apps, h \in BOOLEAN : DestroyUnit(b, h)
            BY <1>3, <2>5 DEF Worker, WaitForOwner, WaitForCluster, ConnectToModel,
                CallFails, AddFinalizer, ReleaseWithoutMachine, StartDeletion,
                ReleaseAfterMachine, MachineRemains, UnitsRequested, StartProvisioning,
                GetMachineNil, MachineNotReady, MachineStarted, AppsNotReady, UnitFound,
                UnitMissing, AppsReady, NodeMissing, JujuProvider, UpdateNode,
                UpdateNodeFails, CloudProvider, AddressesRead, MachineVanished, PatchSpec,
                PatchSpecFails, PatchStatus, PatchStatusFails, AddMachine, AddUnit,
                Return, Goto, EndPass, ReplyLost, SetProviderID, MarkReady, Call
        <3> QED
            BY <2>1, <2>2, <3>1
    <2>6. Take \/ Restart => UNCHANGED <<pc, mem, pass, mstate, units>>
        BY <1>3 DEF Take, Forget, Begin, Restart, local, juju
    <2>7. Kubernetes \/ UNCHANGED vars => UNCHANGED <<pc, mem, pass, mstate, units>>
        BY DEF Kubernetes, Observe, Resync, Delete, SetOwner, DataSecretNamed, Provide,
            vars, local, juju
    <2> QED
        BY <2>3, <2>4, <2>5, <2>6, <2>7 DEF Next
<1> QED
    BY <1>2, <1>3 DEF PlacedInv

\* A machine that has gone stays so.
LEMMA GoneStays ==
    ASSUME Inv, CopiesInv, PlacedInv, [Next]_vars, NEW i \in MachineIDs, mstate[i] = "gone"
    PROVE  mstate'[i] = "gone"
<1>1. \A a \in Apps : units[i][a] = "none"
    BY DEF PlacedInv
<1>2. CASE Juju
    BY <1>1, <1>2, JujuChange DEF MachineChange
<1>3. AddMachine => mstate'[i] = "gone"
    BY WorkerChanges
<1>4. AddUnit \/ (\E a \in Apps, f \in BOOLEAN : DestroyUnit(a, f)) => UNCHANGED mstate
    BY WorkerChanges
<1> QED
    BY <1>2, <1>3, <1>4, JujuKept

\* The finalizer is given up by a pass that finds the machine gone.
LEMMA ReleaseNext ==
    ASSUME Inv, Inv', CopiesInv, PlacedInv, ReleaseInv, [Next]_vars
    PROVE  ReleaseInv'
<1> SUFFICES ASSUME pc' # "idle", before'.finalizer, ~mem'.finalizer,
                    before'.machineID # None
             PROVE  mstate'[before'.machineID] = "gone"
    BY DEF ReleaseInv
<1>1. ~\E o \in Objects : Begin(o)
    BY DEF Begin
<1>2. pc # "idle" /\ UNCHANGED <<cur, before>> /\ (mem' = mem \/ Editing)
    BY <1>1, PassChange
<1>3. /\ before \in Object /\ mem \in Object /\ Position /\ Edits
      /\ before.machineID \in MachineIDs
    BY <1>2, BeforeIsOlder, FieldsTyped DEF CopiesInv, CopyInv
<1>4. CASE mem' = mem
    BY <1>2, <1>3, <1>4, GoneStays DEF ReleaseInv
<1>5. CASE AddFinalizer \/ ReleaseWithoutMachine
    <2>1. mem = before
        BY <1>3, <1>5 DEF AddFinalizer, ReleaseWithoutMachine, Position, Unedited
    <2>2. ~AddFinalizer
        BY <1>2, <1>5 DEF AddFinalizer
    <2> QED
        BY <1>2, <1>5, <2>1, <2>2 DEF ReleaseWithoutMachine, ID
<1>6. CASE ReleaseAfterMachine
    <2>1. mem = before /\ ~InModel(before.machineID) /\ UNCHANGED mstate
        BY <1>3, <1>6 DEF ReleaseAfterMachine, Call, MayRelease, Position, Unedited, ID, juju
    <2>2. mstate[before.machineID] \in Machines
        BY <1>3 DEF Inv, TypeOK, JujuTyped
    <2>3. creator[before.machineID] = cur /\ cur # None
        BY <1>2, BeforeIsOlder, NoneIsNew DEF CopiesInv, CopyInv, Read, OwnMachine
    <2>4. mstate[before.machineID] # "absent"
        BY <1>3, <2>3 DEF CopiesInv, CopyInv, Issued
    <2> QED
        BY <1>2, <2>1, <2>2, <2>4 DEF InModel, Machines
<1>7. CASE AddMachine \/ AppsReady \/ JujuProvider \/ UpdateNode \/ CloudProvider
    <2>1. mem'.finalizer = mem.finalizer
        BY <1>3, <1>7 DEF AddMachine, ReplyLost, Return, AppsReady, JujuProvider, UpdateNode,
            CloudProvider, SetProviderID, MarkReady, Goto, Object
    <2>2. pc \in Provisioning
        BY <1>7 DEF AddMachine, AppsReady, JujuProvider, UpdateNode, CloudProvider,
            NodeFound, Call, Provisioning
    <2>3. before.finalizer /\ ~before.deleted
        BY <1>3, <2>2 DEF Position
    <2>4. mem.finalizer
        BY <1>2, <1>3, <2>3, FieldsTyped DEF Edits
    <2> QED
        BY <2>1, <2>4
<1> QED
    BY <1>2, <1>4, <1>5, <1>6, <1>7 DEF Editing

\* An object with a machine leaves the API server only after the machine has left
\* the model, as long as passes start from the object as it is.
LEMMA ReleasesGuarded ==
    ASSUME Inv, Inv', CopiesInv, StaleInv, ReleaseInv, [Next]_vars, Spared({"stale"}),
           NEW o \in Objects, stored[o].present, stored[o].machineID # None,
           ~stored'[o].present
    PROVE  mstate[stored[o].machineID] = "gone"
<1>1. StoredChange(o) /\ Sound(stored[o])
    BY StoredChanges DEF CopiesInv, CopyInv, Copies, CopiesOf
<1>2. pc = "patch" /\ o = cur /\ before.finalizer /\ ~mem.finalizer
    BY <1>1 DEF StoredChange, Sound, Releases
<1>3. stored[o].machineID = before.machineID
    BY <1>2 DEF StaleInv
<1> QED
    BY <1>2, <1>3 DEF ReleaseInv

--------------------------------------------------------------------------------
(* Every machine is recorded.                                              *)

\* A fault that has happened has happened.
LEMMA SpentIsSpent ==
    ASSUME Inv, Within, NEW kind \in FaultKinds, Spend(kind), NEW kinds, kind \in kinds
    PROVE  ~Spared(kinds)'
<1>1. /\ budget[kind] \in Nat /\ FaultBudget[kind] \in Nat
      /\ budget'[kind] = budget[kind] - 1 /\ budget[kind] <= FaultBudget[kind]
    BY BudgetAssumption DEF Inv, TypeOK, BudgetTyped, Spend, Within
<1> QED
    BY <1>1 DEF Spared

\* A machine keeps its creator, and gets it when the worker asks for it.
LEMMA CreatorStays ==
    ASSUME Inv, CopiesInv, [Next]_vars, NEW i \in MachineIDs
    PROVE  \/ creator'[i] = creator[i]
           \/ /\ AddMachine /\ creator[i] = None /\ creator'[i] = cur
              /\ mem'.machineID = i \/ (mem' = mem /\ Spend("reply"))
              /\ mstate[i] = "absent" /\ mstate'[i] = "pending"
<1>1. CASE AddMachine
    <2>1. PICK j \in MachineIDs :
              /\ mstate[j] = "absent" /\ mstate'[j] = "pending" /\ creator'[j] = cur
              /\ mem'.machineID = j \/ (mem' = mem /\ Spend("reply"))
              /\ \A k \in MachineIDs \ {j} : creator'[k] = creator[k]
        BY <1>1, WorkerChanges
    <2> QED
        BY <1>1, <2>1 DEF CopiesInv, CopyInv, Issued
<1>2. AddUnit \/ (\E a \in Apps, f \in BOOLEAN : DestroyUnit(a, f)) => UNCHANGED creator
    BY WorkerChanges
<1> QED
    BY <1>1, <1>2, JujuKept, JujuChange

\* The number that Juju gave a machine gets into the API server, and stays there.
LEMMA RecordNext ==
    ASSUME Inv, Inv', CopiesInv, Within, StaleInv, PlacedInv, ReleaseInv, RecordInv,
           [Next]_vars
    PROVE  RecordInv'
<1> DEFINE Kinds == {"reply", "patch", "crash", "stale"}
<1> SUFFICES ASSUME Spared(Kinds)', NEW i \in MachineIDs, creator'[i] # None
             PROVE  \/ ~stored'[creator'[i]].present /\ ~InModel(i)'
                    \/ stored'[creator'[i]].present /\ stored'[creator'[i]].machineID = i
                    \/ /\ stored'[creator'[i]].present /\ stored'[creator'[i]].finalizer
                       /\ cur' = creator'[i] /\ pc' = "patch" /\ mem'.machineID = i
                       /\ before'.machineID = None
    BY DEF RecordInv
<1>1. Spared(Kinds) /\ Spared({"stale"})
    <2>1. Kinds \in SUBSET FaultKinds
        BY DEF FaultKinds
    <2>2. Spared(Kinds)
        BY <2>1, SparedBefore
    <2> QED
        BY <2>2 DEF Spared
<1>2. ~Spend("reply") /\ ~Spend("patch") /\ ~Spend("crash")
    BY SpentIsSpent DEF FaultKinds
<1>3. /\ CopyInv /\ Edits /\ Position /\ Issued /\ HasObject
      /\ mstate \in [MachineIDs -> Machines] /\ creator \in [MachineIDs -> Objects \cup {None}]
      /\ creator' \in [MachineIDs -> Objects \cup {None}]
    BY DEF CopiesInv, CopyInv, Inv, TypeOK, JujuTyped
<1>4. CASE creator'[i] # creator[i]
    <2>1. AddMachine /\ creator'[i] = cur /\ mem'.machineID = i
        BY <1>2, <1>4, CreatorStays
    <2>2. pc' = "patch" /\ UNCHANGED <<stored, cur, before>> /\ pc = "addMachine"
        BY <2>1 DEF AddMachine, Call, k8s, Return, ReplyLost
    <2>3. before.machineID = None /\ stored[cur].present /\ stored[cur].finalizer
        BY <1>3, <2>1, <2>2, Acquiring DEF Position
    <2> QED
        BY <2>1, <2>2, <2>3
<1>5. CASE creator'[i] = creator[i]
    <2> DEFINE o == creator[i]
    <2>1. o \in Objects /\ mstate[i] # "absent"
        BY <1>3, <1>5 DEF Issued
    <2>2. StoredChange(o)
        BY <2>1, StoredChanges
    <2>3. \/ ~stored[o].present /\ ~InModel(i)
          \/ stored[o].present /\ stored[o].machineID = i
          \/ /\ stored[o].present /\ stored[o].finalizer
             /\ cur = o /\ pc = "patch" /\ mem.machineID = i /\ before.machineID = None
        BY <1>1, <1>5 DEF RecordInv
    <2>4. CASE ~stored[o].present /\ ~InModel(i)
        <3>1. mstate[i] = "gone"
            BY <1>3, <2>1, <2>4 DEF InModel, Machines
        <3>2. mstate'[i] = "gone"
            BY <3>1, GoneStays
        <3> QED
            BY <1>5, <2>2, <2>4, <3>2 DEF StoredChange, Older, InModel
    <2>5. CASE stored[o].present /\ stored[o].machineID = i
        <3>1. i # None
            BY NoneIsNew
        <3>2. CASE ~stored'[o].present
            <4>1. mstate[i] = "gone"
                BY <1>1, <2>1, <2>5, <3>1, <3>2, ReleasesGuarded
            <4> QED
                BY <1>5, <3>2, <4>1, GoneStays DEF InModel
        <3>3. CASE stored'[o].present /\ pc = "patch" /\ o = cur
                   /\ mem.machineID # before.machineID
            <4>1. before.machineID = None
                BY <1>3, <3>3 DEF Edits
            <4>2. stored[cur].machineID = before.machineID
                BY <1>1, <2>5, <3>3 DEF StaleInv
            <4> QED
                BY <2>5, <3>1, <3>3, <4>1, <4>2
        <3> QED
            BY <1>5, <2>2, <2>5, <3>2, <3>3 DEF StoredChange
    <2>6. CASE /\ stored[o].present /\ stored[o].finalizer
               /\ cur = o /\ pc = "patch" /\ mem.machineID = i /\ before.machineID = None
        <3>1. i # None /\ mem.finalizer
            BY <1>3, <2>6, NoneIsNew DEF Edits
        <3>2. stored'[o].present /\ stored'[o].finalizer
            BY <2>2, <2>6, <3>1 DEF StoredChange, Releases, Older
        <3>3. CASE PatchSpec
            BY <1>3, <1>5, <2>6, <3>1, <3>2, <3>3, PatchedSpec
        <3>4. ~PatchSpecFails
            BY <1>2, <2>6 DEF PatchSpecFails
        <3>5. CASE pc' = "idle"
            <4>1. Restart
                BY <2>6, <3>5, Bystanders DEF Next, vars, Take, Forget, Begin, local, Worker,
                    WaitForOwner, WaitForCluster, ConnectToModel, CallFails,
                    AddFinalizer, ReleaseWithoutMachine, StartDeletion, ReleaseAfterMachine,
                    MachineRemains, ListUnits, UnitsRequested, StartProvisioning,
                    GetMachineNil, MachineNotReady, MachineStarted, AppsNotReady,
                    UnitFound, UnitMissing, AppsReady, NodeMissing, JujuProvider,
                    UpdateNode, UpdateNodeFails, CloudProvider, AddressesRead,
                    MachineVanished, PatchSpec, PatchSpecFails, PatchStatus,
                    PatchStatusFails, AddMachine, AddUnit, DestroyUnit, NodeFound, Call,
                    Goto, JujuCalls
            <4> QED
                BY <1>2, <2>6, <4>1 DEF Restart
        <3>6. CASE pc' # "idle" /\ ~PatchSpec
            <4>1. pc' = "patch" /\ cur' = cur /\ before' = before /\ (mem' = mem \/ Editing)
                BY <2>6, <3>4, <3>6, PassChange DEF Begin
            <4>2. ~Editing
                BY <2>6 DEF Editing, AddFinalizer, ReleaseWithoutMachine,
                    ReleaseAfterMachine, AddMachine, AppsReady, JujuProvider, UpdateNode,
                    CloudProvider, NodeFound, Call
            <4> QED
                BY <1>5, <2>6, <3>2, <4>1, <4>2
        <3> QED
            BY <3>3, <3>5, <3>6
    <2> QED
        BY <2>3, <2>4, <2>5, <2>6
<1> QED
    BY <1>4, <1>5

--------------------------------------------------------------------------------
(* The worker finds the machine it asks for.                               *)

\* Only the missing machine of a pass that does not look for nil is fatal.
LEMMA Panicking ==
    ASSUME Inv, [Next]_vars, pc' = "panicked"
    PROVE  pc = "panicked" \/ GetMachineNil
<1>1. CASE Worker
    BY <1>1 DEF Worker, WaitForOwner, WaitForCluster, ConnectToModel, CallFails,
        AddFinalizer, ReleaseWithoutMachine, StartDeletion, ReleaseAfterMachine,
        MachineRemains, ListUnits, UnitsRequested, StartProvisioning, MachineNotReady,
        MachineStarted, AppsNotReady, UnitFound, UnitMissing, AppsReady, NodeMissing,
        JujuProvider, UpdateNode, UpdateNodeFails, CloudProvider, AddressesRead,
        MachineVanished, PatchSpec, PatchSpecFails, PatchStatus, PatchStatusFails,
        AddMachine, AddUnit, DestroyUnit, Return, Goto, EndPass, ReplyLost,
        SetProviderID, MarkReady, Call
<1>2. Take \/ Restart => pc = "panicked"
    BY DEF Take, Forget, Begin, Restart, local
<1> QED
    BY <1>1, <1>2, Bystanders DEF Next, vars, local

\* Only a step of a pass that has read the deletion makes a machine leave.
LEMMA LeavingStarts ==
    ASSUME Inv, CopiesInv, PlacedInv, [Next]_vars, ~Spend("machineLost"),
           NEW i \in MachineIDs, Leaving(i)', ~Leaving(i)
    PROVE  /\ pc = "destroyUnits" /\ i = before.machineID
           /\ UNCHANGED <<cache, stored>>
           /\ pc' # "idle" => UNCHANGED <<cur, before>>
<1>1. /\ mstate \in [MachineIDs -> Machines] /\ HasMachine /\ CopyInv /\ Position /\ Unplaced
      /\ units \in [MachineIDs -> [Apps -> UnitStates]]
    BY DEF Inv, TypeOK, JujuTyped, CopiesInv, CopyInv
<1>2. ~MachineLost(i)
    BY DEF MachineLost
<1>3. ~Juju
    <2> SUFFICES ASSUME Juju PROVE FALSE
        OBVIOUS
    <2>1. MachineChange(i) /\ \A a \in Apps : UnitChange(i, a)
        BY JujuChange
    <2>2. mstate'[i] \in {"stopping", "gone"} =>
              \/ mstate[i] \in {"stopping", "gone"}
              \/ \E a \in Apps : units[i][a] \in {"dying", "forced"}
        BY <1>2, <2>1 DEF MachineChange
    <2>3. \A a \in Apps : units'[i][a] \in {"dying", "dyingError", "forced"} =>
              units[i][a] \in {"dying", "dyingError", "forced"}
        BY <1>2, <2>1 DEF UnitChange
    <2> QED
        BY <2>2, <2>3 DEF Leaving
<1>4. ~AddMachine
    <2> SUFFICES ASSUME AddMachine PROVE FALSE
        OBVIOUS
    <2>1. UNCHANGED units /\ (mstate'[i] = mstate[i] \/ mstate'[i] = "pending")
        BY WorkerChanges
    <2> QED
        BY <2>1 DEF Leaving
<1>5. ~AddUnit
    <2> SUFFICES ASSUME AddUnit PROVE FALSE
        OBVIOUS
    <2>1. /\ UNCHANGED mstate
          /\ \A a \in Apps : units'[i][a] = units[i][a] \/ units'[i][a] = "allocating"
        BY WorkerChanges
    <2> QED
        BY <2>1 DEF Leaving
<1>6. PICK a \in Apps, f \in BOOLEAN : DestroyUnit(a, f)
    <2>1. \/ \E a \in Apps, f \in BOOLEAN : DestroyUnit(a, f)
          \/ UNCHANGED <<mstate, units>>
        BY <1>3, <1>4, <1>5, JujuKept
    <2> QED
        BY <2>1 DEF Leaving
<1>7. /\ pc = "destroyUnits" /\ UNCHANGED mstate
      /\ \A b \in Apps : i # ID \/ b # a => units'[i][b] = units[i][b]
    BY <1>6, WorkerChanges
<1>8. i = ID
    BY <1>7 DEF Leaving
<1>9. ID = before.machineID
    BY <1>1, <1>7 DEF Position, Unedited, ID
<1> QED
    BY <1>6, <1>7, <1>8, <1>9 DEF DestroyUnit, k8s, ReplyLost, Return

\* A machine that leaves belongs to a deleted object, whose passes know it.
LEMMA AliveNext ==
    ASSUME Inv, Inv', CopiesInv, Within, PlacedInv, AliveInv, [Next]_vars
    PROVE  AliveInv'
<1> SUFFICES ASSUME Spared({"machineLost"})'
             PROVE  /\ \A i \in MachineIDs : Leaving(i)' =>
                          /\ cache'[creator'[i]].present => cache'[creator'[i]].deleted
                          /\ pc' # "idle" /\ cur' = creator'[i] => before'.deleted
                    /\ pc' # "panicked"
    BY DEF AliveInv
<1>1. /\ \A i \in MachineIDs : Leaving(i) =>
            /\ cache[creator[i]].present => cache[creator[i]].deleted
            /\ pc # "idle" /\ cur = creator[i] => before.deleted
      /\ pc # "panicked"
    BY SparedBefore DEF AliveInv, FaultKinds
<1>2. ~Spend("machineLost")
    BY SpentIsSpent DEF FaultKinds
<1>3. /\ CopyInv /\ Copies /\ Position /\ Issued /\ Read /\ HasObject
      /\ mstate \in [MachineIDs -> Machines] /\ creator \in [MachineIDs -> Objects \cup {None}]
    BY DEF CopiesInv, CopyInv, Inv, TypeOK, JujuTyped
<1>4. pc' # "panicked"
    <2> SUFFICES ASSUME GetMachineNil PROVE FALSE
        BY <1>1, Panicking
    <2>1. /\ pc = "getMachine" /\ mem = before /\ ~InModel(before.machineID)
          /\ ~before.deleted /\ before.machineID # None
        BY <1>3 DEF GetMachineNil, Call, Position, Unedited, Provisioning, ID
    <2>2. /\ before.machineID \in MachineIDs /\ creator[before.machineID] = cur
          /\ cur \in Objects
        BY <1>3, <2>1, BeforeIsOlder, FieldsTyped DEF Read, OwnMachine
    <2>3. mstate[before.machineID] # "absent"
        BY <1>3, <2>2, NoneIsNew DEF Issued
    <2>4. Leaving(before.machineID)
        BY <1>3, <2>1, <2>2, <2>3 DEF Leaving, InModel, Machines
    <2> QED
        BY <1>1, <2>1, <2>2, <2>4
<1>5. ASSUME NEW i \in MachineIDs, Leaving(i)'
      PROVE  /\ cache'[creator'[i]].present => cache'[creator'[i]].deleted
             /\ pc' # "idle" /\ cur' = creator'[i] => before'.deleted
    <2>1. CASE ~Leaving(i)
        <3>1. /\ pc = "destroyUnits" /\ i = before.machineID
              /\ UNCHANGED <<cache, stored>>
              /\ pc' # "idle" => UNCHANGED <<cur, before>>
            BY <1>2, <1>5, <2>1, LeavingStarts
        <3>2. /\ before.deleted /\ creator[i] = cur /\ cur \in Objects
              /\ Older(before, cache[cur])
            BY <1>3, <3>1, NoneIsNew DEF Position, Deleting, Read, OwnMachine, HasObject
        <3>3. creator'[i] = creator[i]
            BY <3>2, CreatorStays, NoneIsNew
        <3> QED
            BY <3>1, <3>2, <3>3 DEF Older
    <2>2. CASE Leaving(i)
        <3>1. creator'[i] = creator[i] /\ creator[i] \in Objects
            <4>1. mstate[i] # "absent"
                BY <2>2 DEF Leaving, CopiesInv, Unplaced
            <4> QED
                BY <1>3, <4>1, CreatorStays DEF Issued
        <3> DEFINE o == creator[i]
        <3>2. cache'[o].present => cache'[o].deleted
            <4>1. cache[o].present => cache[o].deleted
                BY <1>1, <2>2
            <4>2. Older(cache[o], stored[o])
                BY <1>3, <3>1 DEF Copies, CopiesOf
            <4>3. cache'[o] = cache[o] \/ cache'[o] = stored[o]
                BY <3>1, CacheChange
            <4> QED
                BY <4>1, <4>2, <4>3 DEF Older
        <3>3. ASSUME pc' # "idle", cur' = o
              PROVE  before'.deleted
            <4>1. CASE pc # "idle" /\ UNCHANGED <<cur, before>>
                BY <1>1, <2>2, <3>3, <4>1
            <4>2. ASSUME NEW p \in Objects, Begin(p)
                  PROVE  before'.deleted
                <5>1. cur' = p /\ before' = cache[p] /\ cache[p].present
                    BY <4>2 DEF Begin
                <5> QED
                    BY <1>1, <2>2, <3>3, <5>1
            <4> QED
                BY <3>3, <4>1, <4>2, PassChange
        <3> QED
            BY <3>1, <3>2, <3>3
    <2> QED
        BY <2>1, <2>2
<1> QED
    BY <1>4, <1>5

--------------------------------------------------------------------------------
(* The provider ID of an object is that of its node.                       *)

\* The only steps that change a node.
LEMMA NodeKept ==
    ASSUME [Next]_vars, ~UpdateNode,
           \A i \in MachineIDs : ~NodeRegisters(i) /\ ~CloudSetsProviderID(i)
    PROVE  UNCHANGED node
<1>1. CASE Worker
    BY <1>1 DEF Worker, WaitForOwner, WaitForCluster, ConnectToModel, CallFails,
        AddFinalizer, ReleaseWithoutMachine, StartDeletion, ReleaseAfterMachine,
        MachineRemains, ListUnits, UnitsRequested, StartProvisioning, GetMachineNil,
        MachineNotReady, MachineStarted, AppsNotReady, UnitFound, UnitMissing, AppsReady,
        NodeMissing, JujuProvider, UpdateNodeFails, CloudProvider, AddressesRead,
        MachineVanished, PatchSpec, PatchSpecFails, PatchStatus, PatchStatusFails,
        AddMachine, AddUnit, DestroyUnit
<1>2. CASE Take \/ Restart \/ Kubernetes \/ UNCHANGED vars
    BY <1>2 DEF Take, Forget, Begin, Restart, Kubernetes, Observe, Resync, Delete,
        SetOwner, DataSecretNamed, Provide, vars
<1>3. CASE Juju
    BY <1>3 DEF Juju, MachineStarts, MachineStops, MachineLost, UnitSettles, UnitFails,
        UnitResolved, UnitRemoved
<1> QED
    BY <1>1, <1>2, <1>3 DEF Next

\* A node gets the provider ID that its object asks for, whoever sets it.
LEMMA NodeChange ==
    ASSUME Inv, CopiesInv, MatchInv, [Next]_vars, NEW i \in MachineIDs
    PROVE  /\ node'[i].registered \/ node'[i].providerID # None =>
                 creator'[i] # None /\ node'[i].providerID \in {None, ProviderOf(i)'}
           /\ node[i].providerID # None => node'[i].providerID = node[i].providerID
<1>1. /\ node \in [MachineIDs -> Node] /\ HasMachine /\ CopyInv /\ Position /\ Issued
      /\ mstate \in [MachineIDs -> Machines] /\ creator \in [MachineIDs -> Objects \cup {None}]
    BY DEF Inv, TypeOK, JujuTyped, CopiesInv, CopyInv
<1>2. node[i].registered \/ node[i].providerID # None =>
          creator[i] # None /\ node[i].providerID \in {None, ProviderOf(i)}
    BY DEF MatchInv
<1>3. creator[i] # None => creator'[i] = creator[i] /\ ProviderOf(i)' = ProviderOf(i)
    BY CreatorStays DEF ProviderOf
<1>4. CASE UNCHANGED node
    BY <1>2, <1>3, <1>4
<1>5. CASE UpdateNode
    <2>1. /\ pc = "updateNode" /\ ID \in MachineIDs /\ cur \in UseJujuProviderID
          /\ mem.providerID = [scheme |-> "juju", machine |-> ID]
          /\ node' = [node EXCEPT ![ID].providerID = mem.providerID]
          /\ UNCHANGED creator
        BY <1>1, <1>5 DEF UpdateNode, HoldsMachine, HasMachine, Position, juju
    <2>2. creator[ID] = cur /\ cur \in Objects
        BY <1>1, <2>1, BeforeIsOlder, NoneIsNew DEF CopyInv, Edits, OwnMachine, ID
    <2>3. mem.providerID = ProviderOf(ID) /\ creator[ID] # None
        BY <2>1, <2>2, NoneIsNew DEF ProviderOf
    <2>4. CASE i = ID
        <3>1. node'[i].providerID = mem.providerID
            BY <1>1, <2>1, <2>4 DEF Node
        <3> QED
            BY <1>2, <1>3, <2>3, <2>4, <3>1
    <2>5. CASE i # ID
        BY <1>1, <1>2, <1>3, <2>1, <2>5
    <2> QED
        BY <2>4, <2>5
<1>6. ASSUME NEW j \in MachineIDs, NodeRegisters(j)
      PROVE  /\ node'[i].registered \/ node'[i].providerID # None =>
                   creator'[i] # None /\ node'[i].providerID \in {None, ProviderOf(i)'}
             /\ node[i].providerID # None => node'[i].providerID = node[i].providerID
    <2>1. /\ mstate[j] = "started" /\ node' = [node EXCEPT ![j].registered = TRUE]
          /\ creator' = creator
        BY <1>6 DEF NodeRegisters, juju
    <2>2. creator[j] # None
        BY <1>1, <2>1 DEF Issued
    <2>3. node'[i].providerID = node[i].providerID
        BY <1>1, <2>1 DEF Node
    <2>4. i # j => node'[i] = node[i]
        BY <1>1, <2>1
    <2> QED
        BY <1>2, <1>3, <2>1, <2>2, <2>3, <2>4
<1>7. ASSUME NEW j \in MachineIDs, CloudSetsProviderID(j)
      PROVE  /\ node'[i].registered \/ node'[i].providerID # None =>
                   creator'[i] # None /\ node'[i].providerID \in {None, ProviderOf(i)'}
             /\ node[i].providerID # None => node'[i].providerID = node[i].providerID
    <2>1. /\ node[j].registered /\ node[j].providerID = None /\ creator[j] \notin UseJujuProviderID
          /\ node' = [node EXCEPT ![j].providerID = ProviderOf(j)]
          /\ creator' = creator
        BY <1>7 DEF CloudSetsProviderID, juju, ProviderOf
    <2>2. i = j => node'[i].providerID = ProviderOf(i)
        BY <1>1, <2>1 DEF Node
    <2>3. i # j => node'[i] = node[i]
        BY <1>1, <2>1
    <2> QED
        BY <1>2, <1>3, <2>1, <2>2, <2>3
<1> QED
    BY <1>4, <1>5, <1>6, <1>7, NodeKept

\* The worker at the update of the node.
LEMMA UpdatingNode ==
    ASSUME [Next]_vars, pc = "updateNode", pc' # "idle"
    PROVE  UpdateNode \/ UpdateNodeFails \/ pc' = "updateNode"
<1>1. CASE Worker
    BY <1>1 DEF Worker, WaitForOwner, WaitForCluster, ConnectToModel, CallFails,
        AddFinalizer, ReleaseWithoutMachine, StartDeletion, ReleaseAfterMachine,
        MachineRemains, ListUnits, UnitsRequested, StartProvisioning, GetMachineNil,
        MachineNotReady, MachineStarted, AppsNotReady, UnitFound, UnitMissing, AppsReady,
        NodeMissing, JujuProvider, CloudProvider, AddressesRead,
        MachineVanished, PatchSpec, PatchSpecFails, PatchStatus, PatchStatusFails,
        AddMachine, AddUnit, DestroyUnit, JujuCalls, NodeFound, Call
<1>2. Take \/ Restart => FALSE
    BY DEF Take, Forget, Begin, Restart
<1> QED
    BY <1>1, <1>2, Bystanders DEF Next, vars, local

\* What the pass is about to write to the object it has written to the node.
LEMMA MatchNext ==
    ASSUME Inv, Inv', CopiesInv, Within, StaleInv, MatchInv, [Next]_vars
    PROVE  MatchInv'
<1>1. /\ CopyInv /\ Edits /\ Position /\ HasMachine /\ Read /\ HasObject
      /\ stored \in [Objects -> Object] /\ Copies
    BY DEF Inv, TypeOK, KubernetesTyped, CopiesInv, CopyInv
<1>2. \A i \in MachineIDs : node[i].providerID # None => node'[i].providerID = node[i].providerID
    BY NodeChange
<1>3. ASSUME Spared({"conflict"})', OnceAtMost("stale")', NEW o \in Objects,
             stored'[o].providerID # None
      PROVE  node'[stored'[o].machineID].providerID = stored'[o].providerID
    <2>1. Spared({"conflict"}) /\ OnceAtMost("stale")
        BY <1>3, SparedBefore DEF FaultKinds
    <2>2. StoredChange(o) /\ Sound(stored'[o]) /\ Sound(stored[o]) /\ stored[o] \in Object
        <3>1. CopiesInv'
            BY CopiesNext
        <3> QED
            BY <1>1, <3>1, StoredChanges DEF CopiesInv, CopyInv, Copies, CopiesOf
    <2>3. stored'[o].present /\ stored[o].present
        <3>1. stored'[o].present
            <4>1. stored'[o] \in Object
                BY DEF Inv, TypeOK, KubernetesTyped
            <4> QED
                BY <1>3, <2>2 DEF Sound
        <3> QED
            BY <2>2, <3>1 DEF StoredChange, Older
    <2>4. CASE stored'[o].providerID = stored[o].providerID
        <3>1. /\ node[stored[o].machineID].providerID = stored[o].providerID
              /\ stored[o].machineID \in MachineIDs
            BY <1>3, <2>1, <2>2, <2>4, FieldsTyped DEF MatchInv, Sound
        <3>2. stored'[o].machineID = stored[o].machineID
            <4> SUFFICES ASSUME pc = "patch", o = cur, mem.machineID # before.machineID
                         PROVE  FALSE
                BY <2>2, <2>3 DEF StoredChange
            <4>1. before.machineID = None
                BY <1>1 DEF Edits
            <4> QED
                BY <1>3, <2>4, <4>1 DEF StaleInv
        <3> QED
            BY <1>2, <1>3, <2>4, <3>1, <3>2
    <2>5. CASE /\ PatchSpec /\ pc = "patch" /\ o = cur
               /\ mem.providerID # before.providerID /\ stored'[o].providerID = mem.providerID
        <3>1. before.machineID # None /\ mem.machineID = before.machineID
            BY <1>1, <2>5 DEF Edits
        <3>2. stored[o].machineID = before.machineID
            BY <2>1, <2>3, <2>5, <3>1 DEF StaleInv
        <3>3. stored'[o].machineID = mem.machineID
            BY <2>2, <2>3, <3>1, <3>2 DEF StoredChange
        <3>4. node[mem.machineID].providerID = mem.providerID
            BY <2>1, <2>5 DEF MatchInv
        <3> QED
            BY <2>5, <3>3, <3>4 DEF PatchSpec
    <2> QED
        BY <2>2, <2>3, <2>4, <2>5 DEF StoredChange
<1>4. ASSUME Spared({"conflict"})', pc' \in {"addresses", "patch", "patchStatus"},
             mem'.providerID # before'.providerID
      PROVE  node'[mem'.machineID].providerID = mem'.providerID
    <2>1. Spared({"conflict"}) /\ ~Spend("conflict")
        BY <1>4, SparedBefore, SpentIsSpent DEF FaultKinds
    <2>2. /\ pc # "idle" /\ UNCHANGED <<cur, before>> /\ (mem' = mem \/ Editing)
        BY <1>4, PassChange DEF Begin
    <2>3. before \in Object /\ mem \in Object
        BY <1>1, <2>2, BeforeIsOlder
    <2>4. CASE pc \in {"addresses", "patch", "patchStatus"}
        <3>1. mem' = mem
            BY <2>2, <2>4 DEF Editing, AddFinalizer, ReleaseWithoutMachine,
                ReleaseAfterMachine, AddMachine, AppsReady, JujuProvider, UpdateNode,
                CloudProvider, NodeFound, Call
        <3>2. node[mem.machineID].providerID = mem.providerID
            BY <1>4, <2>1, <2>2, <2>4, <3>1 DEF MatchInv
        <3>3. mem.machineID \in MachineIDs /\ mem.providerID # None
            BY <1>1, <1>4, <2>2, <2>3, <3>1, FieldsTyped DEF Edits
        <3> QED
            BY <1>2, <3>1, <3>2, <3>3
    <2>5. CASE pc = "updateNode"
        <3>1. UpdateNode
            BY <1>4, <2>1, <2>5, UpdatingNode DEF UpdateNodeFails
        <3>2. /\ node' = [node EXCEPT ![ID].providerID = mem.providerID]
              /\ ID \in MachineIDs /\ mem' = [mem EXCEPT !.ready = TRUE]
            BY <1>1, <3>1, <2>5 DEF UpdateNode, MarkReady, HasMachine, HoldsMachine
        <3>3. mem'.machineID = ID /\ mem'.providerID = mem.providerID
            BY <2>3, <3>2, FieldUpdates DEF ID
        <3>4. node \in [MachineIDs -> Node]
            BY DEF Inv, TypeOK, JujuTyped
        <3> QED
            BY <3>2, <3>3, <3>4 DEF Node
    <2>6. CASE pc \in Unedited
        <3>1. mem = before
            BY <1>1, <2>6 DEF Position
        <3>2. CASE mem' = mem
            BY <1>4, <2>2, <3>1, <3>2
        <3>3. CASE \/ AddFinalizer \/ ReleaseWithoutMachine \/ ReleaseAfterMachine
                   \/ AddMachine \/ AppsReady
            <4>1. mem'.providerID = mem.providerID
                BY <2>3, <3>3 DEF AddFinalizer, ReleaseWithoutMachine,
                    ReleaseAfterMachine, AddMachine, AppsReady, Return, ReplyLost, Goto,
                    MarkReady, Object
            <4> QED
                BY <1>4, <2>2, <3>1, <4>1
        <3>4. CASE CloudProvider
            <4>1. /\ mem' = [[mem EXCEPT !.providerID = node[ID].providerID]
                                  EXCEPT !.ready = TRUE]
                  /\ UNCHANGED node
                BY <3>4 DEF CloudProvider, MarkReady
            <4>2. mem'.providerID = node[ID].providerID /\ mem'.machineID = ID
                BY <2>3, <4>1 DEF Object, ID
            <4> QED
                BY <4>1, <4>2
        <3>5. JujuProvider => pc' = "updateNode"
            BY DEF JujuProvider, SetProviderID
        <3>6. ~UpdateNode
            BY <2>6 DEF UpdateNode, Unedited
        <3> QED
            BY <1>4, <2>2, <3>2, <3>3, <3>4, <3>5, <3>6 DEF Editing
    <2>7. pc \in Steps
        BY DEF Inv, TypeOK, WorkerTyped
    <2> QED
        BY <2>2, <2>4, <2>5, <2>6, <2>7 DEF Steps, JujuCalls, Unedited
<1> QED
    BY <1>3, <1>4, NodeChange DEF MatchInv

--------------------------------------------------------------------------------
(* The units serve when the object becomes ready.                          *)

\* A unit that serves goes on serving until it errs, its machine is lost or a pass
\* asks it to go.
LEMMA ActiveStays ==
    ASSUME Inv, [Next]_vars, ~Spend("unitError"), ~Spend("machineLost"),
           NEW i \in MachineIDs, NEW a \in Apps, units[i][a] = "active",
           pc # "destroyUnits"
    PROVE  units'[i][a] = "active"
<1>1. CASE Juju
    BY <1>1, JujuChange DEF UnitChange, MachineLost
<1>2. CASE AddUnit
    <2>1. pc = "addUnit"
        BY <1>2 DEF AddUnit, Call
    <2>2. units[ID][pass.app] = "none"
        BY <2>1 DEF Inv, AddsMissing
    <2> QED
        BY <1>2, <2>2, WorkerChanges
<1>3. ~\E b \in Apps, f \in BOOLEAN : DestroyUnit(b, f)
    BY DEF DestroyUnit, Call
<1> QED
    BY <1>1, <1>2, <1>3, WorkerChanges, JujuKept

\* How the worker gets to the steps at which it relies on the units.
LEMMA ServingSteps ==
    ASSUME Inv, Worker
    PROVE  /\ pc' = "addUnit" => ~pass'.appsReady
           /\ pc' = "applications" =>
                 \/ MachineStarted /\ pass'.todo = Apps
                 \/ AddUnit /\ pc = "addUnit" /\ pass'.appsReady = pass.appsReady
                 \/ /\ pc = "applications" /\ UNCHANGED <<mem, units>>
                    /\ \E a \in Apps :
                          /\ pass'.todo = pass.todo \ {a}
                          /\ pass'.appsReady => pass.appsReady /\ units[ID][a] = "active"
           /\ pc' \in {"matchNode", "updateNode", "addresses"} =>
                 /\ UNCHANGED <<units>> /\ mem'.machineID = mem.machineID
                 /\ \/ pc = "applications" /\ pass.todo = {} /\ pass.appsReady
                    \/ pc \in {"matchNode", "updateNode"}
<1>1. mem \in Object /\ pass \in Pass
    BY DEF Inv, TypeOK, WorkerTyped
<1>2. ASSUME NEW a \in Apps, UnitFound(a)
      PROVE  /\ pc = "applications" /\ pc' = "applications" /\ UNCHANGED <<mem, units>>
             /\ pass'.todo = pass.todo \ {a}
             /\ pass'.appsReady => pass.appsReady /\ units[ID][a] = "active"
    BY <1>1, <1>2 DEF UnitFound, Call, Pass, juju
<1>3. ASSUME NEW a \in Apps, UnitMissing(a)
      PROVE  pc' = "addUnit" /\ ~pass'.appsReady
    BY <1>1, <1>3 DEF UnitMissing, Pass
<1>4. MachineStarted => pc' = "applications" /\ pass'.todo = Apps
    BY <1>1 DEF MachineStarted, Pass
<1>5. AddUnit => /\ pc = "addUnit"
                 /\ \/ pc' = "patch"
                    \/ pc' = "applications" /\ pass'.appsReady = pass.appsReady
    BY <1>1 DEF AddUnit, Call, Pass, ReplyLost, Return
<1>6. AppsReady \/ JujuProvider \/ UpdateNode \/ CloudProvider =>
          /\ pc' \in {"matchNode", "updateNode", "addresses"}
          /\ UNCHANGED <<units>> /\ mem'.machineID = mem.machineID
          /\ \/ pc = "applications" /\ pass.todo = {} /\ pass.appsReady
             \/ pc \in {"matchNode", "updateNode"}
    BY <1>1 DEF AppsReady, JujuProvider, UpdateNode, CloudProvider, NodeFound, Call, Goto,
        MarkReady, SetProviderID, Object, juju
<1>7. CASE \/ CallFails \/ AddFinalizer \/ ReleaseWithoutMachine \/ ReleaseAfterMachine
           \/ UnitsRequested \/ AddMachine \/ MachineNotReady \/ AppsNotReady
           \/ NodeMissing \/ UpdateNodeFails \/ AddressesRead \/ MachineVanished
    <2>1. pc' = "patch"
        BY <1>7 DEF CallFails, AddFinalizer, ReleaseWithoutMachine, ReleaseAfterMachine,
            UnitsRequested, AddMachine, MachineNotReady, AppsNotReady, NodeMissing,
            UpdateNodeFails, AddressesRead, MachineVanished, Return, ReplyLost
    <2> QED
        BY <2>1
<1>8. CASE \/ WaitForOwner \/ WaitForCluster \/ ConnectToModel \/ StartDeletion
           \/ MachineRemains \/ ListUnits \/ StartProvisioning \/ GetMachineNil
           \/ PatchSpec \/ PatchSpecFails \/ PatchStatus \/ PatchStatusFails
           \/ \E a \in Apps, force \in BOOLEAN : DestroyUnit(a, force)
    <2>1. pc' \notin {"addUnit", "applications", "matchNode", "updateNode", "addresses"}
        BY <1>8 DEF WaitForOwner, WaitForCluster, ConnectToModel, StartDeletion,
            MachineRemains, ListUnits, StartProvisioning, GetMachineNil, PatchSpec,
            PatchSpecFails, PatchStatus, PatchStatusFails, DestroyUnit, Call, EndPass, Goto,
            ReplyLost, Return
    <2> QED
        BY <2>1
<1> QED
    BY <1>2, <1>3, <1>4, <1>5, <1>6, <1>7, <1>8 DEF Worker

\* What a pass has found active is active when it reports the object ready.
LEMMA ServingNext ==
    ASSUME Inv, Inv', CopiesInv, Within, ServingInv, [Next]_vars
    PROVE  ServingInv'
<1> SUFFICES ASSUME Spared({"unitError", "machineLost"})'
             PROVE  /\ pc' = "addUnit" => ~pass'.appsReady
                    /\ pc' = "applications" /\ pass'.appsReady =>
                          \A a \in Apps \ pass'.todo : units'[mem'.machineID][a] = "active"
                    /\ pc' \in {"matchNode", "updateNode", "addresses"} =>
                          \A a \in Apps : units'[mem'.machineID][a] = "active"
                    /\ pc' \in {"patch", "patchStatus"} /\ mem'.ready /\ ~before'.ready =>
                          \A a \in Apps : units'[mem'.machineID][a] = "active"
    BY DEF ServingInv, ID
<1>1. /\ ~Spend("unitError") /\ ~Spend("machineLost")
      /\ Spared({"unitError", "machineLost"})
    <2>1. {"unitError", "machineLost"} \in SUBSET FaultKinds
        BY DEF FaultKinds
    <2> QED
        BY <2>1, SparedBefore, SpentIsSpent
<1>2. /\ pc = "addUnit" => ~pass.appsReady
      /\ pc = "applications" /\ pass.appsReady =>
            \A a \in Apps \ pass.todo : units[ID][a] = "active"
      /\ pc \in {"matchNode", "updateNode", "addresses"} =>
            \A a \in Apps : units[ID][a] = "active"
      /\ pc \in {"patch", "patchStatus"} /\ mem.ready /\ ~before.ready =>
            \A a \in Apps : units[mem.machineID][a] = "active"
    BY <1>1 DEF ServingInv
<1>3. /\ CopyInv /\ Edits /\ Position /\ HasMachine /\ pass \in Pass /\ pc \in Steps
    BY DEF CopiesInv, CopyInv, Inv, TypeOK, WorkerTyped
<1>4. \A i \in MachineIDs, a \in Apps :
          units[i][a] = "active" /\ pc # "destroyUnits" => units'[i][a] = "active"
    BY <1>1, ActiveStays
<1>5. pc # "idle" /\ mem.ready /\ ~before.ready =>
          mem.machineID \in MachineIDs
    <2> SUFFICES ASSUME pc # "idle", mem.ready, ~before.ready PROVE mem.machineID \in MachineIDs
        OBVIOUS
    <2>1. before.machineID # None /\ mem.machineID = before.machineID
        BY <1>3 DEF Edits
    <2> QED
        BY <1>3, <2>1, BeforeIsOlder, FieldsTyped
<1>6. CASE UNCHANGED <<pc, mem, before, pass>>
    <2>1. pc' \in {"applications", "matchNode", "updateNode", "addresses"} => ID \in MachineIDs
        BY <1>3, <1>6 DEF HasMachine, HoldsMachine
    <2>2. pc' = "addUnit" => ~pass'.appsReady
        BY <1>2, <1>6
    <2>3. pc' = "applications" /\ pass'.appsReady =>
              \A a \in Apps \ pass'.todo : units'[mem'.machineID][a] = "active"
        BY <1>2, <1>4, <1>6, <2>1 DEF ID
    <2>4. pc' \in {"matchNode", "updateNode", "addresses"} =>
              \A a \in Apps : units'[mem'.machineID][a] = "active"
        BY <1>2, <1>4, <1>6, <2>1 DEF ID
    <2>5. pc' \in {"patch", "patchStatus"} /\ mem'.ready /\ ~before'.ready =>
              \A a \in Apps : units'[mem'.machineID][a] = "active"
        BY <1>2, <1>4, <1>5, <1>6
    <2> QED
        BY <2>2, <2>3, <2>4, <2>5
<1>7. CASE Worker
    <2>1. pc' = "addUnit" => ~pass'.appsReady
        BY <1>7, ServingSteps
    <2>2. ASSUME pc' = "applications", pass'.appsReady, NEW a \in Apps, a \notin pass'.todo
          PROVE  units'[mem'.machineID][a] = "active"
        <3>1. ~(AddUnit /\ pc = "addUnit" /\ pass'.appsReady = pass.appsReady)
            BY <1>2, <2>2
        <3>2. PICK b \in Apps :
                  /\ pc = "applications" /\ UNCHANGED <<mem, units>>
                  /\ pass'.todo = pass.todo \ {b}
                  /\ pass.appsReady /\ units[ID][b] = "active"
            BY <1>7, <2>2, <3>1, ServingSteps
        <3> QED
            BY <1>2, <2>2, <3>2 DEF ID
    <2>3. ASSUME pc' \in {"matchNode", "updateNode", "addresses"}, NEW a \in Apps
          PROVE  units'[mem'.machineID][a] = "active"
        BY <1>2, <1>7, <2>3, ServingSteps DEF ID
    <2>4. ASSUME pc' \in {"patch", "patchStatus"}, mem'.ready, ~before'.ready, NEW a \in Apps
          PROVE  units'[mem'.machineID][a] = "active"
        <3>1. pc # "idle" /\ UNCHANGED before /\ (mem' = mem \/ Editing)
            BY <1>7, <2>4, WorkerPass
        <3>2. mem'.ready = mem.ready
            <4>1. mem \in Object
                BY DEF Inv, TypeOK, WorkerTyped
            <4> QED
                BY <2>4, <3>1, <4>1 DEF Editing, AddFinalizer, ReleaseWithoutMachine,
                    ReleaseAfterMachine, AddMachine, AppsReady, JujuProvider, UpdateNode,
                    CloudProvider, Return, ReplyLost, Goto, MarkReady, SetProviderID, Object
        <3>3. pc \notin Unedited /\ pc # "updateNode"
            BY <1>3, <2>4, <3>1, <3>2 DEF Position
        <3>4. pc \in {"addresses", "patch", "patchStatus"}
            BY <1>3, <3>1, <3>3 DEF Steps, JujuCalls, Unedited
        <3>5. mem' = mem
            BY <3>1, <3>4 DEF Editing, AddFinalizer, ReleaseWithoutMachine,
                ReleaseAfterMachine, AddMachine, AppsReady, JujuProvider, UpdateNode,
                CloudProvider, NodeFound, Call
        <3>6. units[mem.machineID][a] = "active"
            BY <1>2, <2>4, <3>1, <3>4, <3>5 DEF ID
        <3> QED
            BY <1>4, <1>5, <2>4, <3>1, <3>4, <3>5, <3>6
    <2> QED
        BY <2>1, <2>2, <2>3, <2>4
<1>8. CASE Take \/ Restart
    <2>1. (\E o \in Objects : Begin(o)) => pc' = "prerequisites"
        BY DEF Begin
    <2>2. Restart => pc' = "idle"
        BY DEF Restart
    <2>3. (\E o \in Objects : Forget(o)) => UNCHANGED <<pc, mem, before, pass>>
        BY DEF Forget, local
    <2> QED
        BY <1>6, <1>8, <2>1, <2>2, <2>3 DEF Take
<1> QED
    BY <1>6, <1>7, <1>8, Bystanders DEF Next, vars, local

--------------------------------------------------------------------------------
(* The theorems.                                                           *)

SafetyInv == /\ Within /\ ReadyInv /\ StaleInv /\ PlacedInv /\ ReleaseInv
             /\ RecordInv /\ AliveInv /\ MatchInv /\ ServingInv

LEMMA SafetyInit == Init => SafetyInv
<1> SUFFICES ASSUME Init PROVE SafetyInv
    OBVIOUS
<1>1. /\ pc = "idle" /\ budget = FaultBudget /\ FaultBudget \in [FaultKinds -> Nat]
      /\ \A o \in Objects : stored[o] = Created /\ cache[o] = Created
      /\ \A i \in MachineIDs :
            /\ mstate[i] = "absent" /\ creator[i] = None
            /\ ~node[i].registered /\ node[i].providerID = None
            /\ \A a \in Apps : units[i][a] = "none"
    BY BudgetAssumption DEF Init
<1>2. ~Created.ready /\ Created.machineID = None /\ Created.providerID = None
    BY ConstantsTyped DEF Created, Absent
<1>3. Within
    BY <1>1 DEF Within
<1>4. ReadyInv /\ StaleInv
    BY <1>1, <1>2 DEF ReadyInv, StaleInv
<1>5. PlacedInv /\ ReleaseInv /\ RecordInv
    BY <1>1 DEF PlacedInv, ReleaseInv, RecordInv
<1>6. AliveInv
    BY <1>1 DEF AliveInv, Leaving
<1>7. MatchInv /\ ServingInv
    BY <1>1, <1>2 DEF MatchInv, ServingInv
<1> QED
    BY <1>3, <1>4, <1>5, <1>6, <1>7 DEF SafetyInv

LEMMA SafetyNext ==
    Inv /\ Inv' /\ CopiesInv /\ CopiesInv' /\ SafetyInv /\ [Next]_vars => SafetyInv'
BY SparedBefore, ReadyNext, StaleNext, PlacedNext, ReleaseNext, RecordNext, AliveNext,
   MatchNext, ServingNext DEF SafetyInv

\* The invariants of this module hold, whatever the constants.
THEOREM SafetyInvariance == Spec => [](Inv /\ CopiesInv /\ SafetyInv)
<1>1. Init => Inv /\ CopiesInv /\ SafetyInv
    BY InvInit, CopiesInit, SafetyInit
<1>2. Inv /\ CopiesInv /\ SafetyInv /\ [Next]_vars => (Inv /\ CopiesInv /\ SafetyInv)'
    BY InvNext, CopiesNext, SafetyNext
<1> QED
    BY <1>1, <1>2, PTL DEF Spec

\* An object that the patches report ready has its provider ID, unless a patch
\* was lost.
THEOREM ReadyAfterProviderID == Spec => []ReadyHasProviderID
<1>1. SafetyInv => ReadyHasProviderID
    BY DEF SafetyInv, ReadyInv, ReadyHasProviderID
<1> QED
    BY <1>1, SafetyInvariance, PTL

\* createMachine's result is never lost from sight: while no reply, patch or
\* process is lost, a machine in the model belongs to an object under the finalizer.
THEOREM NoMachineOrphaned == Spec => []NoOrphan
<1>1. Inv /\ CopiesInv /\ SafetyInv => NoOrphan
    <2> SUFFICES ASSUME Inv, CopiesInv, SafetyInv,
                        Spared({"reply", "patch", "crash", "stale"}),
                        NEW i \in MachineIDs, InModel(i)
                 PROVE  LET o == creator[i] IN
                        /\ stored[o].present /\ stored[o].finalizer
                        /\ \/ stored[o].machineID = i
                           \/ cur = o /\ pc = "patch" /\ mem.machineID = i
        BY DEF NoOrphan
    <2>1. creator[i] # None /\ creator[i] \in Objects /\ i # None
        BY NoneIsNew DEF CopiesInv, CopyInv, Issued, InModel, Inv, TypeOK, JujuTyped
    <2>2. Sound(stored[creator[i]])
        BY <2>1 DEF CopiesInv, CopyInv, Copies, CopiesOf
    <2>3. RecordInv
        BY DEF SafetyInv
    <2>4. stored[creator[i]] \in Object
        BY <2>1 DEF Inv, TypeOK, KubernetesTyped
    <2> QED
        BY <2>1, <2>2, <2>3, <2>4 DEF RecordInv, Sound
<1> QED
    BY <1>1, SafetyInvariance, PTL

\* The pass that reads m.Status without looking for nil finds the machine there,
\* unless another hand removed it.
THEOREM NeverPanics == Spec => []NoPanic
<1>1. SafetyInv => NoPanic
    BY DEF SafetyInv, AliveInv, NoPanic
<1> QED
    BY <1>1, SafetyInvariance, PTL

\* The provider ID of the object and that of its node, set by two requests, match.
THEOREM ProvidersMatch == Spec => []ProviderIDsMatch
<1>1. Inv /\ CopiesInv /\ SafetyInv => ProviderIDsMatch
    BY DEF SafetyInv, MatchInv, ProviderIDsMatch, CopiesInv, CopyInv, Copies, CopiesOf, Sound
<1> QED
    BY <1>1, SafetyInvariance, PTL

\* The finalizer of an object outlives its machine, whatever fails, as long as no
\* pass starts from an outdated object.
THEOREM FinalizerOutlivesMachine == Spec => FinalizerGuards
<1>1. /\ Inv /\ CopiesInv /\ SafetyInv /\ Inv' /\ [Next]_vars =>
             [Spared({"stale"}) => \A o \in Objects :
                 stored[o].present /\ stored[o].machineID # None /\ ~stored'[o].present
                     => mstate[stored[o].machineID] = "gone"]_vars
    BY ReleasesGuarded DEF SafetyInv
<1> QED
    BY <1>1, SafetyInvariance, PTL DEF Spec, FinalizerGuards

\* The units that the pass found active, one after the other, are all active when
\* the status is written, unless a unit errs or the machine is lost.
THEOREM ServesWhenReady == Spec => ReadyWhenServing
<1>1. Inv /\ CopiesInv /\ SafetyInv /\ Inv' /\ [Next]_vars =>
          [Spared({"unitError", "machineLost"}) /\ OnceAtMost("stale") =>
              \A o \in Objects : ~stored[o].ready /\ stored'[o].ready =>
                  \A a \in Apps : units[stored[o].machineID][a] = "active"]_vars
    <2> SUFFICES ASSUME Inv, Inv', CopiesInv, SafetyInv, [Next]_vars,
                        Spared({"unitError", "machineLost"}), OnceAtMost("stale"),
                        NEW o \in Objects, ~stored[o].ready, stored'[o].ready,
                        NEW a \in Apps
                 PROVE  units[stored[o].machineID][a] = "active"
        OBVIOUS
    <2>1. /\ pc = "patchStatus" /\ o = cur /\ mem.ready /\ ~before.ready
          /\ stored[o].present
        BY StoredChanges DEF StoredChange, Readies
    <2>2. before.machineID # None /\ mem.machineID = before.machineID
        BY <2>1 DEF CopiesInv, CopyInv, Edits
    <2>3. stored[o].machineID = before.machineID
        BY <2>1, <2>2 DEF SafetyInv, StaleInv
    <2> QED
        BY <2>1, <2>2, <2>3 DEF SafetyInv, ServingInv
<1> QED
    BY <1>1, SafetyInvariance, PTL DEF Spec, ReadyWhenServing

--------------------------------------------------------------------------------
(***************************************************************************)
(* The controller implements MachineOwnership, step by step, when nothing  *)
(* that it has just learned is lost: no reply of Juju, no patch, no        *)
(* process, and no pass that starts from an outdated object.  Requests and *)
(* node updates may fail, units err and machines get lost.                 *)
(***************************************************************************)
NothingIsLost == \A k \in {"reply", "patch", "crash", "stale"} : FaultBudget[k] = 0

AllInv == Inv /\ CopiesInv /\ SafetyInv

GuardedObjects  == {o \in Objects : stored[o].finalizer}
ReleasedObjects == {o \in Objects : ~stored[o].present}
IssuedMachines   == [o \in Objects |-> {i \in MachineIDs : creator[i] = o}]
LiveMachines     == {i \in MachineIDs : InModel(i)}

\* The faults that would spoil the records never happen.
LEMMA NeverLost ==
    ASSUME AllInv, NothingIsLost
    PROVE  /\ Spared({"reply", "patch", "crash", "stale"}) /\ Spared({"stale"})
           /\ ~Spend("reply")
<1>1. /\ budget \in [FaultKinds -> Nat] /\ FaultBudget \in [FaultKinds -> Nat] /\ Within
    BY BudgetAssumption DEF AllInv, Inv, TypeOK, BudgetTyped, SafetyInv
<1>2. \A k \in {"reply", "patch", "crash", "stale"} : budget[k] = FaultBudget[k] /\ ~(budget[k] > 0)
    BY <1>1 DEF Within, NothingIsLost, FaultKinds
<1> QED
    BY <1>2 DEF Spared, Spend

\* An object that is not about to record a machine has the one that was issued to it.
LEMMA MachineOfObject ==
    ASSUME AllInv, NothingIsLost, NEW o \in Objects, stored[o].present,
           NEW i \in MachineIDs, creator[i] = o
    PROVE  /\ stored[o].finalizer
           /\ \/ stored[o].machineID = i
              \/ cur = o /\ pc = "patch" /\ mem.machineID = i /\ before.machineID = None
<1>1. RecordInv /\ creator[i] # None /\ i # None /\ Sound(stored[o])
    BY NoneIsNew DEF AllInv, SafetyInv, CopiesInv, CopyInv, Copies, CopiesOf
<1>2. stored[o] \in Object
    BY DEF AllInv, Inv, TypeOK, KubernetesTyped
<1> QED
    BY <1>1, <1>2, NeverLost DEF RecordInv, Sound

--------------------------------------------------------------------------------
(* The steps.                                                              *)

\* To ask Juju for a machine is to acquire one.
LEMMA AddMachineAcquires ==
    ASSUME AllInv, NothingIsLost, [Next]_vars, AddMachine
    PROVE  \E o \in Objects, i \in MachineIDs : Ownership!Acquire(o, i)
<1>1. /\ Inv /\ CopiesInv /\ CopyInv /\ Position /\ Issued /\ StaleInv
      /\ creator \in [MachineIDs -> Objects \cup {None}]
    BY DEF AllInv, SafetyInv, CopiesInv, CopyInv, Inv, TypeOK, JujuTyped
<1>2. /\ pc = "addMachine" /\ before.machineID = None /\ stored[cur].present
      /\ stored[cur].finalizer /\ cur \in Objects /\ UNCHANGED stored
    BY <1>1, Acquiring, BeforeIsOlder DEF AddMachine, Call, Position, k8s
<1>3. PICK i \in MachineIDs :
          /\ mstate[i] = "absent" /\ mstate'[i] = "pending" /\ creator'[i] = cur
          /\ \A j \in MachineIDs \ {i} : mstate'[j] = mstate[j] /\ creator'[j] = creator[j]
    BY <1>1, WorkerChanges
<1>4. \A j \in MachineIDs : creator[j] # cur
    <2> SUFFICES ASSUME NEW j \in MachineIDs, creator[j] = cur PROVE FALSE
        OBVIOUS
    <2>1. stored[cur].machineID = j
        BY <1>2, MachineOfObject
    <2>2. stored[cur].machineID = before.machineID
        BY <1>1, <1>2, NeverLost DEF StaleInv
    <2> QED
        BY <1>2, <2>1, <2>2, NoneIsNew
<1>5. creator[i] = None
    BY <1>1, <1>3 DEF Issued
<1>6. IssuedMachines[cur] = {} /\ \A p \in Objects : i \notin IssuedMachines[p]
    BY <1>2, <1>4, <1>5, NoneIsNew DEF IssuedMachines
<1>7. IssuedMachines' = [IssuedMachines EXCEPT ![cur] = {i}]
    <2>1. ASSUME NEW p \in Objects
          PROVE  {j \in MachineIDs : creator'[j] = p} =
                     IF p = cur THEN {i} ELSE {j \in MachineIDs : creator[j] = p}
        BY <1>3, <1>4, <1>5, <2>1, NoneIsNew
    <2> QED
        BY <1>2, <2>1 DEF IssuedMachines
<1>8. LiveMachines' = LiveMachines \cup {i}
    BY <1>3 DEF LiveMachines, InModel
<1>9. UNCHANGED <<GuardedObjects, ReleasedObjects>> /\ cur \in GuardedObjects
    BY <1>2 DEF GuardedObjects, ReleasedObjects
<1> QED
    BY <1>2, <1>6, <1>7, <1>8, <1>9
    DEF Ownership!Acquire, GuardedObjects, ReleasedObjects, IssuedMachines, LiveMachines

\* A machine that leaves the model dies; nothing else that Juju does is seen.
LEMMA JujuDies ==
    ASSUME AllInv, [Next]_vars, Juju
    PROVE  \/ \E i \in MachineIDs : Ownership!Die(i)
           \/ UNCHANGED <<GuardedObjects, ReleasedObjects, IssuedMachines, LiveMachines>>
<1>1. /\ Inv /\ PlacedInv /\ Unplaced /\ mstate \in [MachineIDs -> Machines]
    BY DEF AllInv, SafetyInv, CopiesInv, Inv, TypeOK, JujuTyped
<1>2. /\ UNCHANGED <<stored, creator>>
      /\ \A i \in MachineIDs : MachineChange(i)
    BY <1>1, JujuChange
<1>3. UNCHANGED <<GuardedObjects, ReleasedObjects, IssuedMachines>>
    BY <1>2 DEF GuardedObjects, ReleasedObjects, IssuedMachines
<1>4. ASSUME NEW i \in MachineIDs, MachineStops(i) \/ MachineLost(i)
      PROVE  Ownership!Die(i)
    <2>1. InModel(i) /\ mstate' = [mstate EXCEPT ![i] = "gone"]
        BY <1>4 DEF MachineStops, MachineLost, InModel
    <2>2. LiveMachines' = LiveMachines \ {i} /\ i \in LiveMachines
        BY <1>1, <2>1 DEF LiveMachines, InModel
    <2> QED
        BY <1>3, <2>2 DEF Ownership!Die, GuardedObjects, ReleasedObjects, IssuedMachines,
            LiveMachines
<1>5. CASE \A i \in MachineIDs : ~MachineStops(i) /\ ~MachineLost(i)
    <2>1. PICK i \in MachineIDs :
              \/ MachineStarts(i) \/ NodeRegisters(i) \/ CloudSetsProviderID(i)
              \/ \E a \in Apps : \/ UnitSettles(i, a) \/ UnitFails(i, a)
                                 \/ UnitResolved(i, a) \/ UnitRemoved(i, a)
        BY <1>5 DEF Juju
    <2>2. CASE MachineStarts(i)
        BY <1>1, <1>3, <2>2 DEF MachineStarts, LiveMachines, InModel
    <2>3. ASSUME NEW a \in Apps, UnitRemoved(i, a)
          PROVE  UNCHANGED LiveMachines
        <3>1. mstate[i] \notin {"absent", "stopping", "gone"}
            BY <1>1, <2>3 DEF UnitRemoved, PlacedInv, Unplaced
        <3>2. InModel(i)
            BY <1>1, <3>1 DEF Machines, InModel
        <3>3. mstate' = mstate \/ mstate' = [mstate EXCEPT ![i] = "stopping"]
            BY <2>3 DEF UnitRemoved
        <3> QED
            BY <1>1, <3>2, <3>3 DEF LiveMachines, InModel
    <2>4. CASE \/ NodeRegisters(i) \/ CloudSetsProviderID(i)
               \/ \E a \in Apps : UnitSettles(i, a) \/ UnitFails(i, a) \/ UnitResolved(i, a)
        <3>1. UNCHANGED mstate
            BY <2>4 DEF NodeRegisters, CloudSetsProviderID, UnitSettles, UnitFails,
                UnitResolved, juju
        <3> QED
            BY <1>3, <3>1 DEF LiveMachines, InModel
    <2> QED
        BY <1>3, <2>1, <2>2, <2>3, <2>4
<1> QED
    BY <1>4, <1>5

\* When an object leaves the API server its machine has died before.
LEMMA DepartureReleases ==
    ASSUME AllInv, Inv', NothingIsLost, [Next]_vars, UNCHANGED <<mstate, creator>>,
           NEW o \in Objects, stored[o].present, ~stored'[o].present,
           \A p \in Objects \ {o} : stored'[p] = stored[p]
    PROVE  Ownership!Release(o)
<1>1. /\ Inv /\ CopiesInv /\ Edits /\ StaleInv /\ ReleaseInv /\ StoredChange(o)
      /\ Sound(stored'[o])
    <2>1. CopiesInv'
        BY CopiesNext DEF AllInv
    <2> QED
        BY <2>1, StoredChanges DEF AllInv, SafetyInv, CopiesInv, CopyInv, Copies, CopiesOf
<1>2. ASSUME NEW i \in MachineIDs, creator[i] = o
      PROVE  ~InModel(i)
    <2>1. /\ stored[o].finalizer
          /\ \/ stored[o].machineID = i
             \/ cur = o /\ pc = "patch" /\ mem.machineID = i /\ before.machineID = None
        BY <1>2, MachineOfObject
    <2>2. Releases(o)
        BY <1>1, <2>1 DEF StoredChange
    <2>3. i # None
        BY NoneIsNew
    <2>4. mem.machineID = before.machineID
        BY <1>1, <2>2 DEF Edits, Releases
    <2>5. stored[o].machineID = i
        BY <2>1, <2>3, <2>4
    <2>6. mstate[i] = "gone"
        BY <1>1, <2>3, <2>5, NeverLost, ReleasesGuarded
    <2> QED
        BY <2>6 DEF InModel
<1>3. IssuedMachines[o] \cap LiveMachines = {}
    BY <1>2 DEF IssuedMachines, LiveMachines
<1>4. UNCHANGED <<IssuedMachines, LiveMachines>>
    BY DEF IssuedMachines, LiveMachines, InModel
<1>5. GuardedObjects' = GuardedObjects \ {o}
    <2>1. ~stored'[o].finalizer
        BY <1>1 DEF Sound
    <2> QED
        BY <2>1 DEF GuardedObjects
<1>6. ReleasedObjects' = ReleasedObjects \cup {o} /\ o \notin ReleasedObjects
    BY DEF ReleasedObjects
<1> QED
    BY <1>3, <1>4, <1>5, <1>6 DEF Ownership!Release, GuardedObjects, ReleasedObjects,
        IssuedMachines, LiveMachines

\* What happens to one object in the API server guards it, releases it or is not seen.
LEMMA StoredMaps ==
    ASSUME AllInv, Inv', NothingIsLost, [Next]_vars, UNCHANGED <<mstate, creator>>,
           NEW o \in Objects, \A p \in Objects \ {o} : stored'[p] = stored[p]
    PROVE  \/ Ownership!Guard(o) \/ Ownership!Release(o)
           \/ UNCHANGED <<GuardedObjects, ReleasedObjects, IssuedMachines, LiveMachines>>
<1>1. /\ StoredChange(o) /\ Sound(stored[o]) /\ Sound(stored'[o])
      /\ stored[o] \in Object /\ stored'[o] \in Object
    <2>1. CopiesInv'
        BY CopiesNext DEF AllInv
    <2> QED
        BY <2>1, StoredChanges DEF AllInv, CopiesInv, CopyInv, Copies, CopiesOf, Inv,
            TypeOK, KubernetesTyped
<1>2. /\ stored'[o].present => stored[o].present
      /\ stored'[o].present /\ stored[o].finalizer => stored'[o].finalizer
    BY <1>1 DEF StoredChange, Older
<1>3. UNCHANGED <<IssuedMachines, LiveMachines>>
    BY DEF IssuedMachines, LiveMachines, InModel
<1>4. CASE stored[o].present /\ ~stored'[o].present
    BY <1>4, DepartureReleases
<1>5. CASE ~stored[o].present
    <2>1. /\ ~stored'[o].present /\ ~stored[o].finalizer /\ ~stored'[o].finalizer
        BY <1>1, <1>2, <1>5 DEF Sound
    <2> QED
        BY <1>3, <1>5, <2>1 DEF GuardedObjects, ReleasedObjects
<1>6. CASE stored'[o].present /\ stored'[o].finalizer = stored[o].finalizer
    BY <1>2, <1>3, <1>6 DEF GuardedObjects, ReleasedObjects
<1>7. CASE stored'[o].present /\ stored'[o].finalizer # stored[o].finalizer
    <2>1. ~stored[o].finalizer /\ stored'[o].finalizer /\ stored[o].present
        BY <1>1, <1>2, <1>7, FieldsTyped
    <2>2. GuardedObjects' = GuardedObjects \cup {o} /\ o \notin GuardedObjects
        BY <2>1 DEF GuardedObjects
    <2>3. UNCHANGED ReleasedObjects /\ o \notin ReleasedObjects
        BY <1>7, <2>1 DEF ReleasedObjects
    <2> QED
        BY <1>3, <2>2, <2>3 DEF Ownership!Guard, GuardedObjects, ReleasedObjects,
            IssuedMachines, LiveMachines
<1> QED
    BY <1>1, <1>4, <1>5, <1>6, <1>7

LEMMA StepMaps ==
    ASSUME AllInv, Inv', NothingIsLost, [Next]_vars
    PROVE  Ownership!Next \/ UNCHANGED Ownership!vars
<1> USE DEF AllInv
<1>1. CASE AddMachine
    BY <1>1, AddMachineAcquires DEF Ownership!Next
<1>2. CASE Juju
    BY <1>2, JujuDies DEF Ownership!Next, Ownership!vars, GuardedObjects,
        ReleasedObjects, IssuedMachines, LiveMachines
<1>3. CASE ~AddMachine /\ ~Juju
    <2>1. UNCHANGED <<mstate, creator>>
        BY <1>3, JujuKept, WorkerChanges
    <2>2. stored \in [Objects -> Object]
        BY DEF Inv, TypeOK, KubernetesTyped
    <2>3. CASE UNCHANGED stored
        BY <2>1, <2>3 DEF Ownership!vars, InModel
    <2>4. ASSUME NEW o \in Objects, \A p \in Objects \ {o} : stored'[p] = stored[p]
          PROVE  Ownership!Next \/ UNCHANGED Ownership!vars
        BY <2>1, <2>4, StoredMaps DEF Ownership!Next, Ownership!vars, GuardedObjects,
            ReleasedObjects, IssuedMachines, LiveMachines
    <2>5. PatchSpec \/ PatchStatus => /\ cur \in Objects
                                      /\ \A p \in Objects \ {cur} : stored'[p] = stored[p]
        BY <2>2 DEF PatchSpec, PatchStatus, Inv, HasObject
    <2>6. \A o \in Objects : Delete(o) \/ SetOwner(o) =>
              \A p \in Objects \ {o} : stored'[p] = stored[p]
        BY <2>2 DEF Delete, SetOwner
    <2> QED
        BY <2>3, <2>4, <2>5, <2>6, StoredKept
<1> QED
    BY <1>1, <1>2, <1>3

\* A machine is acquired only for a guarded object, at most once, and an object is
\* released only after its machine has died.
THEOREM OwnershipImplemented ==
    ASSUME NothingIsLost PROVE Spec => ImplementsOwnership
<1>1. Init => Ownership!Init
    <2> SUFFICES ASSUME Init PROVE Ownership!Init
        OBVIOUS
    <2>1. Created.present /\ ~Created.finalizer
        BY ConstantsTyped DEF Created, Absent
    <2>2. \A o \in Objects : stored[o] = Created
        BY DEF Init
    <2>3. \A i \in MachineIDs : creator[i] = None /\ ~InModel(i)
        BY DEF Init, InModel
    <2> QED
        BY <2>1, <2>2, <2>3, NoneIsNew DEF Ownership!Init
<1>2. AllInv /\ AllInv' /\ [Next]_vars => [Ownership!Next]_(Ownership!vars)
    BY StepMaps DEF AllInv
<1>3. Spec => []AllInv
    BY SafetyInvariance DEF AllInv
<1> QED
    BY <1>1, <1>2, <1>3, PTL DEF Spec, ImplementsOwnership, Ownership!Spec
================================================================================
