--------------------------- MODULE JujuMachineProofs ---------------------------
(***************************************************************************)
(* Theorems about JujuMachine, for any number of objects, applications and *)
(* machines and for any budget of faults.                                  *)
(***************************************************************************)
EXTENDS JujuMachine, TLAPS

(***************************************************************************)
(* The inductive invariant.  The types alone are not inductive: that a     *)
(* request names a machine, and that the pass has an object, are facts     *)
(* about the worker's position.  That AddUnit finds no unit is what makes  *)
(* OneUnitPerApp inductive: only the worker adds units.                    *)
(***************************************************************************)
HoldsMachine == {"getMachineForDeletion", "listUnits", "destroyUnits",
                 "getMachine", "applications", "addUnit", "matchNode",
                 "updateNode", "addresses"}
HasObject   == pc # "idle" => cur \in Objects
HasMachine  == pc \in HoldsMachine => ID \in MachineIDs
AddsMissing == pc = "addUnit" => pass.app \in Apps /\ units[ID][pass.app] = "none"

Inv == TypeOK /\ HasObject /\ HasMachine /\ AddsMissing /\ OneUnitPerApp

K8sInv    == KubernetesTyped
WorkerInv == WorkerTyped /\ HasObject /\ HasMachine
JujuInv   == JujuTyped /\ OneUnitPerApp

--------------------------------------------------------------------------------
(* Facts about the operators the actions are built from.                   *)

\* The records the worker starts and ends a pass with are well formed.
LEMMA ConstantsTyped ==
    Absent \in Object /\ Created \in Object /\ NoPass \in Pass
BY DEF Absent, Created, NoPass, Object, Pass

\* Every field the worker or the API server writes keeps an object well formed.
LEMMA ObjectUpdates ==
    ASSUME NEW x \in Object, NEW b \in BOOLEAN,
           NEW i \in MachineIDs \cup {None}, NEW p \in ProviderIDs \cup {None}
    PROVE  /\ [x EXCEPT !.finalizer = b] \in Object
           /\ [x EXCEPT !.deleted = b] \in Object
           /\ [x EXCEPT !.owned = b] \in Object
           /\ [x EXCEPT !.ready = b] \in Object
           /\ [x EXCEPT !.machineID = i] \in Object
           /\ [x EXCEPT !.providerID = p] \in Object
BY DEF Object

\* Remembering whether the bootstrap data exists keeps the pass well formed.
LEMMA BootstrappedTyped ==
    ASSUME NEW x \in Pass, NEW b \in BOOLEAN
    PROVE  [x EXCEPT !.bootstrapped = b] \in Pass
BY DEF Pass

\* Spending a fault leaves a budget.
LEMMA SpendTyped ==
    ASSUME BudgetTyped, NEW kind \in FaultKinds, Spend(kind)
    PROVE  BudgetTyped'
BY DEF BudgetTyped, Spend

\* A return statement leads to the deferred patch, with an object in hand.
LEMMA ReturnInv ==
    ASSUME WorkerInv, pc # "idle", NEW object \in Object, NEW again \in BOOLEAN,
           Return(object, again)
    PROVE  WorkerInv' /\ pc' = "patch"
BY ConstantsTyped DEF WorkerInv, WorkerTyped, HasObject, HasMachine, Return,
                      HoldsMachine, Steps

\* The same step for a reply that is lost.
LEMMA ReplyLostInv ==
    ASSUME WorkerInv, BudgetTyped, pc # "idle", ReplyLost
    PROVE  WorkerInv' /\ BudgetTyped' /\ pc' = "patch"
<1>1. Spend("reply") /\ Return(mem, TRUE) /\ mem \in Object
    BY DEF ReplyLost, WorkerInv, WorkerTyped
<1> QED
    BY <1>1, ReturnInv, SpendTyped DEF FaultKinds

\* Moving on within a pass keeps the object and the machine.
LEMMA GotoInv ==
    ASSUME WorkerInv, pc # "idle", NEW step \in Steps, Goto(step),
           step \in HoldsMachine => ID \in MachineIDs
    PROVE  WorkerInv' /\ pc' = step
BY DEF WorkerInv, WorkerTyped, HasObject, HasMachine, Goto, ID

\* The end of a pass puts back only the object of that pass.
LEMMA EndPassInv ==
    ASSUME WorkerInv, queue \subseteq Objects, pc # "idle",
           NEW again \in BOOLEAN, EndPass(again)
    PROVE  WorkerInv' /\ queue' \subseteq Objects /\ pc' = "idle"
BY ConstantsTyped DEF WorkerInv, WorkerTyped, HasObject, HasMachine, EndPass,
                      HoldsMachine, Steps

\* What a step leaves alone stays well formed.
LEMMA Frames ==
    /\ K8sInv /\ UNCHANGED <<k8s, env>> => K8sInv'
    /\ JujuInv /\ UNCHANGED <<juju, node>> => JujuInv'
    /\ WorkerInv /\ UNCHANGED local => WorkerInv'
    /\ BudgetTyped /\ UNCHANGED budget => BudgetTyped'
BY DEF K8sInv, KubernetesTyped, k8s, env, JujuInv, JujuTyped, OneUnitPerApp,
       juju, WorkerInv, WorkerTyped, HasObject, HasMachine, ID, local, BudgetTyped

\* The parts make up the invariant.
LEMMA Parts ==
    Inv <=> K8sInv /\ WorkerInv /\ JujuInv /\ BudgetTyped /\ AddsMissing
BY DEF Inv, TypeOK, K8sInv, WorkerInv, JujuInv

\* A step after which the worker is not about to add a unit.
LEMMA PartsNext ==
    K8sInv' /\ WorkerInv' /\ JujuInv' /\ BudgetTyped' /\ pc' # "addUnit" => Inv'
BY DEF Inv, TypeOK, K8sInv, WorkerInv, JujuInv, AddsMissing

--------------------------------------------------------------------------------
(* The steps of the worker.                                                *)

\* A step that only returns keeps the invariant.
LEMMA ReturnStep ==
    ASSUME Inv, pc # "idle", NEW object \in Object, NEW again \in BOOLEAN,
           Return(object, again), UNCHANGED <<k8s, env, juju, node>>, BudgetTyped'
    PROVE  Inv'
<1>1. WorkerInv' /\ pc' = "patch"
    BY Parts, ReturnInv
<1>2. K8sInv' /\ JujuInv'
    BY Parts, Frames
<1> QED
    BY <1>1, <1>2, PartsNext

\* A step that only moves on, without being about to add a unit.
LEMMA GotoStep ==
    ASSUME Inv, pc # "idle", NEW step \in Steps \ {"addUnit"}, Goto(step),
           step \in HoldsMachine => ID \in MachineIDs,
           UNCHANGED <<k8s, env, juju, node, budget>>
    PROVE  Inv'
<1>1. WorkerInv' /\ pc' = step
    BY Parts, GotoInv
<1>2. K8sInv' /\ JujuInv' /\ BudgetTyped'
    BY Parts, Frames
<1> QED
    BY <1>1, <1>2, PartsNext

\* Every step that does nothing but return keeps the invariant.
LEMMA ReturningActions ==
    ASSUME Inv,
           \/ CallFails \/ AddFinalizer \/ ReleaseWithoutMachine
           \/ ReleaseAfterMachine \/ UnitsRequested \/ MachineNotReady
           \/ AppsNotReady \/ NodeMissing \/ UpdateNodeFails \/ AddressesRead
           \/ MachineVanished
    PROVE  Inv'
<1>1. BudgetTyped /\ mem \in Object
    BY DEF Inv, TypeOK, WorkerTyped
<1>2. [mem EXCEPT !.finalizer = TRUE] \in Object /\ [mem EXCEPT !.finalizer = FALSE] \in Object
    BY <1>1, ObjectUpdates
<1>3. CASE CallFails
    <2>1. BudgetTyped'
        BY <1>1, <1>3, SpendTyped, Frames DEF CallFails, FaultKinds
    <2> QED
        BY <1>1, <1>3, <2>1, ReturnStep DEF CallFails, JujuCalls
<1>4. CASE UpdateNodeFails
    <2>1. BudgetTyped'
        BY <1>1, <1>4, SpendTyped DEF UpdateNodeFails, FaultKinds
    <2> QED
        BY <1>1, <1>4, <2>1, ReturnStep DEF UpdateNodeFails
<1>5. UNCHANGED budget => BudgetTyped'
    BY <1>1, Frames
<1>6. CASE AddFinalizer
    BY <1>2, <1>5, <1>6, ReturnStep DEF AddFinalizer
<1>7. CASE ReleaseWithoutMachine
    BY <1>2, <1>5, <1>7, ReturnStep DEF ReleaseWithoutMachine
<1>8. CASE ReleaseAfterMachine
    BY <1>2, <1>5, <1>8, ReturnStep DEF ReleaseAfterMachine, Call
<1>9. CASE UnitsRequested \/ AppsNotReady
    BY <1>1, <1>5, <1>9, ReturnStep DEF UnitsRequested, AppsNotReady
<1>10. CASE MachineNotReady
    BY <1>1, <1>5, <1>10, ReturnStep DEF MachineNotReady, Call
<1>11. CASE NodeMissing \/ AddressesRead
    BY <1>1, <1>5, <1>11, ReturnStep DEF NodeMissing, AddressesRead, Call
<1>12. CASE MachineVanished
    BY <1>1, <1>5, <1>12, ReturnStep DEF MachineVanished
<1> QED
    BY <1>3, <1>4, <1>6, <1>7, <1>8, <1>9, <1>10, <1>11, <1>12

\* Every step that does nothing but move on keeps the invariant.
LEMMA MovingActions ==
    ASSUME Inv, StartDeletion \/ MachineRemains \/ StartProvisioning \/ GetMachineNil
    PROVE  Inv'
<1>1. ID \in MachineIDs \cup {None} /\ HasMachine
    BY DEF Inv, TypeOK, WorkerTyped, Object, ID
<1>2. CASE StartDeletion
    BY <1>1, <1>2, GotoStep DEF StartDeletion, Steps, JujuCalls
<1>3. CASE MachineRemains
    BY <1>1, <1>3, GotoStep DEF MachineRemains, Call, Steps, JujuCalls, HasMachine, HoldsMachine
<1>4. CASE StartProvisioning
    <2>1. CASE ID = None
        BY <1>4, <2>1, GotoStep DEF StartProvisioning, Steps, JujuCalls, HoldsMachine
    <2>2. CASE ID # None
        BY <1>1, <1>4, <2>2, GotoStep DEF StartProvisioning, Steps, JujuCalls
    <2> QED
        BY <2>1, <2>2
<1>5. CASE GetMachineNil
    BY <1>5, GotoStep DEF GetMachineNil, Call, Steps, HoldsMachine
<1> QED
    BY <1>2, <1>3, <1>4, <1>5

\* A step that sets only the pass's own variables, and has its object.
LEMMA LocalStep ==
    ASSUME Inv, WorkerInv', pc' # "addUnit", UNCHANGED <<k8s, env, juju, node, budget>>
    PROVE  Inv'
<1>1. K8sInv' /\ JujuInv' /\ BudgetTyped'
    BY Parts, Frames
<1> QED
    BY <1>1, PartsNext

\* The steps that read Juju or the node into the pass keep the invariant.
LEMMA ReadingActions ==
    ASSUME Inv,
           \/ ListUnits \/ MachineStarted \/ AppsReady \/ JujuProvider
           \/ CloudProvider \/ \E a \in Apps : UnitFound(a) \/ UnitMissing(a)
    PROVE  Inv'
<1> USE DEF WorkerInv
<1>1. WorkerTyped /\ HasObject /\ HasMachine /\ JujuTyped /\ BudgetTyped
    BY Parts DEF JujuInv
<1>2. CASE ListUnits
    <2>1. ASSUME NEW v \in Victims(ID)
          PROVE  v \in Apps \X BOOLEAN
        <3>1. PICK a \in Apps : v = <<a, units[ID][a] = "error">>
            BY Zenon DEF Victims
        <3>2. (units[ID][a] = "error") \in BOOLEAN
            OBVIOUS
        <3> QED
            BY Zenon, <3>1, <3>2
    <2>2. pass' \in Pass
        <3>1. Victims(ID) \in SUBSET (Apps \X BOOLEAN)
            BY <2>1
        <3> QED
            BY <1>1, <1>2, <3>1 DEF ListUnits, WorkerTyped, Pass
    <2>3. WorkerInv'
        BY <1>1, <1>2, <2>2 DEF ListUnits, Call, WorkerTyped, HasObject, HasMachine,
                                 HoldsMachine, Steps, JujuCalls, ID
    <2> QED
        BY <1>2, <2>3, LocalStep DEF ListUnits
<1>3. CASE MachineStarted
    <2>1. pass' \in Pass
        BY <1>1, <1>3 DEF MachineStarted, WorkerTyped, Pass
    <2>2. WorkerInv'
        BY <1>1, <1>3, <2>1 DEF MachineStarted, Call, WorkerTyped, HasObject, HasMachine,
                                 HoldsMachine, Steps, JujuCalls, ID
    <2> QED
        BY <1>3, <2>2, LocalStep DEF MachineStarted
<1>4. CASE AppsReady
    <2>1. [mem EXCEPT !.ready = TRUE] \in Object
        BY <1>1, ObjectUpdates DEF WorkerTyped
    <2>2. [mem EXCEPT !.ready = TRUE].machineID = ID
        BY <1>1 DEF WorkerTyped, Object, ID
    <2>3. CASE before.providerID = None
        BY <1>1, <1>4, <2>3, GotoStep DEF AppsReady, Steps, JujuCalls, HasMachine, HoldsMachine
    <2>4. CASE before.providerID # None
        <3>1. WorkerInv' /\ pc' = "addresses"
            BY <1>1, <1>4, <2>1, <2>2, <2>4 DEF AppsReady, MarkReady, WorkerTyped,
                HasObject, HasMachine, HoldsMachine, Steps, JujuCalls, ID
        <3> QED
            BY <1>4, <3>1, LocalStep DEF AppsReady
    <2> QED
        BY <2>3, <2>4
<1>5. CASE JujuProvider
    <2>1. ID \in MachineIDs
        BY <1>1, <1>5 DEF JujuProvider, NodeFound, Call, HasMachine, HoldsMachine
    <2>2. [scheme |-> "juju", machine |-> ID] \in ProviderIDs
        BY <2>1 DEF ProviderIDs
    <2>3. mem' \in Object /\ mem'.machineID = ID
        BY <1>1, <1>5, <2>2, ObjectUpdates DEF JujuProvider, SetProviderID, WorkerTyped, Object, ID
    <2>4. WorkerInv' /\ pc' = "updateNode"
        BY <1>1, <1>5, <2>1, <2>3 DEF JujuProvider, NodeFound, Call, SetProviderID,
            WorkerTyped, HasObject, HasMachine, HoldsMachine, Steps, ID
    <2> QED
        BY <1>5, <2>4, LocalStep DEF JujuProvider
<1>6. CASE CloudProvider
    <2>1. ID \in MachineIDs
        BY <1>1, <1>6 DEF CloudProvider, NodeFound, Call, HasMachine, HoldsMachine
    <2>2. node[ID].providerID \in ProviderIDs \cup {None}
        BY <1>1, <2>1 DEF JujuTyped, Node
    <2>3. [mem EXCEPT !.providerID = node[ID].providerID] \in Object
        BY <1>1, <2>2, ObjectUpdates DEF WorkerTyped
    <2>4. mem' \in Object
        BY <1>6, <2>3, ObjectUpdates DEF CloudProvider, MarkReady
    <2>5. mem'.machineID = ID
        BY <1>1, <1>6 DEF CloudProvider, MarkReady, WorkerTyped, Object, ID
    <2>6. WorkerInv' /\ pc' = "addresses"
        BY <1>1, <1>6, <2>1, <2>4, <2>5 DEF CloudProvider, NodeFound, Call, MarkReady,
            WorkerTyped, HasObject, HasMachine, HoldsMachine, Steps, JujuCalls, ID
    <2> QED
        BY <1>6, <2>6, LocalStep DEF CloudProvider
<1>7. ASSUME NEW a \in Apps, UnitFound(a)
      PROVE  Inv'
    <2>1. pass' \in Pass
        BY <1>1, <1>7 DEF UnitFound, WorkerTyped, Pass
    <2>2. WorkerInv' /\ pc' = "applications"
        BY <1>1, <1>7, <2>1 DEF UnitFound, Call, WorkerTyped, HasObject, HasMachine, ID
    <2> QED
        BY <1>7, <2>2, LocalStep DEF UnitFound
<1>8. ASSUME NEW a \in Apps, UnitMissing(a)
      PROVE  Inv'
    <2>1. pass' \in Pass /\ pass'.app = a
        BY <1>1, <1>8 DEF UnitMissing, WorkerTyped, Pass
    <2>2. WorkerInv' /\ ID' = ID /\ UNCHANGED units
        BY <1>1, <1>8, <2>1 DEF UnitMissing, Call, WorkerTyped, HasObject, HasMachine,
                                 HoldsMachine, Steps, JujuCalls, ID, juju
    <2>3. K8sInv' /\ JujuInv' /\ BudgetTyped'
        BY <1>8, Parts, Frames DEF UnitMissing
    <2>4. AddsMissing'
        BY <1>8, <2>1, <2>2 DEF UnitMissing, AddsMissing
    <2> QED
        BY <2>2, <2>3, <2>4, Parts DEF Inv, TypeOK, K8sInv, JujuInv
<1> QED
    BY <1>2, <1>3, <1>4, <1>5, <1>6, <1>7, <1>8

\* The steps that change Juju or the node keep the invariant.
LEMMA EffectActions ==
    ASSUME Inv,
           \/ AddMachine \/ AddUnit \/ UpdateNode
           \/ \E a \in Apps, force \in BOOLEAN : DestroyUnit(a, force)
    PROVE  Inv'
<1>1. WorkerInv /\ K8sInv /\ JujuInv /\ BudgetTyped /\ AddsMissing
    BY Parts
<1>2. mem \in Object /\ cur \in Objects \cup {None} /\ JujuTyped /\ dup = {}
    BY <1>1 DEF WorkerInv, WorkerTyped, JujuInv, OneUnitPerApp
<1>3. CASE AddMachine
    <2>1. PICK m \in MachineIDs :
              /\ mstate' = [mstate EXCEPT ![m] = "pending"]
              /\ creator' = [creator EXCEPT ![m] = cur]
              /\ \/ Return([mem EXCEPT !.machineID = m], TRUE) /\ UNCHANGED budget
                 \/ ReplyLost
        BY <1>3 DEF AddMachine
    <2>2. [mem EXCEPT !.machineID = m] \in Object
        BY <1>2, ObjectUpdates
    <2>3. WorkerInv' /\ BudgetTyped' /\ pc' = "patch"
        BY <1>1, <1>3, <2>1, <2>2, ReturnInv, ReplyLostInv, Frames DEF AddMachine, Call
    <2>4. JujuInv'
        BY <1>2, <1>3, <2>1 DEF AddMachine, JujuInv, JujuTyped, OneUnitPerApp, Machines
    <2>5. K8sInv'
        BY <1>1, <1>3, Frames DEF AddMachine
    <2> QED
        BY <2>3, <2>4, <2>5, PartsNext
<1>4. CASE AddUnit
    <2>1. ID \in MachineIDs /\ pass.app \in Apps /\ units[ID][pass.app] = "none"
        BY <1>1, <1>4 DEF AddUnit, Call, AddsMissing, WorkerInv, HasMachine, HoldsMachine
    <2>2. JujuInv'
        BY <1>2, <1>4, <2>1 DEF AddUnit, JujuInv, JujuTyped, OneUnitPerApp, UnitStates
    <2>3. K8sInv'
        BY <1>1, <1>4, Frames DEF AddUnit
    <2>4. CASE ReplyLost
        <3>1. WorkerInv' /\ BudgetTyped' /\ pc' = "patch"
            BY <1>1, <1>4, <2>4, ReplyLostInv DEF AddUnit, Call
        <3> QED
            BY <2>2, <2>3, <3>1, PartsNext
    <2>5. CASE /\ pass' = [pass EXCEPT !.app = None] /\ pc' = "applications"
               /\ UNCHANGED <<cur, before, mem, requeue, budget>>
        <3>1. pass' \in Pass
            BY <1>1, <2>5 DEF WorkerInv, WorkerTyped, Pass
        <3>2. WorkerInv'
            BY <1>1, <1>4, <2>1, <2>5, <3>1 DEF AddUnit, Call, WorkerInv, WorkerTyped,
                HasObject, HasMachine, Steps, JujuCalls, ID
        <3> QED
            BY <1>1, <2>2, <2>3, <2>5, <3>2, Frames, PartsNext
    <2> QED
        BY <1>4, <2>4, <2>5 DEF AddUnit
<1>5. CASE UpdateNode
    <2>1. ID \in MachineIDs
        BY <1>1, <1>5 DEF UpdateNode, WorkerInv, HasMachine, HoldsMachine
    <2>2. mem.providerID \in ProviderIDs \cup {None}
        BY <1>2 DEF Object
    <2>3. JujuInv'
        BY <1>2, <1>5, <2>1, <2>2 DEF UpdateNode, JujuInv, JujuTyped, OneUnitPerApp, Node, juju
    <2>4. mem' \in Object /\ mem'.machineID = ID
        BY <1>2, <1>5, ObjectUpdates DEF UpdateNode, MarkReady, Object, ID
    <2>5. WorkerInv' /\ pc' = "addresses"
        BY <1>1, <1>5, <2>1, <2>4 DEF UpdateNode, MarkReady, WorkerInv, WorkerTyped,
            HasObject, HasMachine, Steps, JujuCalls, ID
    <2>6. K8sInv' /\ BudgetTyped'
        BY <1>1, <1>5, Frames DEF UpdateNode
    <2> QED
        BY <2>3, <2>5, <2>6, PartsNext
<1>6. ASSUME NEW a \in Apps, NEW force \in BOOLEAN, DestroyUnit(a, force)
      PROVE  Inv'
    <2>1. ID \in MachineIDs
        BY <1>1, <1>6 DEF DestroyUnit, Call, WorkerInv, HasMachine, HoldsMachine
    <2>2. JujuInv'
        BY <1>2, <1>6, <2>1 DEF DestroyUnit, JujuInv, JujuTyped, OneUnitPerApp, UnitStates
    <2>3. K8sInv'
        BY <1>1, <1>6, Frames DEF DestroyUnit
    <2>4. CASE ReplyLost
        <3>1. WorkerInv' /\ BudgetTyped' /\ pc' = "patch"
            BY <1>1, <1>6, <2>4, ReplyLostInv DEF DestroyUnit, Call
        <3> QED
            BY <2>2, <2>3, <3>1, PartsNext
    <2>5. CASE /\ pass' = [pass EXCEPT !.victims = @ \ {<<a, force>>}]
               /\ UNCHANGED <<pc, cur, before, mem, requeue, budget>>
        <3>1. pass' \in Pass
            BY <1>1, <2>5 DEF WorkerInv, WorkerTyped, Pass
        <3>2. WorkerInv' /\ pc' = "destroyUnits"
            BY <1>1, <1>6, <2>1, <2>5, <3>1 DEF DestroyUnit, Call, WorkerInv, WorkerTyped,
                HasObject, HasMachine, ID
        <3> QED
            BY <1>1, <2>2, <2>3, <2>5, <3>2, Frames, PartsNext
    <2> QED
        BY <1>6, <2>4, <2>5 DEF DestroyUnit
<1> QED
    BY <1>3, <1>4, <1>5, <1>6

\* Taking an object from the queue, and the steps before the patch helper.
LEMMA BeginActions ==
    ASSUME Inv,
           \/ \E o \in Objects : Forget(o) \/ Begin(o)
           \/ WaitForOwner \/ WaitForCluster \/ ConnectToModel
    PROVE  Inv'
<1>1. WorkerInv /\ K8sInv /\ JujuInv /\ BudgetTyped
    BY Parts
<1>2. ASSUME NEW o \in Objects, ReadFromCache(o)
      PROVE  BudgetTyped'
    BY <1>1, <1>2, SpendTyped, Frames DEF ReadFromCache, FaultKinds
<1>3. ASSUME NEW o \in Objects, Forget(o)
      PROVE  Inv'
    <2>1. K8sInv'
        BY <1>1, <1>3 DEF Forget, K8sInv, KubernetesTyped, env
    <2>2. WorkerInv' /\ JujuInv' /\ pc' = "idle"
        BY <1>1, <1>3, Frames DEF Forget, local
    <2> QED
        BY <1>2, <1>3, <2>1, <2>2, PartsNext DEF Forget
<1>4. ASSUME NEW o \in Objects, Begin(o)
      PROVE  Inv'
    <2>1. K8sInv'
        BY <1>1, <1>4 DEF Begin, K8sInv, KubernetesTyped, env
    <2>2. pass' \in Pass
        <3>1. (o \in bootstrapped) \in BOOLEAN
            OBVIOUS
        <3>2. [NoPass EXCEPT !.bootstrapped = o \in bootstrapped] \in Pass
            BY <3>1, ConstantsTyped, BootstrappedTyped, Zenon
        <3>3. pass' = [NoPass EXCEPT !.bootstrapped = o \in bootstrapped]
            BY <1>4, Zenon DEF Begin
        <3> QED
            BY <3>2, <3>3, Zenon
    <2>3. cache[o] \in Object
        BY <1>1 DEF K8sInv, KubernetesTyped
    <2>4. WorkerInv' /\ pc' = "prerequisites"
        BY <1>1, <1>4, <2>2, <2>3 DEF Begin, WorkerInv, WorkerTyped, HasObject,
            HasMachine, HoldsMachine, Steps
    <2>5. JujuInv'
        BY <1>1, <1>4, Frames DEF Begin
    <2> QED
        BY <1>2, <1>4, <2>1, <2>4, <2>5, PartsNext DEF Begin
<1>5. CASE WaitForOwner \/ WaitForCluster
    <2>1. WorkerInv' /\ queue' \subseteq Objects /\ pc' = "idle"
        BY <1>1, <1>5, EndPassInv DEF WaitForOwner, WaitForCluster, K8sInv, KubernetesTyped
    <2>2. K8sInv'
        BY <1>1, <1>5, <2>1 DEF WaitForOwner, WaitForCluster, K8sInv, KubernetesTyped, env
    <2>3. JujuInv' /\ BudgetTyped'
        BY <1>1, <1>5, Frames DEF WaitForOwner, WaitForCluster
    <2> QED
        BY <2>1, <2>2, <2>3, PartsNext
<1>6. CASE ConnectToModel
    <2>1. pass' \in Pass /\ BudgetTyped'
        <3>1. PICK known \in BOOLEAN :
                  /\ IF known \/ "model" \notin provided THEN UNCHANGED budget ELSE Spend("call")
                  /\ pass' = [pass EXCEPT !.modelKnown = known]
            BY <1>6 DEF ConnectToModel
        <3>2. BudgetTyped'
            BY <1>1, <3>1, SpendTyped, Frames DEF FaultKinds
        <3>3. pass \in Pass
            BY <1>1 DEF WorkerInv, WorkerTyped
        <3>4. pass' \in Pass
            BY <3>1, <3>3 DEF Pass
        <3> QED
            BY <3>2, <3>4
    <2>2. WorkerInv' /\ pc' = "branch"
        BY <1>1, <1>6, <2>1 DEF ConnectToModel, WorkerInv, WorkerTyped, HasObject,
            HasMachine, HoldsMachine, Steps, ID
    <2>3. K8sInv' /\ JujuInv'
        BY <1>1, <1>6, Frames DEF ConnectToModel
    <2> QED
        BY <2>1, <2>2, <2>3, PartsNext
<1> QED
    BY <1>3, <1>4, <1>5, <1>6

\* What a merge patch and the garbage collection of the API server produce.
LEMMA PatchTyped ==
    ASSUME WorkerTyped, NEW x \in Object
    PROVE  Collected(Merged(x)) \in Object
<1>1. Merged(x) \in Object
    BY DEF WorkerTyped, Merged, Object
<1> QED
    BY <1>1, ConstantsTyped DEF Collected

\* The deferred patch, and a restart.
LEMMA PatchActions ==
    ASSUME Inv, PatchSpec \/ PatchSpecFails \/ PatchStatus \/ PatchStatusFails \/ Restart
    PROVE  Inv'
<1>1. WorkerInv /\ K8sInv /\ JujuInv /\ BudgetTyped
    BY Parts
<1>2. WorkerTyped /\ KubernetesTyped /\ requeue \in BOOLEAN
    BY <1>1 DEF WorkerInv, WorkerTyped, K8sInv
<1>3. CASE PatchSpec
    <2>1. cur \in Objects /\ stored[cur] \in Object
        BY <1>1, <1>2, <1>3 DEF PatchSpec, WorkerInv, HasObject, KubernetesTyped
    <2>2. stored' \in [Objects -> Object]
        BY <1>2, <1>3, <2>1, PatchTyped DEF PatchSpec, KubernetesTyped
    <2>3. K8sInv'
        BY <1>2, <1>3, <2>2 DEF PatchSpec, K8sInv, KubernetesTyped, env
    <2>4. WorkerInv' /\ pc' = "patchStatus"
        BY <1>1, <1>3, GotoInv DEF PatchSpec, Steps, HoldsMachine
    <2>5. JujuInv' /\ BudgetTyped'
        BY <1>1, <1>3, Frames DEF PatchSpec
    <2> QED
        BY <2>3, <2>4, <2>5, PartsNext
<1>4. CASE PatchSpecFails
    <2>1. WorkerInv' /\ pc' = "patchStatus"
        BY <1>1, <1>4, GotoInv DEF PatchSpecFails, Steps, HoldsMachine
    <2>2. BudgetTyped'
        BY <1>1, <1>4, SpendTyped, Frames DEF PatchSpecFails, FaultKinds
    <2>3. K8sInv' /\ JujuInv'
        BY <1>1, <1>4, Frames DEF PatchSpecFails
    <2> QED
        BY <2>1, <2>2, <2>3, PartsNext
<1>5. CASE PatchStatus
    <2>1. WorkerInv' /\ queue' \subseteq Objects /\ pc' = "idle"
        BY <1>1, <1>2, <1>5, EndPassInv DEF PatchStatus, KubernetesTyped
    <2>2. stored' \in [Objects -> Object]
        <3>1. cur \in Objects /\ stored[cur] \in Object /\ mem.ready \in BOOLEAN
            BY <1>1, <1>2, <1>5 DEF PatchStatus, WorkerInv, WorkerTyped, HasObject,
                KubernetesTyped, Object
        <3>2. [stored[cur] EXCEPT !.ready = IF StatusChanged THEN mem.ready ELSE @] \in Object
            BY <3>1 DEF Object
        <3> QED
            BY <1>2, <1>5, <3>1, <3>2 DEF PatchStatus, KubernetesTyped
    <2>3. K8sInv'
        BY <1>2, <1>5, <2>1, <2>2 DEF PatchStatus, K8sInv, KubernetesTyped, env
    <2>4. JujuInv' /\ BudgetTyped'
        BY <1>1, <1>5, Frames DEF PatchStatus
    <2> QED
        BY <2>1, <2>3, <2>4, PartsNext
<1>6. CASE PatchStatusFails
    <2>1. WorkerInv' /\ queue' \subseteq Objects /\ pc' = "idle"
        BY <1>1, <1>2, <1>6, EndPassInv DEF PatchStatusFails, KubernetesTyped
    <2>2. K8sInv'
        BY <1>2, <1>6, <2>1 DEF PatchStatusFails, K8sInv, KubernetesTyped, env
    <2>3. BudgetTyped' /\ JujuInv'
        BY <1>1, <1>6, SpendTyped, Frames DEF PatchStatusFails, FaultKinds
    <2> QED
        BY <2>1, <2>2, <2>3, PartsNext
<1>7. CASE Restart
    <2>1. WorkerInv' /\ pc' = "idle"
        BY <1>7, ConstantsTyped DEF Restart, WorkerInv, WorkerTyped, HasObject,
            HasMachine, HoldsMachine, Steps
    <2>2. K8sInv'
        BY <1>2, <1>7 DEF Restart, K8sInv, KubernetesTyped, env
    <2>3. BudgetTyped' /\ JujuInv'
        BY <1>1, <1>7, SpendTyped, Frames DEF Restart, FaultKinds
    <2> QED
        BY <2>1, <2>2, <2>3, PartsNext
<1> QED
    BY <1>3, <1>4, <1>5, <1>6, <1>7

--------------------------------------------------------------------------------
(* The steps of everybody else.                                            *)

\* Steps that leave the worker and its view of the units alone.
LEMMA OutsideStep ==
    ASSUME Inv, UNCHANGED local, K8sInv', JujuTyped', BudgetTyped', dup' = dup,
           \A i \in MachineIDs, a \in Apps : units[i][a] = "none" => units'[i][a] = "none"
    PROVE  Inv'
<1>1. WorkerInv' /\ JujuInv' /\ ID' = ID
    BY Parts, Frames DEF JujuInv, OneUnitPerApp, local, ID
<1>2. AddsMissing'
    BY Parts DEF AddsMissing, WorkerInv, HasMachine, HoldsMachine, local, ID
<1> QED
    BY <1>1, <1>2 DEF Inv, TypeOK, K8sInv, WorkerInv, JujuInv

\* The informer, users and Cluster API keep the invariant.
LEMMA KubernetesActions == ASSUME Inv, Kubernetes PROVE Inv'
<1>1. K8sInv /\ JujuTyped /\ BudgetTyped
    BY Parts DEF JujuInv
<1>2. UNCHANGED <<local, juju, node, budget>>
    BY DEF Kubernetes, Observe, Resync, Delete, SetOwner, DataSecretNamed, Provide
<1>3. K8sInv'
    <2>1. ASSUME NEW o \in Objects, Observe(o) \/ Resync(o)
          PROVE  K8sInv'
        BY <1>1, <2>1 DEF Observe, Resync, K8sInv, KubernetesTyped, env
    <2>2. ASSUME NEW o \in Objects, Delete(o)
          PROVE  K8sInv'
        <3>1. [stored[o] EXCEPT !.deleted = TRUE] \in Object
            BY <1>1, ObjectUpdates DEF K8sInv, KubernetesTyped
        <3>2. Collected([stored[o] EXCEPT !.deleted = TRUE]) \in Object
            BY <3>1, ConstantsTyped DEF Collected
        <3> QED
            BY <1>1, <2>2, <3>2 DEF Delete, K8sInv, KubernetesTyped, env
    <2>3. ASSUME NEW o \in Objects, SetOwner(o)
          PROVE  K8sInv'
        <3>1. [stored[o] EXCEPT !.owned = TRUE] \in Object
            BY <1>1, ObjectUpdates DEF K8sInv, KubernetesTyped
        <3> QED
            BY <1>1, <2>3, <3>1 DEF SetOwner, K8sInv, KubernetesTyped, env
    <2>4. ASSUME NEW o \in Objects, DataSecretNamed(o)
          PROVE  K8sInv'
        BY <1>1, <2>4 DEF DataSecretNamed, K8sInv, KubernetesTyped, k8s
    <2>5. ASSUME NEW p \in Prerequisites, Provide(p)
          PROVE  K8sInv'
        BY <1>1, <2>5 DEF Provide, K8sInv, KubernetesTyped, k8s
    <2> QED
        BY <2>1, <2>2, <2>3, <2>4, <2>5 DEF Kubernetes
<1>4. JujuTyped' /\ BudgetTyped' /\ dup' = dup /\ units' = units
    BY <1>1, <1>2 DEF JujuTyped, BudgetTyped, juju
<1> QED
    BY <1>2, <1>3, <1>4, OutsideStep

\* A unit that exists changes its state: no unit appears.
LEMMA SetUnitTyped ==
    ASSUME JujuTyped, NEW i \in MachineIDs, NEW a \in Apps, NEW state \in UnitStates,
           units[i][a] # "none", SetUnit(i, a, state)
    PROVE  /\ units' \in [MachineIDs -> [Apps -> UnitStates]]
           /\ \A j \in MachineIDs, b \in Apps : units[j][b] = "none" => units'[j][b] = "none"
BY DEF JujuTyped, SetUnit

\* Juju and the workload cluster keep the invariant: they never add a unit.
LEMMA JujuActions == ASSUME Inv, Juju PROVE Inv'
<1>1. K8sInv /\ JujuTyped /\ BudgetTyped
    BY Parts DEF JujuInv
<1>2. UNCHANGED <<k8s, env, local, dup>>
    BY DEF Juju, MachineStarts, MachineStops, MachineLost, NodeRegisters, juju,
           CloudSetsProviderID, UnitSettles, UnitFails, UnitResolved, UnitRemoved
<1>3. PICK i \in MachineIDs :
          \/ MachineStarts(i) \/ MachineStops(i) \/ MachineLost(i)
          \/ NodeRegisters(i) \/ CloudSetsProviderID(i)
          \/ \E a \in Apps : \/ UnitSettles(i, a) \/ UnitFails(i, a)
                             \/ UnitResolved(i, a) \/ UnitRemoved(i, a)
    BY DEF Juju
<1>4. BudgetTyped'
    BY <1>1, <1>3, SpendTyped, Frames
       DEF MachineStarts, MachineStops, MachineLost, NodeRegisters, FaultKinds,
           CloudSetsProviderID, UnitSettles, UnitFails, UnitResolved, UnitRemoved
<1>5. JujuTyped' /\ \A j \in MachineIDs, b \in Apps :
                        units[j][b] = "none" => units'[j][b] = "none"
    <2>1. CASE MachineStarts(i) \/ MachineStops(i)
        BY <1>1, <2>1 DEF MachineStarts, MachineStops, JujuTyped, Machines
    <2>2. CASE MachineLost(i)
        BY <1>1, <2>2 DEF MachineLost, JujuTyped, Machines, UnitStates
    <2>3. CASE NodeRegisters(i)
        BY <1>1, <2>3 DEF NodeRegisters, JujuTyped, Node, juju
    <2>4. CASE CloudSetsProviderID(i)
        <3>1. [scheme |-> "cloud", machine |-> i] \in ProviderIDs
            BY DEF ProviderIDs
        <3> QED
            BY <1>1, <2>4, <3>1 DEF CloudSetsProviderID, JujuTyped, Node, juju
    <2>5. ASSUME NEW a \in Apps,
                 UnitSettles(i, a) \/ UnitFails(i, a) \/ UnitResolved(i, a)
          PROVE  JujuTyped' /\ \A j \in MachineIDs, b \in Apps :
                                   units[j][b] = "none" => units'[j][b] = "none"
        <3>1. PICK state \in UnitStates : SetUnit(i, a, state) /\ units[i][a] # "none"
            BY <2>5 DEF UnitSettles, UnitFails, UnitResolved, UnitStates
        <3>2. UNCHANGED <<mstate, creator, dup, node>>
            BY <2>5 DEF UnitSettles, UnitFails, UnitResolved
        <3> QED
            BY <1>1, <3>1, <3>2, SetUnitTyped DEF JujuTyped
    <2>6. ASSUME NEW a \in Apps, UnitRemoved(i, a)
          PROVE  JujuTyped' /\ \A j \in MachineIDs, b \in Apps :
                                   units[j][b] = "none" => units'[j][b] = "none"
        <3>1. SetUnit(i, a, "none") /\ "none" \in UnitStates /\ units[i][a] # "none"
            BY <2>6 DEF UnitRemoved, UnitStates
        <3>2. mstate' \in [MachineIDs -> Machines]
            BY <1>1, <2>6 DEF UnitRemoved, JujuTyped, Machines
        <3> QED
            BY <1>1, <2>6, <3>1, <3>2, SetUnitTyped DEF UnitRemoved, JujuTyped
    <2> QED
        BY <1>3, <2>1, <2>2, <2>3, <2>4, <2>5, <2>6
<1>6. K8sInv'
    BY <1>1, <1>2, Frames
<1> QED
    BY <1>2, <1>4, <1>5, <1>6, OutsideStep

--------------------------------------------------------------------------------
(* The theorems.                                                           *)

\* The initial states satisfy the invariant.
LEMMA InvInit == Init => Inv
<1> SUFFICES ASSUME Init PROVE Inv
    OBVIOUS
<1>1. KubernetesTyped
    BY ConstantsTyped, SubsetsAssumption DEF Init, KubernetesTyped
<1>2. WorkerTyped /\ HasObject /\ HasMachine /\ AddsMissing
    BY ConstantsTyped DEF Init, WorkerTyped, HasObject, HasMachine, AddsMissing,
                          HoldsMachine, Steps
<1>3. JujuTyped /\ OneUnitPerApp
    BY DEF Init, JujuTyped, OneUnitPerApp, Machines, UnitStates, Node
<1>4. BudgetTyped
    BY BudgetAssumption DEF Init, BudgetTyped
<1> QED
    BY <1>1, <1>2, <1>3, <1>4 DEF Inv, TypeOK

\* Every step keeps the invariant.
LEMMA InvNext == Inv /\ [Next]_vars => Inv'
<1> SUFFICES ASSUME Inv, [Next]_vars PROVE Inv'
    OBVIOUS
<1>1. CASE Worker
    BY <1>1, BeginActions, ReturningActions, MovingActions, ReadingActions,
       EffectActions, PatchActions DEF Worker
<1>2. CASE Take
    BY <1>2, BeginActions DEF Take
<1>3. CASE Restart
    BY <1>3, PatchActions
<1>4. CASE Kubernetes \/ Juju
    BY <1>4, KubernetesActions, JujuActions
<1>5. CASE UNCHANGED vars
    <2>1. UNCHANGED <<k8s, env, local, juju, node, budget>> /\ ID' = ID
        BY <1>5 DEF vars, k8s, env, local, juju, ID
    <2>2. K8sInv' /\ WorkerInv' /\ JujuInv' /\ BudgetTyped'
        BY <2>1, Parts, Frames
    <2>3. AddsMissing'
        BY <1>5, Parts DEF AddsMissing, vars, ID
    <2> QED
        BY <2>2, <2>3, Parts DEF Inv, TypeOK, K8sInv, WorkerInv, JujuInv
<1> QED
    BY <1>1, <1>2, <1>3, <1>4, <1>5 DEF Next

\* The inductive invariant holds of every behaviour.
THEOREM Invariance == Spec => []Inv
BY InvInit, InvNext, PTL DEF Spec

\* Every variable has its type in every reachable state.
THEOREM TypeCorrect == Spec => []TypeOK
<1>1. Inv => TypeOK
    BY DEF Inv
<1> QED
    BY <1>1, Invariance, PTL

\* Whatever fails, is lost, is stale or restarts, and however many objects and
\* machines there are, no machine is ever given a second unit of an application.
THEOREM NoSecondUnit == Spec => []OneUnitPerApp
<1>1. Inv => OneUnitPerApp
    BY DEF Inv
<1> QED
    BY <1>1, Invariance, PTL
================================================================================
