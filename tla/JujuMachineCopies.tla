--------------------------- MODULE JujuMachineCopies ---------------------------
(***************************************************************************)
(* What a pass may rely on although all it has is a copy of a copy of its  *)
(* object: the invariant that relates the object in the API server, the    *)
(* one in the informer's cache, the one the pass has read and the one it   *)
(* has edited, whatever fails, is outdated, is lost or restarts.           *)
(***************************************************************************)
EXTENDS JujuMachineProofs

(***************************************************************************)
(* The inductive invariant, on top of Inv.                                 *)
(***************************************************************************)
\* What the API server keeps of an object makes sense: the finalizer stays on a
\* deleted object and on one with a machine.
Sound(x) == /\ ~x.present => ~x.deleted /\ ~x.finalizer /\ ~x.ready
            /\ x.deleted => x.finalizer
            /\ x.machineID # None => x.finalizer
            /\ x.providerID # None => x.machineID # None

\* x is y as it was earlier: as long as the object exists, nothing is taken back.
Older(x, y) == y.present => /\ x.present
                            /\ x.deleted => y.deleted
                            /\ x.finalizer => y.finalizer
                            /\ x.machineID # None => y.machineID # None
                            /\ x.providerID # None => y.providerID # None

\* An object under the finalizer whose deletion x does not know of still exists.
Guarded(x, y) == x.finalizer /\ ~x.deleted => y.present

OwnMachine(x, o) == x.machineID # None => creator[x.machineID] = o

CopiesOf(o) == /\ Sound(stored[o]) /\ Sound(cache[o])
               /\ Older(cache[o], stored[o]) /\ Guarded(cache[o], stored[o])
               /\ OwnMachine(stored[o], o) /\ OwnMachine(cache[o], o)

\* Machines are created once, and units are placed on created machines.
Unplaced == \A i \in MachineIDs, a \in Apps : mstate[i] = "absent" => units[i][a] = "none"
Issued == \A i \in MachineIDs : creator[i] = None <=> mstate[i] = "absent"

\* What the pass has read.
Read == pc # "idle" =>
    /\ before.present /\ Sound(before) /\ OwnMachine(before, cur)
    /\ Older(before, cache[cur]) /\ Guarded(before, stored[cur])

\* Where the worker is, and what it has found out on the way there.
Unedited     == {"prerequisites", "branch", "getMachineForDeletion", "listUnits",
                 "destroyUnits", "addMachine", "getMachine", "applications",
                 "addUnit", "matchNode", "panicked"}
Deleting     == {"getMachineForDeletion", "listUnits", "destroyUnits"}
Provisioning == {"addMachine", "getMachine", "applications", "addUnit",
                 "matchNode", "updateNode", "addresses"}
Position ==
    /\ pc \in Unedited => mem = before
    /\ pc \in Deleting => before.deleted
    /\ pc \in Provisioning => before.finalizer /\ ~before.deleted
    /\ pc = "addMachine" => before.machineID = None
    /\ pc \in Provisioning \ {"addMachine"} => before.machineID # None
    /\ pc \in {"matchNode", "updateNode"} => before.providerID = None
    /\ pc = "updateNode" => /\ cur \in UseJujuProviderID /\ mem.ready = before.ready
                            /\ mem.providerID = [scheme |-> "juju", machine |-> ID]

\* What a pass may have edited: one thing, and only if what it read allows it.
Edits == pc # "idle" =>
    /\ OwnMachine(mem, cur)
    /\ mem.finalizer /\ ~before.finalizer => ~before.deleted
    /\ ~mem.finalizer /\ before.finalizer => before.deleted
    /\ mem.machineID # before.machineID =>
          /\ before.machineID = None /\ mem.machineID # None
          /\ before.finalizer /\ mem.finalizer /\ ~before.deleted
    /\ mem.providerID # before.providerID =>
          /\ before.providerID = None /\ mem.providerID # None
          /\ before.machineID # None /\ before.finalizer /\ mem.finalizer
    /\ mem.ready # before.ready =>
          mem.ready /\ mem.providerID # None /\ before.machineID # None

Copies  == \A o \in Objects : CopiesOf(o)
CopyInv == Copies /\ Issued /\ Read /\ Position /\ Edits

--------------------------------------------------------------------------------
(* Facts about the operators.                                              *)

\* An update of one field of an object changes that field and no other.
LEMMA FieldUpdates ==
    ASSUME NEW x \in Object
    PROVE  /\ \A b \in BOOLEAN :
                 LET y == [x EXCEPT !.finalizer = b] IN
                 /\ y.finalizer = b /\ y.machineID = x.machineID
                 /\ y.providerID = x.providerID /\ y.ready = x.ready
           /\ \A i \in MachineIDs \cup {None} :
                 LET y == [x EXCEPT !.machineID = i] IN
                 /\ y.finalizer = x.finalizer /\ y.machineID = i
                 /\ y.providerID = x.providerID /\ y.ready = x.ready
           /\ \A p \in ProviderIDs \cup {None} :
                 LET y == [x EXCEPT !.providerID = p] IN
                 /\ y.finalizer = x.finalizer /\ y.machineID = x.machineID
                 /\ y.providerID = p /\ y.ready = x.ready
           /\ LET y == [x EXCEPT !.ready = TRUE] IN
                 /\ y.finalizer = x.finalizer /\ y.machineID = x.machineID
                 /\ y.providerID = x.providerID /\ y.ready
BY DEF Object

\* The fields of an object have their types.
LEMMA FieldsTyped ==
    ASSUME NEW x \in Object
    PROVE  /\ x.present \in BOOLEAN /\ x.deleted \in BOOLEAN /\ x.finalizer \in BOOLEAN
           /\ x.ready \in BOOLEAN /\ x.owned \in BOOLEAN
           /\ x.machineID \in MachineIDs \cup {None}
           /\ x.providerID \in ProviderIDs \cup {None}
BY DEF Object

\* Older is a preorder.
LEMMA OlderPreorder ==
    ASSUME NEW x \in Object, NEW y \in Object, NEW z \in Object
    PROVE  Older(x, x) /\ (Older(x, y) /\ Older(y, z) => Older(x, z))
BY Zenon DEF Older

\* None is neither an object nor a machine.
LEMMA NoneIsNew == None \notin Objects /\ None \notin MachineIDs /\ None \notin ProviderIDs
BY NoneAssumption

\* Who owns a machine stays its owner as long as machines keep their creators.
LEMMA OwnersStay ==
    ASSUME \A i \in MachineIDs : creator[i] # None => creator'[i] = creator[i],
           NEW x \in Object, NEW o \in Objects, OwnMachine(x, o)
    PROVE  x.machineID # None => creator'[x.machineID] = o
BY FieldsTyped, NoneIsNew DEF OwnMachine

\* The pass holds an older copy of what the API server has of its object.
LEMMA BeforeIsOlder ==
    ASSUME Inv, CopyInv, pc # "idle"
    PROVE  /\ cur \in Objects /\ before \in Object /\ mem \in Object
           /\ stored[cur] \in Object /\ cache[cur] \in Object
           /\ CopiesOf(cur) /\ Older(before, stored[cur])
<1>1. /\ cur \in Objects /\ before \in Object /\ mem \in Object
      /\ stored[cur] \in Object /\ cache[cur] \in Object
    BY DEF Inv, TypeOK, WorkerTyped, KubernetesTyped, HasObject
<1>2. CopiesOf(cur)
    BY <1>1 DEF CopyInv, Copies
<1>3. Older(before, cache[cur]) /\ Older(cache[cur], stored[cur])
    BY <1>2 DEF CopyInv, Read, CopiesOf
<1> QED
    BY <1>1, <1>2, <1>3, OlderPreorder

\* A step of a pass that leaves the copies alone, and machines with their creators.
LEMMA PassStep ==
    ASSUME Inv, CopyInv, pc # "idle", pc' # "idle",
           UNCHANGED <<stored, cache, cur, before>>,
           \A i \in MachineIDs : creator[i] # None => creator'[i] = creator[i],
           Issued', Position', Edits'
    PROVE  CopyInv'
<1>1. Copies'
    <2> SUFFICES ASSUME NEW o \in Objects PROVE CopiesOf(o)'
        BY DEF Copies
    <2>1. CopiesOf(o) /\ stored[o] \in Object /\ cache[o] \in Object
        BY DEF CopyInv, Copies, Inv, TypeOK, KubernetesTyped
    <2>2. OwnMachine(stored[o], o)' /\ OwnMachine(cache[o], o)'
        BY <2>1, OwnersStay DEF CopiesOf, OwnMachine
    <2> QED
        BY <2>1, <2>2 DEF CopiesOf, Sound, Older, Guarded
<1>2. Read'
    <2>1. cur \in Objects /\ before \in Object /\ Read
        BY BeforeIsOlder DEF CopyInv
    <2>2. OwnMachine(before, cur)'
        BY <2>1, OwnersStay DEF Read, OwnMachine
    <2> QED
        BY <2>1, <2>2 DEF Read, Sound, Older, Guarded
<1> QED
    BY <1>1, <1>2 DEF CopyInv

\* The same step when it does nothing to Juju's machines either.
LEMMA QuietStep ==
    ASSUME Inv, CopyInv, pc # "idle", pc' # "idle",
           UNCHANGED <<stored, cache, cur, before, creator, mstate>>, Position', Edits'
    PROVE  CopyInv'
BY PassStep DEF CopyInv, Issued

\* To return with the object as it is edits nothing.
LEMMA PlainReturn ==
    ASSUME Inv, CopyInv, pc # "idle", NEW again \in BOOLEAN, Return(mem, again),
           UNCHANGED <<stored, cache, creator, mstate>>
    PROVE  CopyInv'
<1>1. Position'
    BY DEF Return, Position, Unedited, Deleting, Provisioning
<1>2. Edits'
    BY DEF CopyInv, Edits, OwnMachine, Return
<1> QED
    BY <1>1, <1>2, QuietStep DEF Return

--------------------------------------------------------------------------------
(* The steps of the worker.                                                *)

\* The ways out of a pass that edit nothing.
LEMMA PlainReturns ==
    ASSUME Inv, CopyInv,
           \/ CallFails \/ UnitsRequested \/ MachineNotReady \/ AppsNotReady
           \/ NodeMissing \/ UpdateNodeFails \/ AddressesRead \/ MachineVanished
    PROVE  CopyInv'
<1>1. \E again \in BOOLEAN : Return(mem, again)
    BY DEF CallFails, UnitsRequested, MachineNotReady, AppsNotReady, NodeMissing,
           UpdateNodeFails, AddressesRead, MachineVanished
<1>2. UNCHANGED <<stored, cache, creator, mstate>>
    BY DEF CallFails, UnitsRequested, MachineNotReady, AppsNotReady, NodeMissing,
           UpdateNodeFails, AddressesRead, MachineVanished, k8s, juju
<1>3. pc # "idle"
    BY DEF CallFails, UnitsRequested, MachineNotReady, AppsNotReady, NodeMissing, Call,
           UpdateNodeFails, AddressesRead, MachineVanished, JujuCalls
<1> QED
    BY <1>1, <1>2, <1>3, PlainReturn

\* To set the finalizer, or to give it up, is all these passes do.
LEMMA FinalizerReturns ==
    ASSUME Inv, CopyInv, AddFinalizer \/ ReleaseWithoutMachine \/ ReleaseAfterMachine
    PROVE  CopyInv'
<1>1. /\ pc # "idle" /\ pc \in Unedited
      /\ UNCHANGED <<stored, cache, creator, mstate, cur, before>>
    BY DEF AddFinalizer, ReleaseWithoutMachine, ReleaseAfterMachine, Call, Return, k8s,
           juju, Unedited
<1>2. mem \in Object /\ before \in Object /\ mem = before
    BY <1>1, BeforeIsOlder DEF CopyInv, Position
<1>3. pc' = "patch"
    BY DEF AddFinalizer, ReleaseWithoutMachine, ReleaseAfterMachine, Return
<1>4. Position'
    BY <1>3 DEF Position, Unedited, Deleting, Provisioning
<1>5. PICK b \in BOOLEAN : /\ mem' = [mem EXCEPT !.finalizer = b]
                           /\ b = TRUE => ~before.deleted
                           /\ b = FALSE => before.deleted
    <2>1. CASE AddFinalizer
        BY <2>1 DEF AddFinalizer, Return
    <2>2. CASE ReleaseWithoutMachine
        BY <2>2 DEF ReleaseWithoutMachine, Return
    <2>3. CASE ReleaseAfterMachine
        <3>1. before.deleted
            BY <2>3 DEF ReleaseAfterMachine, Call, CopyInv, Position, Deleting
        <3> QED
            BY <2>3, <3>1 DEF ReleaseAfterMachine, Return
    <2> QED
        BY <2>1, <2>2, <2>3
<1>6. /\ mem'.finalizer = b /\ mem'.machineID = before.machineID
      /\ mem'.providerID = before.providerID /\ mem'.ready = before.ready
    BY <1>2, <1>5, FieldUpdates
<1>7. OwnMachine(mem, cur)'
    BY <1>1, <1>6 DEF CopyInv, Read, OwnMachine
<1>8. Edits'
    BY <1>1, <1>5, <1>6, <1>7 DEF Edits
<1> QED
    BY <1>1, <1>3, <1>4, <1>8, QuietStep

\* A step on the way that edits nothing.
LEMMA PlainMove ==
    ASSUME Inv, CopyInv, pc \in Unedited, pc' \in Unedited,
           UNCHANGED <<stored, cache, cur, before, mem, creator, mstate>>, Position'
    PROVE  CopyInv'
<1>1. pc # "idle" /\ pc' # "idle"
    BY DEF Unedited
<1>2. Edits'
    BY <1>1 DEF CopyInv, Edits, OwnMachine
<1> QED
    BY <1>1, <1>2, QuietStep

\* The steps on the way that edit nothing.
LEMMA PlainMoves ==
    ASSUME Inv, CopyInv,
           \/ ConnectToModel \/ StartDeletion \/ MachineRemains \/ ListUnits
           \/ StartProvisioning \/ GetMachineNil \/ MachineStarted \/ AddUnit
           \/ \E a \in Apps, force \in BOOLEAN : DestroyUnit(a, force)
           \/ \E a \in Apps : UnitFound(a) \/ UnitMissing(a)
    PROVE  CopyInv'
<1>1. Position /\ Read
    BY DEF CopyInv
<1>2. pc \in Unedited
    BY DEF ConnectToModel, StartDeletion, MachineRemains, ListUnits, StartProvisioning,
           GetMachineNil, MachineStarted, AddUnit, DestroyUnit, UnitFound, UnitMissing,
           Call, Unedited
<1>3. UNCHANGED <<stored, cache, creator, mstate, cur, before>>
    BY DEF ConnectToModel, StartDeletion, MachineRemains, ListUnits, StartProvisioning,
           GetMachineNil, MachineStarted, AddUnit, DestroyUnit, UnitFound, UnitMissing,
           Goto, ReplyLost, Return, k8s, juju
<1>4. CASE ReplyLost
    BY <1>2, <1>3, <1>4, PlainReturn DEF ReplyLost, Unedited
<1>5. CASE ConnectToModel
    <2>1. pc' = "branch" /\ mem' = mem /\ mem = before
        BY <1>1, <1>5 DEF ConnectToModel, Position, Unedited
    <2>2. Position'
        BY <1>3, <2>1 DEF Position, Unedited, Deleting, Provisioning
    <2> QED
        BY <1>2, <1>3, <2>1, <2>2, PlainMove DEF Unedited
<1>6. CASE StartDeletion \/ MachineRemains \/ ListUnits
    <2>1. /\ pc' \in {"getMachineForDeletion", "listUnits", "destroyUnits"}
          /\ mem' = mem /\ mem = before /\ before.deleted
        BY <1>1, <1>2, <1>6 DEF StartDeletion, MachineRemains, ListUnits, Goto, Call,
            Position, Deleting
    <2>2. Position'
        BY <1>3, <2>1 DEF Position, Unedited, Deleting, Provisioning
    <2> QED
        BY <1>2, <1>3, <2>1, <2>2, PlainMove DEF Unedited
<1>7. CASE StartProvisioning
    <2>1. /\ pc' = (IF before.machineID = None THEN "addMachine" ELSE "getMachine")
          /\ mem' = mem /\ mem = before /\ before.finalizer /\ ~before.deleted
        BY <1>1, <1>2, <1>7 DEF StartProvisioning, Goto, Position, ID
    <2>2. Position'
        BY <1>3, <2>1 DEF Position, Unedited, Deleting, Provisioning
    <2> QED
        BY <1>2, <1>3, <2>1, <2>2, PlainMove DEF Unedited
<1>8. CASE GetMachineNil
    <2>1. pc' = "panicked" /\ mem' = mem /\ mem = before
        BY <1>1, <1>2, <1>8 DEF GetMachineNil, Goto, Position
    <2>2. Position'
        BY <1>3, <2>1 DEF Position, Unedited, Deleting, Provisioning
    <2> QED
        BY <1>2, <1>3, <2>1, <2>2, PlainMove DEF Unedited
<1>9. CASE \/ MachineStarted
           \/ AddUnit /\ ~ReplyLost
           \/ \E a \in Apps : UnitFound(a) \/ UnitMissing(a)
    <2>1. /\ pc \in {"getMachine", "addUnit", "applications"}
          /\ pc' \in {"addUnit", "applications"} /\ mem' = mem
        BY <1>9 DEF MachineStarted, AddUnit, UnitFound, UnitMissing, Call
    <2>2. /\ mem = before /\ before.finalizer /\ ~before.deleted
          /\ before.machineID # None
        BY <1>1, <1>2, <2>1 DEF Position, Provisioning
    <2>3. Position'
        BY <1>3, <2>1, <2>2 DEF Position, Unedited, Deleting, Provisioning
    <2> QED
        BY <1>2, <1>3, <2>1, <2>3, PlainMove DEF Unedited
<1>10. CASE (\E a \in Apps, force \in BOOLEAN : DestroyUnit(a, force)) /\ ~ReplyLost
    <2>1. pc' = "destroyUnits" /\ pc = "destroyUnits" /\ mem' = mem
        BY <1>10 DEF DestroyUnit, Call
    <2>2. Position'
        BY <1>1, <1>3, <2>1 DEF Position, Unedited, Deleting, Provisioning
    <2> QED
        BY <1>2, <1>3, <2>1, <2>2, PlainMove DEF Unedited
<1> QED
    BY <1>4, <1>5, <1>6, <1>7, <1>8, <1>9, <1>10

\* A machine is asked for only under the finalizer, for an object that the pass
\* knows to have none, and becomes that object's.
LEMMA Acquiring ==
    ASSUME Inv, CopyInv, AddMachine
    PROVE  /\ CopyInv'
           /\ stored[cur].present /\ stored[cur].finalizer
           /\ \A i \in MachineIDs : creator'[i] # creator[i] => creator'[i] = cur
<1>1. /\ pc = "addMachine" /\ mem = before /\ before.finalizer /\ ~before.deleted
      /\ before.machineID = None
    BY DEF AddMachine, Call, CopyInv, Position, Unedited, Provisioning
<1>2. /\ cur \in Objects /\ before \in Object /\ mem \in Object /\ stored[cur] \in Object
      /\ Older(before, stored[cur])
    BY <1>1, BeforeIsOlder
<1>3. stored[cur].present /\ stored[cur].finalizer
    BY <1>1, <1>2 DEF CopyInv, Read, Guarded, Older
<1>4. PICK m \in MachineIDs :
          /\ mstate[m] = "absent" /\ mstate' = [mstate EXCEPT ![m] = "pending"]
          /\ creator' = [creator EXCEPT ![m] = cur]
          /\ \/ Return([mem EXCEPT !.machineID = m], TRUE) /\ UNCHANGED budget
             \/ ReplyLost
    BY DEF AddMachine
<1>5. /\ creator \in [MachineIDs -> Objects \cup {None}] /\ creator[m] = None
      /\ mstate \in [MachineIDs -> Machines]
    BY <1>4 DEF Inv, TypeOK, JujuTyped, CopyInv, Issued
<1>6. /\ \A i \in MachineIDs : creator'[i] # creator[i] => creator'[i] = cur
      /\ \A i \in MachineIDs : creator[i] # None => creator'[i] = creator[i]
    BY <1>4, <1>5
<1>7. Issued'
    BY <1>2, <1>4, <1>5, NoneIsNew DEF CopyInv, Issued
<1>8. pc' = "patch" /\ UNCHANGED <<stored, cache, cur, before>>
    BY <1>4 DEF AddMachine, ReplyLost, Return, k8s
<1>9. Position'
    BY <1>8 DEF Position, Unedited, Deleting, Provisioning
<1>10. Edits'
    <2>1. CASE mem' = mem
        BY <1>1, <1>2, <1>8, <2>1 DEF Edits, OwnMachine
    <2>2. CASE mem' = [mem EXCEPT !.machineID = m]
        <3>1. /\ mem'.finalizer = before.finalizer /\ mem'.machineID = m
              /\ mem'.providerID = before.providerID /\ mem'.ready = before.ready
            BY <1>1, <1>2, <2>2 DEF Object
        <3>2. creator'[m] = cur /\ m # None
            BY <1>4, <1>5, NoneIsNew
        <3> QED
            BY <1>1, <1>8, <3>1, <3>2 DEF Edits, OwnMachine
    <2> QED
        BY <1>4, <2>1, <2>2 DEF ReplyLost, Return
<1>11. CopyInv'
    BY <1>1, <1>6, <1>7, <1>8, <1>9, <1>10, PassStep
<1> QED
    BY <1>3, <1>6, <1>11

\* The steps that set the provider ID and mark the object ready.
LEMMA Serving ==
    ASSUME Inv, Inv', CopyInv, AppsReady \/ JujuProvider \/ UpdateNode \/ CloudProvider
    PROVE  CopyInv'
<1>1. /\ pc \in {"applications", "matchNode", "updateNode"}
      /\ UNCHANGED <<stored, cache, creator, mstate, cur, before>>
    BY DEF AppsReady, JujuProvider, UpdateNode, CloudProvider, NodeFound, Call, Goto,
           MarkReady, SetProviderID, k8s, juju
<1>2. /\ cur \in Objects /\ before \in Object /\ mem \in Object /\ mem' \in Object
      /\ mem.machineID = ID
    BY <1>1, BeforeIsOlder DEF Inv, TypeOK, WorkerTyped, ID
<1>3. /\ before.finalizer /\ ~before.deleted /\ before.machineID # None
      /\ pc # "updateNode" => mem = before
      /\ Edits /\ OwnMachine(mem, cur)
    BY <1>1 DEF CopyInv, Position, Unedited, Provisioning, Edits
<1>4. CASE AppsReady /\ before.providerID = None
    <2>1. pc' = "matchNode" /\ mem' = mem /\ pc = "applications"
        BY <1>4 DEF AppsReady, Goto
    <2>2. Position'
        BY <1>1, <1>3, <1>4, <2>1 DEF Position, Unedited, Deleting, Provisioning
    <2> QED
        BY <1>1, <1>3, <2>1, <2>2, PlainMove DEF Unedited
<1>5. CASE JujuProvider
    <2>1. /\ pc' = "updateNode" /\ pc = "matchNode" /\ before.providerID = None
          /\ cur \in UseJujuProviderID /\ mem = before
        BY <1>3, <1>5 DEF JujuProvider, NodeFound, Call, SetProviderID, CopyInv, Position
    <2>2. ID \in MachineIDs
        BY <2>1 DEF Inv, HasMachine, HoldsMachine
    <2>3. [scheme |-> "juju", machine |-> ID] \in ProviderIDs
        BY <2>2 DEF ProviderIDs
    <2>4. /\ mem'.finalizer = before.finalizer /\ mem'.machineID = before.machineID
          /\ mem'.providerID = [scheme |-> "juju", machine |-> ID'] /\ mem'.providerID # None
          /\ mem'.ready = before.ready
        BY <1>2, <1>5, <2>1, <2>3, FieldUpdates, NoneIsNew DEF JujuProvider, SetProviderID, ID
    <2>5. Position' /\ Edits'
        BY <1>1, <1>3, <2>1, <2>4 DEF Position, Unedited, Deleting, Provisioning, Edits,
            OwnMachine
    <2> QED
        BY <1>1, <2>1, <2>5, QuietStep
<1>6. ASSUME NEW x \in Object, MarkReady(x), x.finalizer = before.finalizer,
             x.machineID = before.machineID, x.providerID # None,
             x.providerID # before.providerID => before.providerID = None
      PROVE  CopyInv'
    <2>1. /\ pc' = "addresses" /\ mem'.ready
          /\ mem'.finalizer = before.finalizer /\ mem'.machineID = before.machineID
          /\ mem'.providerID = x.providerID
        BY <1>6, FieldUpdates DEF MarkReady
    <2>2. Position'
        BY <1>1, <1>3, <2>1 DEF Position, Unedited, Deleting, Provisioning
    <2>3. OwnMachine(mem, cur)'
        BY <1>1, <2>1 DEF CopyInv, Read, OwnMachine
    <2>4. Edits'
        BY <1>1, <1>3, <1>6, <2>1, <2>3 DEF Edits
    <2> QED
        BY <1>1, <2>1, <2>2, <2>4, QuietStep
<1>7. CASE AppsReady /\ before.providerID # None
    BY <1>2, <1>3, <1>6, <1>7 DEF AppsReady
<1>8. CASE UpdateNode
    <2>1. pc = "updateNode" /\ MarkReady(mem) /\ before.providerID = None
        BY <1>8 DEF UpdateNode, CopyInv, Position
    <2>2. mem.finalizer = before.finalizer /\ mem.machineID = before.machineID
        <3>1. mem.machineID = before.machineID
            BY <1>3, <2>1 DEF Edits
        <3>2. /\ mem.finalizer \in BOOLEAN /\ before.finalizer \in BOOLEAN
              /\ mem.finalizer
            BY <1>2, <1>3, <2>1, FieldsTyped DEF Edits
        <3> QED
            BY <1>3, <3>1, <3>2
    <2>3. mem.providerID # None
        <3>1. mem.providerID = [scheme |-> "juju", machine |-> ID] /\ ID \in MachineIDs
            BY <2>1 DEF CopyInv, Position, Inv, HasMachine, HoldsMachine
        <3> QED
            BY <3>1, NoneIsNew DEF ProviderIDs
    <2> QED
        BY <1>2, <1>6, <2>1, <2>2, <2>3
<1>9. CASE CloudProvider
    <2>1. pc = "matchNode" /\ mem = before /\ before.providerID = None /\ ID \in MachineIDs
        BY <1>3, <1>9 DEF CloudProvider, NodeFound, Call, CopyInv, Position, Inv,
            HasMachine, HoldsMachine
    <2>2. node[ID].providerID \in ProviderIDs \cup {None}
        BY <2>1 DEF Inv, TypeOK, JujuTyped, Node
    <2>3. [mem EXCEPT !.providerID = node[ID].providerID] \in Object
        BY <1>2, <2>2, ObjectUpdates
    <2> DEFINE x == [mem EXCEPT !.providerID = node[ID].providerID]
    <2>4. /\ MarkReady(x) /\ x.providerID = node[ID].providerID /\ x.providerID # None
          /\ x.finalizer = before.finalizer /\ x.machineID = before.machineID
        BY <1>2, <1>9, <2>1, <2>2, FieldUpdates DEF CloudProvider
    <2> QED
        BY <1>6, <2>1, <2>3, <2>4
<1> QED
    BY <1>4, <1>5, <1>7, <1>8, <1>9

\* The object is read at the start of a pass, and dropped at its end.
LEMMA Boundaries ==
    ASSUME Inv, Inv', CopyInv,
           \/ \E o \in Objects : Forget(o) \/ Begin(o)
           \/ WaitForOwner \/ WaitForCluster \/ Restart \/ PatchStatusFails
    PROVE  CopyInv'
<1>1. UNCHANGED <<stored, creator, mstate>>
    BY DEF Forget, Begin, WaitForOwner, WaitForCluster, Restart, PatchStatusFails,
           EndPass, k8s, juju
<1>2. /\ stored \in [Objects -> Object] /\ cache \in [Objects -> Object] /\ Copies
      /\ Position
    BY DEF Inv, TypeOK, KubernetesTyped, CopyInv
<1>3. cache' = cache \/ cache' = stored
    BY DEF Forget, Begin, WaitForOwner, WaitForCluster, Restart, PatchStatusFails,
           EndPass, k8s
<1>4. Copies'
    <2> SUFFICES ASSUME NEW o \in Objects PROVE CopiesOf(o)'
        BY DEF Copies
    <2>1. /\ CopiesOf(o) /\ stored[o] \in Object /\ cache[o] \in Object
          /\ Older(stored[o], stored[o])
        BY <1>2, OlderPreorder DEF Copies
    <2>2. CASE cache' = cache
        BY <1>1, <2>1, <2>2 DEF CopiesOf, Sound, Older, Guarded, OwnMachine
    <2>3. CASE cache' = stored
        <3>1. Guarded(stored[o], stored[o])
            BY <2>1, FieldsTyped DEF CopiesOf, Sound, Guarded
        <3> QED
            BY <1>1, <2>1, <2>3, <3>1 DEF CopiesOf, Sound, Older, Guarded, OwnMachine
    <2> QED
        BY <1>3, <2>2, <2>3
<1>5. Issued'
    BY <1>1 DEF CopyInv, Issued
<1>6. CASE pc' = "idle"
    BY <1>4, <1>5, <1>6 DEF CopyInv, Read, Edits, Position, Unedited, Deleting,
        Provisioning
<1>7. ASSUME NEW o \in Objects, Begin(o)
      PROVE  CopyInv'
    <2>1. /\ pc' = "prerequisites" /\ cur' = o /\ before' = cache[o] /\ mem' = cache[o]
          /\ cache' = cache /\ cache[o].present
        BY <1>7 DEF Begin
    <2>2. /\ cache[o] \in Object /\ CopiesOf(o) /\ Older(cache[o], cache[o])
        BY <1>2, OlderPreorder DEF Copies
    <2>3. Read'
        BY <1>1, <2>1, <2>2 DEF Read, CopiesOf, Sound, Older, Guarded, OwnMachine
    <2>4. Position'
        BY <2>1 DEF Position, Unedited, Deleting, Provisioning
    <2>5. Edits'
        BY <1>1, <2>1, <2>2 DEF Edits, CopiesOf, OwnMachine
    <2> QED
        BY <1>4, <1>5, <2>3, <2>4, <2>5 DEF CopyInv
<1>8. (\E o \in Objects : Forget(o)) => pc' = "idle"
    BY DEF Forget, local
<1> QED
    BY <1>6, <1>7, <1>8 DEF WaitForOwner, WaitForCluster, Restart, PatchStatusFails, EndPass

\* What a merge patch makes of an object: it writes what the pass has edited.
LEMMA MergedFields ==
    ASSUME WorkerTyped, NEW x \in Object
    PROVE  LET y == Merged(x) IN
           /\ y \in Object
           /\ y.present = x.present /\ y.deleted = x.deleted /\ y.ready = x.ready
           /\ y.finalizer = (IF mem.finalizer # before.finalizer THEN mem.finalizer
                                                                 ELSE x.finalizer)
           /\ y.machineID = (IF mem.machineID # before.machineID THEN mem.machineID
                                                                 ELSE x.machineID)
           /\ y.providerID = (IF mem.providerID # before.providerID THEN mem.providerID
                                                                    ELSE x.providerID)
BY DEF WorkerTyped, Merged, Object

\* An object that does not exist has nothing.
LEMMA AbsentFields ==
    /\ Absent \in Object /\ ~Absent.present /\ ~Absent.deleted /\ ~Absent.finalizer
    /\ ~Absent.ready /\ Absent.machineID = None /\ Absent.providerID = None
BY ConstantsTyped DEF Absent

\* A step in which the API server alone changes an object, and takes nothing back.
LEMMA StoredStep ==
    ASSUME Inv, Inv', CopyInv, UNCHANGED <<cache, creator, mstate>>,
           \A o \in Objects :
              /\ Sound(stored'[o]) /\ Older(stored[o], stored'[o])
              /\ OwnMachine(stored'[o], o)
              /\ stored[o].present /\ stored[o].finalizer /\ ~stored'[o].present =>
                    pc # "idle" /\ o = cur /\ before.deleted
    PROVE  /\ Copies' /\ Issued'
           /\ pc # "idle" /\ UNCHANGED <<before, cur>> => Guarded(before, stored[cur])'
<1>1. stored \in [Objects -> Object] /\ cache \in [Objects -> Object] /\ Copies
      /\ stored' \in [Objects -> Object]
    BY DEF Inv, TypeOK, KubernetesTyped, CopyInv
<1>2. ASSUME NEW o \in Objects PROVE CopiesOf(o)'
    <2>1. /\ CopiesOf(o) /\ stored[o] \in Object /\ cache[o] \in Object
          /\ stored'[o] \in Object
        BY <1>1 DEF Copies
    <2>2. Older(cache[o], stored'[o])
        BY <2>1, OlderPreorder DEF CopiesOf
    <2>3. ASSUME cache[o].finalizer, ~cache[o].deleted PROVE stored'[o].present
        <3>1. stored[o].present /\ stored[o].finalizer /\ cache[o].present
            BY <2>1, <2>3 DEF CopiesOf, Guarded, Older
        <3>2. pc # "idle" /\ o = cur /\ before.deleted => FALSE
            BY <2>1, <2>3, <3>1 DEF CopyInv, Read, Older
        <3> QED
            BY <3>1, <3>2
    <2>4. OwnMachine(stored[o], o)' /\ OwnMachine(cache[o], o)'
        BY <2>1 DEF CopiesOf, OwnMachine
    <2>5. Guarded(cache[o], stored[o])'
        BY <2>3 DEF Guarded
    <2>6. Sound(stored[o])' /\ Sound(cache[o])' /\ Older(cache[o], stored[o])'
        BY <2>1, <2>2 DEF CopiesOf, Sound, Older
    <2> QED
        BY <2>4, <2>5, <2>6 DEF CopiesOf
<1>3. Issued'
    BY DEF CopyInv, Issued
<1>4. ASSUME pc # "idle", UNCHANGED <<before, cur>> PROVE Guarded(before, stored[cur])'
    <2>1. /\ cur \in Objects /\ before \in Object /\ stored[cur] \in Object
          /\ Older(before, stored[cur]) /\ Guarded(before, stored[cur])
        BY <1>4, BeforeIsOlder DEF CopyInv, Read
    <2> QED
        BY <1>4, <2>1 DEF Guarded, Older
<1> QED
    BY <1>2, <1>3, <1>4 DEF Copies

\* The patch of the spec takes nothing back, and releases an object only if the
\* pass has read its deletion.
LEMMA PatchedSpec ==
    ASSUME Inv, Inv', CopyInv, PatchSpec
    PROVE  /\ Sound(stored'[cur]) /\ Older(stored[cur], stored'[cur])
           /\ OwnMachine(stored'[cur], cur)
           /\ stored'[cur].ready => stored[cur].ready
           /\ stored'[cur].present =>
                 /\ stored[cur].present
                 /\ stored'[cur].machineID = (IF mem.machineID # before.machineID
                                              THEN mem.machineID ELSE stored[cur].machineID)
                 /\ stored'[cur].providerID = (IF mem.providerID # before.providerID
                                               THEN mem.providerID ELSE stored[cur].providerID)
           /\ stored[cur].present /\ ~stored'[cur].present =>
                 before.finalizer /\ ~mem.finalizer /\ before.deleted
<1>1. /\ pc = "patch" /\ stored'[cur] = Collected(Merged(stored[cur]))
      /\ SpecChanged => stored[cur].present
    BY DEF PatchSpec, Inv, TypeOK, KubernetesTyped, HasObject
<1>2. /\ cur \in Objects /\ before \in Object /\ mem \in Object /\ stored[cur] \in Object
      /\ CopiesOf(cur) /\ Older(before, stored[cur])
    BY <1>1, BeforeIsOlder
<1>3. Read /\ Edits /\ WorkerTyped
    BY DEF CopyInv, Inv, TypeOK
<1> DEFINE x == stored[cur]
           y == Merged(stored[cur])
           z == stored'[cur]
<1>4. /\ y.present = x.present /\ y.deleted = x.deleted /\ y.ready = x.ready
      /\ y.finalizer = (IF mem.finalizer # before.finalizer THEN mem.finalizer
                                                            ELSE x.finalizer)
      /\ y.machineID = (IF mem.machineID # before.machineID THEN mem.machineID
                                                            ELSE x.machineID)
      /\ y.providerID = (IF mem.providerID # before.providerID THEN mem.providerID
                                                               ELSE x.providerID)
    BY <1>2, <1>3, MergedFields
<1>5. y \in Object /\ z \in Object
    BY <1>1, <1>2, <1>3, MergedFields, AbsentFields DEF Collected
<1>6. /\ x.present \in BOOLEAN /\ x.deleted \in BOOLEAN /\ x.finalizer \in BOOLEAN
      /\ x.ready \in BOOLEAN
      /\ y.present \in BOOLEAN /\ y.deleted \in BOOLEAN /\ y.finalizer \in BOOLEAN
      /\ y.ready \in BOOLEAN
      /\ mem.finalizer \in BOOLEAN /\ before.finalizer \in BOOLEAN
    BY <1>2, <1>5, FieldsTyped
<1>7. Sound(x) /\ OwnMachine(x, cur) /\ OwnMachine(mem, cur)
    BY <1>1, <1>2, <1>3 DEF CopiesOf, Edits
<1>8. mem.finalizer = before.finalizer =>
          y.finalizer = x.finalizer
    BY <1>4
<1>9. mem.finalizer # before.finalizer =>
          /\ y.finalizer = mem.finalizer /\ x.present
          /\ y.finalizer \/ (before.finalizer /\ before.deleted)
    BY <1>1, <1>3, <1>4, <1>6 DEF SpecChanged, Edits
<1>10. y.machineID # x.machineID =>
           /\ mem.machineID # before.machineID /\ x.present /\ x.finalizer /\ y.finalizer
           /\ y.machineID # None /\ y.machineID = mem.machineID
    <2> SUFFICES ASSUME y.machineID # x.machineID
                 PROVE  /\ mem.machineID # before.machineID /\ x.present /\ x.finalizer
                        /\ y.finalizer /\ y.machineID # None /\ y.machineID = mem.machineID
        OBVIOUS
    <2>1. /\ mem.machineID # before.machineID /\ x.present
          /\ y.machineID = mem.machineID
        BY <1>1, <1>4 DEF SpecChanged
    <2>2. before.finalizer /\ mem.finalizer /\ mem.machineID # None
        BY <1>1, <1>3, <2>1 DEF Edits
    <2>3. x.finalizer
        BY <1>2, <2>1, <2>2 DEF Older
    <2>4. y.finalizer
        BY <1>6, <1>8, <1>9, <2>2, <2>3
    <2> QED
        BY <2>1, <2>2, <2>3, <2>4
<1>11. y.providerID # x.providerID =>
           /\ x.present /\ x.machineID # None /\ y.providerID # None
    BY <1>1, <1>2, <1>3, <1>4 DEF SpecChanged, Edits, Older
<1>12. Sound(y) \/ (y.deleted /\ ~y.finalizer)
    <2>1. ~y.present => ~y.deleted /\ ~y.finalizer /\ ~y.ready
        BY <1>4, <1>6, <1>7, <1>8, <1>9 DEF Sound
    <2>2. y.machineID # None => y.finalizer \/ (y.deleted /\ ~y.finalizer)
        <3>1. CASE y.machineID # x.machineID
            BY <1>10, <3>1
        <3>2. CASE y.machineID = x.machineID /\ x.machineID # None
            <4>1. x.finalizer
                BY <1>7, <3>2 DEF Sound
            <4>2. before.deleted /\ x.present => y.deleted
                BY <1>2, <1>4 DEF Older
            <4> QED
                BY <1>6, <1>8, <1>9, <4>1, <4>2
        <3> QED
            BY <3>1, <3>2
    <2>3. y.providerID # None => y.machineID # None
        BY <1>7, <1>10, <1>11 DEF Sound
    <2> QED
        BY <2>1, <2>2, <2>3 DEF Sound
<1>13. CASE z = y /\ ~(y.deleted /\ ~y.finalizer)
    <2>1. Sound(z)
        BY <1>12, <1>13
    <2>2. Older(x, z)
        <3>1. x.finalizer /\ x.present => z.finalizer
            <4>1. before.deleted /\ x.present => y.deleted
                BY <1>2, <1>4 DEF Older
            <4> QED
                BY <1>6, <1>8, <1>9, <1>13, <4>1
        <3>2. z.present => x.present
            BY <1>4, <1>6, <1>13
        <3>3. x.deleted => z.deleted
            BY <1>4, <1>6, <1>13
        <3>4. (x.machineID # None => z.machineID # None)
              /\ (x.providerID # None => z.providerID # None)
            BY <1>10, <1>11, <1>13
        <3> QED
            BY <3>1, <3>2, <3>3, <3>4 DEF Older
    <2>3. OwnMachine(z, cur)
        BY <1>7, <1>10, <1>13 DEF OwnMachine
    <2>4. (z.ready => x.ready) /\ (z.present <=> x.present)
        BY <1>4, <1>6, <1>13
    <2> QED
        BY <1>4, <1>13, <2>1, <2>2, <2>3, <2>4
<1>14. CASE z = Absent /\ y.deleted /\ ~y.finalizer
    <2>1. /\ ~z.present /\ ~z.deleted /\ ~z.finalizer /\ ~z.ready
          /\ z.machineID = None /\ z.providerID = None
        BY <1>14, AbsentFields
    <2>2. Sound(z) /\ Older(x, z) /\ OwnMachine(z, cur)
        BY <2>1 DEF Sound, Older, OwnMachine
    <2>3. before.finalizer /\ ~mem.finalizer /\ before.deleted
        <3>1. x.deleted /\ x.finalizer
            BY <1>4, <1>6, <1>7, <1>14 DEF Sound
        <3> QED
            BY <1>6, <1>8, <1>9, <1>14, <3>1
    <2> QED
        BY <2>1, <2>2, <2>3
<1> QED
    BY <1>1, <1>13, <1>14 DEF Collected

\* The deferred patch.
LEMMA Patching ==
    ASSUME Inv, Inv', CopyInv, PatchSpec \/ PatchSpecFails \/ PatchStatus
    PROVE  CopyInv'
<1>1. pc # "idle" /\ cur \in Objects /\ stored \in [Objects -> Object]
      /\ stored' \in [Objects -> Object] /\ Copies
    BY DEF PatchSpec, PatchSpecFails, PatchStatus, Inv, TypeOK, KubernetesTyped,
           HasObject, CopyInv
<1>2. \A o \in Objects : Sound(stored[o]) /\ Older(stored[o], stored[o])
                         /\ OwnMachine(stored[o], o)
    BY <1>1, OlderPreorder DEF Copies, CopiesOf
<1>3. CASE PatchSpec
    <2>1. /\ pc' = "patchStatus" /\ UNCHANGED <<cur, before, mem, cache, creator, mstate>>
          /\ \A o \in Objects : o # cur => stored'[o] = stored[o]
        BY <1>1, <1>3 DEF PatchSpec, Goto, juju
    <2>2. /\ Sound(stored'[cur]) /\ Older(stored[cur], stored'[cur])
          /\ OwnMachine(stored'[cur], cur)
          /\ stored[cur].present /\ ~stored'[cur].present => before.deleted
        BY <1>3, PatchedSpec
    <2>3. \A o \in Objects :
              /\ Sound(stored'[o]) /\ Older(stored[o], stored'[o])
              /\ OwnMachine(stored'[o], o)
              /\ stored[o].present /\ stored[o].finalizer /\ ~stored'[o].present =>
                    pc # "idle" /\ o = cur /\ before.deleted
        BY <1>1, <1>2, <2>1, <2>2
    <2>4. Copies' /\ Issued' /\ Guarded(before, stored[cur])'
        BY <1>1, <2>1, <2>3, StoredStep
    <2>5. Read'
        BY <1>1, <2>1, <2>4 DEF CopyInv, Read, Sound, OwnMachine, Older
    <2>6. Position'
        BY <2>1 DEF Position, Unedited, Deleting, Provisioning
    <2>7. Edits'
        BY <1>1, <2>1 DEF CopyInv, Edits, OwnMachine
    <2> QED
        BY <2>4, <2>5, <2>6, <2>7 DEF CopyInv
<1>4. CASE PatchSpecFails
    <2>1. pc' = "patchStatus" /\ mem' = mem
          /\ UNCHANGED <<stored, cache, cur, before, creator, mstate>>
        BY <1>4 DEF PatchSpecFails, Goto, k8s, juju
    <2>2. Position'
        BY <2>1 DEF Position, Unedited, Deleting, Provisioning
    <2>3. Edits'
        BY <1>1, <2>1 DEF CopyInv, Edits, OwnMachine
    <2> QED
        BY <1>1, <2>1, <2>2, <2>3, QuietStep
<1>5. CASE PatchStatus
    <2>1. /\ pc' = "idle" /\ UNCHANGED <<cache, creator, mstate>>
          /\ \A o \in Objects : o # cur => stored'[o] = stored[o]
        BY <1>1, <1>5 DEF PatchStatus, EndPass, juju
    <2> DEFINE r == IF StatusChanged THEN mem.ready ELSE stored[cur].ready
    <2>2. /\ stored'[cur] = [stored[cur] EXCEPT !.ready = r]
          /\ stored[cur] \in Object
        BY <1>1, <1>5 DEF PatchStatus
    <2>3. /\ stored'[cur].present = stored[cur].present
          /\ stored'[cur].deleted = stored[cur].deleted
          /\ stored'[cur].finalizer = stored[cur].finalizer
          /\ stored'[cur].machineID = stored[cur].machineID
          /\ stored'[cur].providerID = stored[cur].providerID
          /\ stored'[cur].ready = r
        BY <2>2 DEF Object
    <2>4. stored'[cur].ready => stored'[cur].present
        BY <1>1, <1>2, <1>5, <2>3 DEF PatchStatus, Sound
    <2>5. Sound(stored'[cur]) /\ Older(stored[cur], stored'[cur])
          /\ OwnMachine(stored'[cur], cur)
        BY <1>1, <1>2, <2>3, <2>4 DEF Sound, Older, OwnMachine
    <2>6. \A o \in Objects :
              /\ Sound(stored'[o]) /\ Older(stored[o], stored'[o])
              /\ OwnMachine(stored'[o], o)
              /\ stored[o].present /\ stored[o].finalizer /\ ~stored'[o].present =>
                    pc # "idle" /\ o = cur /\ before.deleted
        BY <1>1, <1>2, <2>1, <2>3, <2>5
    <2>7. Copies' /\ Issued'
        BY <2>1, <2>6, StoredStep
    <2> QED
        BY <2>1, <2>7 DEF CopyInv, Read, Edits, Position, Unedited, Deleting, Provisioning
<1> QED
    BY <1>3, <1>4, <1>5

--------------------------------------------------------------------------------
(* The steps of everybody else.                                            *)

\* Steps that touch neither the objects nor the worker.
LEMMA AsideStep ==
    ASSUME CopyInv, UNCHANGED <<stored, cache, local, creator>>, Issued'
    PROVE  CopyInv'
<1>1. Copies'
    BY DEF CopyInv, Copies, CopiesOf, Sound, Older, Guarded, OwnMachine
<1>2. Read' /\ Edits'
    BY DEF CopyInv, Read, Edits, local, Sound, Older, Guarded, OwnMachine
<1>3. Position'
    BY DEF CopyInv, Position, local, ID
<1> QED
    BY <1>1, <1>2, <1>3 DEF CopyInv

\* Users and Cluster API take nothing back, and an object under the finalizer
\* survives its deletion.
LEMMA ChangedOutside ==
    ASSUME Inv, CopyInv, NEW o \in Objects, Delete(o) \/ SetOwner(o)
    PROVE  /\ Sound(stored'[o]) /\ Older(stored[o], stored'[o])
           /\ OwnMachine(stored'[o], o)
           /\ stored'[o].ready => stored[o].ready
           /\ stored'[o].present => /\ stored'[o].machineID = stored[o].machineID
                                    /\ stored'[o].providerID = stored[o].providerID
           /\ stored[o].present /\ stored[o].finalizer => stored'[o].present
<1>1. /\ stored \in [Objects -> Object] /\ stored[o] \in Object
      /\ Sound(stored[o]) /\ OwnMachine(stored[o], o) /\ stored[o].present
    BY DEF Inv, TypeOK, KubernetesTyped, CopyInv, Copies, CopiesOf, Delete, SetOwner
<1>2. CASE SetOwner(o)
    <2>1. stored'[o] = [stored[o] EXCEPT !.owned = TRUE]
        BY <1>1, <1>2 DEF SetOwner
    <2>2. /\ stored'[o].present = stored[o].present
          /\ stored'[o].deleted = stored[o].deleted
          /\ stored'[o].finalizer = stored[o].finalizer
          /\ stored'[o].machineID = stored[o].machineID
          /\ stored'[o].providerID = stored[o].providerID
          /\ stored'[o].ready = stored[o].ready
        BY <1>1, <2>1 DEF Object
    <2> QED
        BY <1>1, <2>2 DEF Sound, Older, OwnMachine
<1>3. CASE Delete(o)
    <2> DEFINE y == [stored[o] EXCEPT !.deleted = TRUE]
    <2>1. stored'[o] = Collected(y)
        BY <1>1, <1>3 DEF Delete
    <2>2. /\ y.present = stored[o].present /\ y.deleted
          /\ y.finalizer = stored[o].finalizer
          /\ y.machineID = stored[o].machineID
          /\ y.providerID = stored[o].providerID
          /\ y.ready = stored[o].ready
        BY <1>1 DEF Object
    <2>3. CASE stored[o].finalizer
        <3>1. stored'[o] = y
            BY <2>1, <2>2, <2>3 DEF Collected
        <3> QED
            BY <1>1, <2>2, <2>3, <3>1 DEF Sound, Older, OwnMachine
    <2>4. CASE ~stored[o].finalizer
        <3>1. stored'[o] = Absent
            BY <2>1, <2>2, <2>4 DEF Collected
        <3> QED
            BY <2>4, <3>1, AbsentFields DEF Sound, Older, OwnMachine
    <2> QED
        BY <2>3, <2>4
<1> QED
    BY <1>2, <1>3

\* The informer, users and Cluster API.
LEMMA KubernetesCopies == ASSUME Inv, Inv', CopyInv, Kubernetes PROVE CopyInv'
<1>1. /\ stored \in [Objects -> Object] /\ cache \in [Objects -> Object] /\ Copies
      /\ Issued /\ HasObject
    BY DEF Inv, TypeOK, KubernetesTyped, CopyInv
<1>2. UNCHANGED <<local, creator, mstate>>
    BY DEF Kubernetes, Observe, Resync, Delete, SetOwner, DataSecretNamed, Provide, juju
<1>3. Issued'
    BY <1>1, <1>2 DEF Issued
<1>4. ASSUME NEW o \in Objects, Observe(o)
      PROVE  CopyInv'
    <2>1. cache' = [cache EXCEPT ![o] = stored[o]] /\ stored' = stored
        BY <1>4 DEF Observe
    <2>2. Copies'
        <3> SUFFICES ASSUME NEW p \in Objects PROVE CopiesOf(p)'
            BY DEF Copies
        <3>1. /\ CopiesOf(p) /\ stored[p] \in Object /\ Older(stored[p], stored[p])
              /\ cache'[p] = cache[p] \/ cache'[p] = stored[p]
            BY <1>1, <2>1, OlderPreorder DEF Copies
        <3>2. Guarded(stored[p], stored[p])
            BY <3>1, FieldsTyped DEF CopiesOf, Sound, Guarded
        <3> QED
            BY <1>2, <2>1, <3>1, <3>2 DEF CopiesOf, Sound, Older, Guarded, OwnMachine
    <2>3. ASSUME pc # "idle" PROVE Older(before, cache'[cur])
        <3>1. Older(before, stored[cur]) /\ Older(before, cache[cur]) /\ cur \in Objects
            BY <2>3, BeforeIsOlder DEF CopyInv, Read
        <3>2. cache'[cur] = cache[cur] \/ cache'[cur] = stored[cur]
            BY <1>1, <2>1, <3>1
        <3> QED
            BY <3>1, <3>2
    <2>4. Read'
        <3>1. Older(before, cache[cur])' \/ pc = "idle"
            BY <1>2, <2>3 DEF Older, local
        <3> QED
            BY <1>2, <2>1, <3>1 DEF CopyInv, Read, local, Sound, Guarded, OwnMachine
    <2>5. Edits' /\ Position'
        BY <1>2 DEF CopyInv, Edits, Position, local, OwnMachine, ID
    <2> QED
        BY <1>3, <2>2, <2>4, <2>5 DEF CopyInv
<1>5. ASSUME NEW o \in Objects, Delete(o) \/ SetOwner(o)
      PROVE  CopyInv'
    <2>1. UNCHANGED cache /\ \A p \in Objects : p # o => stored'[p] = stored[p]
        BY <1>1, <1>5 DEF Delete, SetOwner
    <2>2. /\ Sound(stored'[o]) /\ Older(stored[o], stored'[o])
          /\ OwnMachine(stored'[o], o)
          /\ stored[o].present /\ stored[o].finalizer => stored'[o].present
        BY <1>5, ChangedOutside
    <2>3. \A p \in Objects : Sound(stored[p]) /\ Older(stored[p], stored[p])
                             /\ OwnMachine(stored[p], p)
        BY <1>1, OlderPreorder DEF Copies, CopiesOf
    <2>4. \A p \in Objects :
              /\ Sound(stored'[p]) /\ Older(stored[p], stored'[p])
              /\ OwnMachine(stored'[p], p)
              /\ stored[p].present /\ stored[p].finalizer /\ ~stored'[p].present =>
                    pc # "idle" /\ p = cur /\ before.deleted
        BY <2>1, <2>2, <2>3
    <2>5. Copies' /\ (pc # "idle" => Guarded(before, stored[cur])')
        BY <1>2, <2>1, <2>4, StoredStep DEF local
    <2>6. Read'
        BY <1>2, <2>1, <2>5 DEF CopyInv, Read, local, Sound, OwnMachine, Older
    <2>7. Edits' /\ Position'
        BY <1>2 DEF CopyInv, Edits, Position, local, OwnMachine, ID
    <2> QED
        BY <1>3, <2>5, <2>6, <2>7 DEF CopyInv
<1>6. CASE UNCHANGED <<stored, cache>>
    BY <1>2, <1>3, <1>6, AsideStep
<1>7. (\/ \E o \in Objects : Resync(o) \/ DataSecretNamed(o)
       \/ \E p \in Prerequisites : Provide(p)) => UNCHANGED <<stored, cache>>
    BY DEF Resync, DataSecretNamed, Provide, k8s
<1> QED
    BY <1>4, <1>5, <1>6, <1>7 DEF Kubernetes

\* No machine becomes absent again, and none appears but by AddMachine.
LEMMA JujuCopies == ASSUME Inv, CopyInv, Unplaced, Juju PROVE CopyInv'
<1>1. UNCHANGED <<stored, cache, local, creator>>
    BY DEF Juju, MachineStarts, MachineStops, MachineLost, NodeRegisters, juju, k8s,
           CloudSetsProviderID, UnitSettles, UnitFails, UnitResolved, UnitRemoved
<1>2. mstate \in [MachineIDs -> Machines] /\ Issued
    BY DEF Inv, TypeOK, JujuTyped, CopyInv
<1>3. \A i \in MachineIDs : mstate'[i] = "absent" <=> mstate[i] = "absent"
    <2>1. PICK i \in MachineIDs :
              \/ MachineStarts(i) \/ MachineStops(i) \/ MachineLost(i)
              \/ NodeRegisters(i) \/ CloudSetsProviderID(i)
              \/ \E a \in Apps : \/ UnitSettles(i, a) \/ UnitFails(i, a)
                                 \/ UnitResolved(i, a) \/ UnitRemoved(i, a)
        BY DEF Juju
    <2>2. CASE MachineStarts(i) \/ MachineStops(i) \/ MachineLost(i)
        BY <1>2, <2>2 DEF MachineStarts, MachineStops, MachineLost, InModel
    <2>3. CASE NodeRegisters(i) \/ CloudSetsProviderID(i)
        BY <2>3 DEF NodeRegisters, CloudSetsProviderID, juju
    <2>4. CASE \E a \in Apps : UnitSettles(i, a) \/ UnitFails(i, a) \/ UnitResolved(i, a)
        BY <2>4 DEF UnitSettles, UnitFails, UnitResolved
    <2>5. ASSUME NEW a \in Apps, UnitRemoved(i, a)
          PROVE  \A j \in MachineIDs : mstate'[j] = "absent" <=> mstate[j] = "absent"
        <3>1. mstate[i] # "absent"
            BY <2>5 DEF UnitRemoved, Unplaced
        <3> QED
            BY <1>2, <2>5, <3>1 DEF UnitRemoved
    <2> QED
        BY <2>1, <2>2, <2>3, <2>4, <2>5
<1>4. Issued'
    BY <1>1, <1>2, <1>3 DEF Issued
<1> QED
    BY <1>1, <1>4, AsideStep

\* The steps of the worker that leave machines and units alone.
LEMMA LeavesJuju ==
    ASSUME Worker, ~AddMachine, ~AddUnit,
           ~\E a \in Apps, force \in BOOLEAN : DestroyUnit(a, force)
    PROVE  UNCHANGED <<mstate, creator, units>>
BY DEF Worker, WaitForOwner, WaitForCluster, ConnectToModel, CallFails, AddFinalizer,
       ReleaseWithoutMachine, StartDeletion, ReleaseAfterMachine, MachineRemains,
       ListUnits, UnitsRequested, StartProvisioning, GetMachineNil, MachineNotReady,
       MachineStarted, AppsNotReady, UnitFound, UnitMissing, AppsReady, NodeMissing,
       JujuProvider, UpdateNode, UpdateNodeFails, CloudProvider, AddressesRead,
       MachineVanished, PatchSpec, PatchSpecFails, PatchStatus, PatchStatusFails, juju

\* A machine that has not been created has no units.
LEMMA UnplacedNext == ASSUME Inv, Unplaced, Next PROVE Unplaced'
<1>1. /\ mstate \in [MachineIDs -> Machines] /\ units \in [MachineIDs -> [Apps -> UnitStates]]
      /\ pc \in HoldsMachine => ID \in MachineIDs
      /\ pc = "addUnit" => pass.app \in Apps
    BY DEF Inv, TypeOK, JujuTyped, HasMachine, AddsMissing
<1>2. CASE UNCHANGED <<mstate, units>>
    BY <1>2 DEF Unplaced
<1>3. CASE Worker
    <2>1. CASE AddMachine
        BY <1>1, <2>1 DEF AddMachine, Unplaced
    <2>2. CASE AddUnit
        BY <1>1, <2>2 DEF AddUnit, Call, HoldsMachine, Unplaced
    <2>3. CASE \E a \in Apps, force \in BOOLEAN : DestroyUnit(a, force)
        BY <1>1, <2>3 DEF DestroyUnit, Call, HoldsMachine, InModel, Unplaced
    <2> QED
        BY <1>2, <1>3, <2>1, <2>2, <2>3, LeavesJuju
<1>4. CASE Juju
    <2>1. PICK i \in MachineIDs :
              \/ MachineStarts(i) \/ MachineStops(i) \/ MachineLost(i)
              \/ NodeRegisters(i) \/ CloudSetsProviderID(i)
              \/ \E a \in Apps : \/ UnitSettles(i, a) \/ UnitFails(i, a)
                                 \/ UnitResolved(i, a) \/ UnitRemoved(i, a)
        BY <1>4 DEF Juju
    <2>2. CASE MachineStarts(i) \/ MachineStops(i) \/ MachineLost(i)
        BY <1>1, <2>2 DEF MachineStarts, MachineStops, MachineLost, Unplaced
    <2>3. CASE NodeRegisters(i) \/ CloudSetsProviderID(i)
        BY <1>2, <2>3 DEF NodeRegisters, CloudSetsProviderID, juju
    <2>4. CASE \E a \in Apps : UnitSettles(i, a) \/ UnitFails(i, a) \/ UnitResolved(i, a)
        BY <1>1, <2>4 DEF UnitSettles, UnitFails, UnitResolved, SetUnit, Unplaced
    <2>5. ASSUME NEW a \in Apps, UnitRemoved(i, a)
          PROVE  Unplaced'
        <3>1. mstate[i] # "absent"
            BY <2>5 DEF UnitRemoved, Unplaced
        <3>2. \A j \in MachineIDs : mstate'[j] = "absent" => mstate[j] = "absent" /\ j # i
            BY <1>1, <2>5, <3>1 DEF UnitRemoved
        <3> QED
            BY <1>1, <2>5, <3>2 DEF UnitRemoved, SetUnit, Unplaced
    <2> QED
        BY <2>1, <2>2, <2>3, <2>4, <2>5
<1>5. Take \/ Restart \/ Kubernetes => UNCHANGED <<mstate, units>>
    BY DEF Take, Forget, Begin, Restart, Kubernetes, Observe, Resync, Delete, SetOwner,
           DataSecretNamed, Provide, juju
<1> QED
    BY <1>2, <1>3, <1>4, <1>5 DEF Next

--------------------------------------------------------------------------------
(* The theorems.                                                           *)

CopiesInv == Unplaced /\ CopyInv

\* The initial states satisfy the invariant.
LEMMA CopiesInit == Init => CopiesInv
<1> SUFFICES ASSUME Init PROVE CopiesInv
    OBVIOUS
<1>1. Created \in Object /\ Created.present /\ ~Created.deleted /\ ~Created.finalizer
      /\ ~Created.ready /\ Created.machineID = None /\ Created.providerID = None
    BY ConstantsTyped DEF Created, Absent
<1>2. Copies
    BY <1>1 DEF Init, Copies, CopiesOf, Sound, Older, Guarded, OwnMachine
<1>3. Unplaced /\ Issued
    BY DEF Init, Unplaced, Issued
<1>4. Read /\ Position /\ Edits
    BY DEF Init, Read, Position, Edits, Unedited, Deleting, Provisioning
<1> QED
    BY <1>2, <1>3, <1>4 DEF CopiesInv, CopyInv

\* Every step keeps the invariant.
LEMMA CopiesNext == Inv /\ Inv' /\ CopiesInv /\ [Next]_vars => CopiesInv'
<1> SUFFICES ASSUME Inv, Inv', CopiesInv, [Next]_vars PROVE CopiesInv'
    OBVIOUS
<1>1. CopyInv /\ Unplaced
    BY DEF CopiesInv
<1>2. CASE Next
    <2>1. Worker => CopyInv'
        BY <1>1, PlainReturns, FinalizerReturns, PlainMoves, Acquiring, Serving,
           Boundaries, Patching DEF Worker
    <2>2. Take \/ Restart => CopyInv'
        BY <1>1, Boundaries DEF Take
    <2>3. Kubernetes \/ Juju => CopyInv'
        BY <1>1, KubernetesCopies, JujuCopies
    <2>4. Unplaced'
        BY <1>1, <1>2, UnplacedNext
    <2> QED
        BY <1>2, <2>1, <2>2, <2>3, <2>4 DEF Next, CopiesInv
<1>3. CASE UNCHANGED vars
    <2>1. UNCHANGED <<stored, cache, local, creator, mstate, units>>
        BY <1>3 DEF vars, local
    <2>2. Unplaced' /\ Issued'
        BY <1>1, <2>1 DEF Unplaced, CopyInv, Issued
    <2> QED
        BY <1>1, <2>1, <2>2, AsideStep DEF CopiesInv
<1> QED
    BY <1>2, <1>3

\* Whatever is outdated, lost or restarted, the copies of an object that the
\* informer, the pass and the API server hold stay in step.
THEOREM CopiesInvariance == Spec => [](Inv /\ CopiesInv)
<1>1. Init => Inv /\ CopiesInv
    BY InvInit, CopiesInit
<1>2. (Inv /\ CopiesInv) /\ [Next]_vars => (Inv /\ CopiesInv)'
    BY InvNext, CopiesNext
<1> QED
    BY <1>1, <1>2, PTL DEF Spec

\* A machine is asked for only for an object that is in the API server and under
\* the finalizer, although the pass decides by a copy that may be outdated.
LEMMA AcquisitionGuarded ==
    Inv /\ CopiesInv /\ [Next]_vars =>
        [\A i \in MachineIDs : creator'[i] # creator[i] =>
            stored[creator'[i]].present /\ stored[creator'[i]].finalizer]_vars
<1> SUFFICES ASSUME Inv, CopiesInv, Next, ~UNCHANGED creator
             PROVE  \A i \in MachineIDs : creator'[i] # creator[i] =>
                       stored[creator'[i]].present /\ stored[creator'[i]].finalizer
    BY DEF vars
<1>1. AddMachine
    <2>1. Take \/ Restart \/ Kubernetes \/ Juju => UNCHANGED creator
        BY DEF Take, Forget, Begin, Restart, Kubernetes, Observe, Resync, Delete,
               SetOwner, DataSecretNamed, Provide, Juju, MachineStarts, MachineStops,
               MachineLost, NodeRegisters, CloudSetsProviderID, UnitSettles, UnitFails,
               UnitResolved, UnitRemoved, juju
    <2>2. (AddUnit \/ \E a \in Apps, force \in BOOLEAN : DestroyUnit(a, force))
              => UNCHANGED creator
        BY DEF AddUnit, DestroyUnit
    <2> QED
        BY <2>1, <2>2, LeavesJuju DEF Next
<1> QED
    BY <1>1, Acquiring DEF CopiesInv

\* Every Juju machine is asked for on behalf of an object that carries the
\* finalizer at that moment, so that its deletion has to come by the controller.
THEOREM AcquiredUnderFinalizer == Spec => AcquiresUnderFinalizer
BY CopiesInvariance, AcquisitionGuarded, PTL DEF Spec, AcquiresUnderFinalizer
================================================================================
