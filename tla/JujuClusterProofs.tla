--------------------------- MODULE JujuClusterProofs ---------------------------
(***************************************************************************)
(* Theorems about JujuCluster, for any applications and integrations and   *)
(* for any budget of faults.                                               *)
(***************************************************************************)
EXTENDS JujuCluster, TLAPS

(***************************************************************************)
(* The inductive invariant.  The worker acts on a copy of the object that  *)
(* may be outdated twice over: the informer's, and what the pass has read  *)
(* of that.  A copy that carries the finalizer and no deletion is proof of *)
(* a finalizer in the API server all the same.  For the only step that     *)
(* removes one follows a deletion, and once the pass has read of it the    *)
(* informer's copy cannot fall behind that again.                          *)
(***************************************************************************)
BuildSteps == {"register", "storeString", "cloud", "credential", "model", "constrain",
               "apps", "expose", "integrations", "certificates", "balancer", "endpoint"}
TearSteps  == {"modelExists", "getModel", "listApps", "destroyApps",
               "destroyController", "deleteSetup", "removeFinalizer"}

\* The API server keeps nothing of an object it has removed.
StoredWhole == stored = {} \/ "present" \in stored
\* What a copy of the object proves of the object itself.
Sound(o) == /\ "deleted" \in o => Ended(stored)
            /\ Building(o) => {"present", "finalizer"} \subseteq stored
Copies == /\ Sound(cache) /\ Sound(before)
          /\ "deleted" \in before => Ended(cache)

\* What the worker's position says of the pass.
Position ==
    /\ pc \in {"idle", "prerequisites"} => pass = NoPass
    /\ pc = "createSetup" => pass.step \in 1..4
    /\ pc \notin {"idle", "panicked"} => "present" \in before
    /\ pc \in BuildSteps => Building(before)
    /\ pc \in TearSteps => {"deleted", "finalizer"} \subseteq before

Inv == TypeOK /\ StoredWhole /\ Copies /\ Position

ObjectsKept == stored \subseteq ObjectFacts /\ cache \subseteq ObjectFacts
               /\ StoredWhole /\ Copies
KubeTyped   == kube \subseteq KubeFacts /\ seen \subseteq KubeFacts
PassInv     == PassTyped /\ Position
BudgetTyped == budget \in [FaultKinds -> Nat]

\* What BuildsUnderFinalizer asks of a step.
Guarded == \/ ~(added' \subseteq added) \/ ~(related' \subseteq related)
           \/ model = "absent" /\ model' = "alive"
           \/ "registration" \in kube' \ kube \/ \E a \in Apps : Rising(a)
           => {"present", "finalizer"} \subseteq stored

--------------------------------------------------------------------------------
(* Facts about the operators the actions are built from.                   *)

\* The parts make up the invariant.
LEMMA Parts ==
    Inv <=> /\ ObjectsKept /\ queued \in BOOLEAN /\ KubeTyped /\ PassInv
            /\ JujuTyped /\ BudgetTyped
BY DEF Inv, TypeOK, ObjectTyped, ObjectsKept, KubeTyped, PassInv, BudgetTyped

\* The same for the next state.
LEMMA PartsNext ==
    Inv' <=> /\ ObjectsKept' /\ queued' \in BOOLEAN /\ KubeTyped' /\ PassInv'
             /\ JujuTyped' /\ BudgetTyped'
BY DEF Inv, TypeOK, ObjectTyped, ObjectsKept, KubeTyped, PassInv, BudgetTyped

\* What a step leaves alone keeps its part.
LEMMA Frames ==
    /\ ObjectsKept /\ UNCHANGED <<stored, cache, before>> => ObjectsKept'
    /\ KubeTyped /\ UNCHANGED <<kube, seen>> => KubeTyped'
    /\ PassInv /\ UNCHANGED local => PassInv'
    /\ JujuTyped /\ UNCHANGED <<juju, valid>> => JujuTyped'
    /\ BudgetTyped /\ UNCHANGED budget => BudgetTyped'
BY DEF ObjectsKept, StoredWhole, Copies, Sound, Ended, Building, KubeTyped,
       PassInv, PassTyped, Position, local, JujuTyped, juju, BudgetTyped

\* A step that leaves Juju and the other objects alone builds nothing.
LEMMA NothingBuilt ==
    /\ UNCHANGED <<kube, juju>> => Guarded
    /\ {"present", "finalizer"} \subseteq stored => Guarded
    /\ UNCHANGED juju /\ "registration" \notin kube' \ kube => Guarded
BY DEF Guarded, juju, Rising

\* The fields the worker writes keep a pass well formed.
LEMMA PassUpdates ==
    ASSUME NEW p \in Pass, NEW n \in 1..6, NEW t \in SUBSET (Apps \cup Integrations),
           NEW s \in SUBSET Apps, NEW b \in BOOLEAN
    PROVE  /\ [p EXCEPT !.step = n] \in Pass
           /\ [p EXCEPT !.unparsable = b] \in Pass
           /\ [p EXCEPT !.todo = t] \in Pass
           /\ [p EXCEPT !.todo = t, !.any = b] \in Pass
           /\ [p EXCEPT !.todo = t, !.alive = s] \in Pass
BY DEF Pass

\* One application or integration has been dealt with.
LEMMA TookOne ==
    ASSUME NEW p \in Pass, NEW x, NEW b \in BOOLEAN
    PROVE  /\ [p EXCEPT !.todo = @ \ {x}] \in Pass
           /\ [p EXCEPT !.todo = @ \ {x}, !.any = b] \in Pass
BY DEF Pass

\* An application has been deployed, or exposed.
LEMMA BareTyped ==
    ASSUME NEW p \in Pass, NEW x, NEW s \in SUBSET Apps
    PROVE  /\ [p EXCEPT !.todo = @ \ {x}, !.any = TRUE, !.bare = s] \in Pass
           /\ [p EXCEPT !.bare = s] \in Pass
BY DEF Pass

\* Every pass starts and ends with a well formed record.
LEMMA NoPassTyped == NoPass \in Pass /\ NoPass.step = 1
BY DEF NoPass, Pass

\* The two lists of objects.
LEMMA Orders ==
    /\ Len(SetupOrder) = 4 /\ Len(TeardownOrder) = 6
    /\ \A n \in 1..4 : SetupOrder[n] \in SetupObjects
BY DEF SetupOrder, TeardownOrder, SetupObjects

\* Spending a fault leaves a budget.
LEMMA SpendTyped ==
    ASSUME BudgetTyped, NEW kind \in FaultKinds, NEW c \in BOOLEAN,
           Spend(kind) \/ SpendIf(c, kind)
    PROVE  BudgetTyped'
<1>1. CASE Spend(kind)
    BY <1>1 DEF BudgetTyped, Spend
<1>2. CASE SpendIf(c, kind)
    BY <1>2 DEF BudgetTyped, Spend, SpendIf
<1> QED
    BY <1>1, <1>2

\* A look at the cache leaves a budget.
LEMMA LookTyped ==
    ASSUME BudgetTyped, NEW facts, LookAt(facts)
    PROVE  BudgetTyped'
BY DEF BudgetTyped, LookAt, Spend, SpendIf, FaultKinds

--------------------------------------------------------------------------------
(* Moves of the worker.                                                    *)

\* The end of a pass forgets the copy it worked on.
LEMMA EndPassInv ==
    ASSUME Inv, NEW again \in BOOLEAN, EndPass(again), UNCHANGED <<stored, cache>>
    PROVE  PassInv' /\ ObjectsKept' /\ queued' \in BOOLEAN
<1>1. PassInv'
    BY NoPassTyped DEF EndPass, PassInv, PassTyped, Position, BuildSteps, TearSteps, Steps
<1>2. ObjectsKept'
    BY Parts DEF EndPass, ObjectsKept, StoredWhole, Copies, Sound, Ended, Building
<1>3. queued' \in BOOLEAN
    BY Parts DEF EndPass
<1> QED
    BY <1>1, <1>2, <1>3

\* A move within a pass, to a step the copy it works on allows.
LEMMA MoveInv ==
    ASSUME PassInv, pc \notin {"idle", "panicked"},
           NEW step \in Steps \ {"idle", "prerequisites", "createSetup"},
           step \in BuildSteps => Building(before),
           step \in TearSteps => {"deleted", "finalizer"} \subseteq before,
           pc' = step, pass' \in Pass, before' = before, mem' \subseteq ObjectFacts
    PROVE  PassInv'
BY DEF PassInv, PassTyped, Position, Building

\* The steps that build, and those that tear down, allow one another.
LEMMA Phases ==
    ASSUME PassInv
    PROVE  /\ pc \in BuildSteps => Building(before)
           /\ pc \in TearSteps => {"deleted", "finalizer"} \subseteq before
           /\ pc \notin {"idle", "panicked"} => "present" \in before
           /\ pass \in Pass /\ mem \subseteq ObjectFacts /\ before \subseteq ObjectFacts
           /\ Deferred \subseteq BuildSteps
           /\ BuildSteps \cap {"idle", "panicked"} = {}
           /\ TearSteps \cap {"idle", "panicked"} = {}
BY DEF PassInv, PassTyped, Position, Deferred, BuildSteps, TearSteps

\* While the worker builds, the object is there and has its finalizer.
LEMMA BuildingGuarded ==
    ASSUME Inv, pc \in BuildSteps
    PROVE  {"present", "finalizer"} \subseteq stored
BY Parts, Phases DEF ObjectsKept, Copies, Sound

\* A step that only ends the pass.
LEMMA EndPassStep ==
    ASSUME Inv, NEW again \in BOOLEAN, EndPass(again),
           UNCHANGED <<stored, cache, kube, seen, juju, valid>>, BudgetTyped'
    PROVE  Inv' /\ Guarded
<1>1. PassInv' /\ ObjectsKept' /\ queued' \in BOOLEAN
    BY EndPassInv
<1>2. KubeTyped' /\ JujuTyped'
    BY Parts, Frames
<1>3. Guarded
    BY NothingBuilt
<1> QED
    BY <1>1, <1>2, <1>3, PartsNext

\* A step that only moves on within the pass.
LEMMA MoveStep ==
    ASSUME Inv, PassInv', UNCHANGED <<stored, cache, queued, kube, seen, before, juju, valid>>,
           BudgetTyped'
    PROVE  Inv' /\ Guarded
<1>1. ObjectsKept' /\ KubeTyped' /\ JujuTyped' /\ queued' \in BOOLEAN
    BY Parts, Frames
<1>2. Guarded
    BY NothingBuilt
<1> QED
    BY <1>1, <1>2, PartsNext

\* A Goto to a step the copy allows.
LEMMA GotoStep ==
    ASSUME Inv, pc \notin {"idle", "panicked"}, NEW step, Goto(step),
           step \in Steps \ {"idle", "prerequisites", "createSetup"},
           step \in BuildSteps => Building(before),
           step \in TearSteps => {"deleted", "finalizer"} \subseteq before,
           UNCHANGED <<stored, cache, kube, seen, juju, valid>>, BudgetTyped'
    PROVE  Inv' /\ Guarded
<1>1. PassInv'
    BY Parts, Phases, MoveInv DEF Goto
<1> QED
    BY <1>1, MoveStep DEF Goto

\* A return, which past the defer leads to the patch.
LEMMA TryAgainInv ==
    ASSUME Inv, pc \notin {"idle", "panicked"}, TryAgain, UNCHANGED <<stored, cache>>
    PROVE  PassInv' /\ ObjectsKept' /\ queued' \in BOOLEAN
<1>1. CASE pc \in Deferred
    <2>1. Goto("patch")
        BY <1>1 DEF TryAgain
    <2>2. PassInv'
        BY <2>1, Parts, Phases, MoveInv DEF Goto, Steps, BuildSteps, TearSteps
    <2> QED
        BY <2>1, <2>2, Parts, Frames DEF Goto
<1>2. CASE pc \notin Deferred
    BY <1>2, EndPassInv DEF TryAgain
<1> QED
    BY <1>1, <1>2

\* The same for a reply that is lost.
LEMMA ReplyLostInv ==
    ASSUME Inv, pc \notin {"idle", "panicked"}, ReplyLost, UNCHANGED <<stored, cache>>
    PROVE  PassInv' /\ ObjectsKept' /\ queued' \in BOOLEAN /\ BudgetTyped'
BY Parts, TryAgainInv, SpendTyped DEF ReplyLost, FaultKinds

\* The next deletion of the list, or the finalizer.
LEMMA NextDeletionInv ==
    ASSUME PassInv, pc = "deleteSetup", NextDeletion
    PROVE  PassInv' /\ UNCHANGED <<before, mem, queued>>
<1>1. pass \in Pass /\ pass.step \in 1..6
    BY DEF PassInv, PassTyped, Pass
<1>2. (IF pass.step < Len(TeardownOrder) THEN pass.step + 1 ELSE pass.step) \in 1..6
    BY <1>1, Orders
<1>3. pass' \in Pass
    BY <1>1, <1>2, PassUpdates DEF NextDeletion
<1>4. PassInv'
    BY <1>3, Phases, MoveInv DEF NextDeletion, Steps, BuildSteps, TearSteps
<1> QED
    BY <1>4 DEF NextDeletion

--------------------------------------------------------------------------------
(* The steps of the worker.                                                *)

\* The steps that do nothing but end the pass.
LEMMA EndingActions ==
    ASSUME Inv,
           \/ WaitForPrerequisites \/ WaitForJob \/ ConfigMissing \/ CreateRefused
           \/ UpdateRefused \/ AppsRemain \/ DeleteRefused \/ StoreRefused \/ PatchFails
    PROVE  Inv' /\ Guarded
<1>1. BudgetTyped
    BY Parts
<1>2. CASE WaitForPrerequisites
    BY <1>1, <1>2, LookTyped, EndPassStep DEF WaitForPrerequisites, ReadAtStart
<1>3. CASE WaitForJob
    BY <1>1, <1>3, LookTyped, EndPassStep DEF WaitForJob, ReadAtStart
<1>4. CASE ConfigMissing
    BY <1>1, <1>4, LookTyped, EndPassStep DEF ConfigMissing, ReadAtStart
<1>5. CASE CreateRefused
    <2>1. BudgetTyped'
        BY <1>1, <1>5, SpendTyped DEF CreateRefused, FaultKinds
    <2> QED
        BY <1>5, <2>1, EndPassStep DEF CreateRefused
<1>6. CASE UpdateRefused
    <2>1. BudgetTyped'
        BY <1>1, <1>6, SpendTyped DEF UpdateRefused, FaultKinds
    <2> QED
        BY <1>6, <2>1, EndPassStep DEF UpdateRefused
<1>7. CASE AppsRemain
    BY <1>1, <1>7, Frames, EndPassStep DEF AppsRemain
<1>8. CASE DeleteRefused
    <2>1. BudgetTyped'
        BY <1>1, <1>8, SpendTyped DEF DeleteRefused, FaultKinds
    <2> QED
        BY <1>8, <2>1, EndPassStep DEF DeleteRefused
<1>9. CASE StoreRefused
    <2>1. BudgetTyped'
        BY <1>1, <1>9, SpendTyped DEF StoreRefused, FaultKinds
    <2> QED
        BY <1>9, <2>1, EndPassStep DEF StoreRefused
<1>10. CASE PatchFails
    <2>1. ("present" \in stored) \in BOOLEAN /\ "patch" \in FaultKinds
        BY DEF FaultKinds
    <2>2. BudgetTyped'
        BY <1>1, <1>10, <2>1, SpendTyped, Zenon DEF PatchFails
    <2> QED
        BY <1>10, <2>2, EndPassStep DEF PatchFails
<1> QED
    BY <1>2, <1>3, <1>4, <1>5, <1>6, <1>7, <1>8, <1>9, <1>10

\* The steps that do nothing but go to another one: setup.
LEMMA SetupMoves ==
    ASSUME Inv,
           \/ StartSetup \/ RegistrationFound \/ CloudFound \/ CredentialUnparsed
           \/ CredentialFound \/ IntegrationsChecked \/ UnitsChecked
    PROVE  Inv' /\ Guarded
<1>1. BudgetTyped /\ PassInv
    BY Parts
<1>2. CASE StartSetup
    BY <1>1, <1>2, Frames, GotoStep
       DEF StartSetup, Steps, JujuCalls, BuildSteps, TearSteps, Building
<1>3. CASE RegistrationFound
    BY <1>1, <1>3, Phases, LookTyped, GotoStep
       DEF RegistrationFound, Steps, JujuCalls, BuildSteps, TearSteps
<1>4. CASE CloudFound
    <2>1. PICK step \in {"credential", "model"} : Goto(step)
        BY <1>4 DEF CloudFound
    <2> QED
        BY <1>1, <1>4, <2>1, Frames, Phases, GotoStep
           DEF CloudFound, Call, Steps, JujuCalls, BuildSteps, TearSteps
<1>5. CASE CredentialUnparsed
    BY <1>1, <1>5, Frames, GotoStep DEF CredentialUnparsed, Steps, BuildSteps, TearSteps
<1>6. CASE CredentialFound
    BY <1>1, <1>6, Frames, Phases, GotoStep
       DEF CredentialFound, Call, Steps, JujuCalls, BuildSteps, TearSteps
<1>7. CASE IntegrationsChecked
    <2>1. PICK step \in {"patch", "certificates"} : Goto(step)
        BY <1>7 DEF IntegrationsChecked
    <2> QED
        BY <1>1, <1>7, <2>1, Frames, Phases, GotoStep
           DEF IntegrationsChecked, Steps, JujuCalls, Deferred, BuildSteps, TearSteps
<1>8. CASE UnitsChecked
    <2>1. PICK step \in {"patch", "balancer", "endpoint"} : Goto(step)
        BY <1>8 DEF UnitsChecked
    <2>2. pc \in {"certificates", "balancer"}
        BY <1>8 DEF UnitsChecked, Call
    <2> QED
        BY <1>1, <1>8, <2>1, <2>2, Frames, Phases, GotoStep
           DEF UnitsChecked, Steps, JujuCalls, Deferred, BuildSteps, TearSteps
<1> QED
    BY <1>2, <1>3, <1>4, <1>5, <1>6, <1>7, <1>8

\* The same at the start of a pass and in teardown.
LEMMA OtherMoves ==
    ASSUME Inv,
           \/ StartBootstrap \/ ConfigMalformed \/ StartTeardown \/ CallFails
           \/ ModelQueryFails \/ ModelQueried \/ ModelRead
    PROVE  Inv' /\ Guarded
<1>1. BudgetTyped /\ PassInv
    BY Parts
<1>2. CASE StartBootstrap
    <2>1. BudgetTyped'
        BY <1>1, <1>2, LookTyped DEF StartBootstrap, ReadAtStart
    <2>2. PassInv'
        BY <1>1, <1>2, NoPassTyped
           DEF StartBootstrap, Goto, PassInv, PassTyped, Position, Steps, BuildSteps,
               TearSteps
    <2> QED
        BY <1>2, <2>1, <2>2, MoveStep DEF StartBootstrap, Goto
<1>3. CASE ConfigMalformed
    <2>1. BudgetTyped'
        BY <1>1, <1>3, LookTyped DEF ConfigMalformed, ReadAtStart
    <2> QED
        BY <1>3, <2>1, GotoStep DEF ConfigMalformed, Steps, BuildSteps, TearSteps
<1>4. CASE StartTeardown
    BY <1>1, <1>4, Frames, GotoStep DEF StartTeardown, Steps, BuildSteps, TearSteps
<1>5. CASE CallFails
    <2>1. pc \notin {"idle", "panicked"}
        BY <1>5 DEF CallFails, JujuCalls, Deferred
    <2>2. PassInv' /\ ObjectsKept' /\ queued' \in BOOLEAN
        BY <1>5, <2>1, TryAgainInv DEF CallFails
    <2>3. BudgetTyped'
        BY <1>1, <1>5, SpendTyped, Zenon DEF CallFails, SpendIf, FaultKinds
    <2>4. KubeTyped' /\ JujuTyped' /\ Guarded
        BY <1>5, Parts, Frames, NothingBuilt DEF CallFails
    <2> QED
        BY <2>2, <2>3, <2>4, PartsNext
<1>6. CASE ModelQueryFails
    <2>1. BudgetTyped'
        BY <1>1, <1>6, SpendTyped DEF ModelQueryFails, Reachable, FaultKinds
    <2> QED
        BY <1>1, <1>6, <2>1, Phases, GotoStep
           DEF ModelQueryFails, Steps, JujuCalls, BuildSteps, TearSteps
<1>7. CASE ModelQueried
    <2>1. PICK step \in {"destroyController", "getModel"} : Goto(step)
        BY <1>7 DEF ModelQueried
    <2> QED
        BY <1>1, <1>7, <2>1, Frames, Phases, GotoStep
           DEF ModelQueried, Call, Steps, JujuCalls, BuildSteps, TearSteps
<1>8. CASE ModelRead
    <2>1. pc = "getModel" /\ BudgetTyped' /\ UNCHANGED <<stored, cache, kube, seen, juju, valid>>
        BY <1>1, <1>8, Frames DEF ModelRead, Call
    <2>2. model \in {"absent", "alive", "dying"}
        BY Parts DEF JujuTyped
    <2>3. CASE Goto("listApps") \/ Goto("destroyController")
        BY <1>1, <2>1, <2>3, Phases, GotoStep DEF Steps, JujuCalls, BuildSteps, TearSteps
    <2>4. CASE TryAgain
        BY <2>1, <2>4, EndPassStep DEF TryAgain, Deferred
    <2> QED
        BY <1>8, <2>2, <2>3, <2>4 DEF ModelRead
<1> QED
    BY <1>2, <1>3, <1>4, <1>5, <1>6, <1>7, <1>8

\* The steps that only change what the pass remembers.
LEMMA RememberingActions ==
    ASSUME Inv,
           \/ Connect \/ ListApps \/ SkipMissing \/ ModelFound \/ AppsChecked
           \/ EndpointRefused \/ MarkReady
           \/ \E a \in Apps : AppFound(a)
           \/ \E i \in Integrations : IntegrationFound(i)
    PROVE  Inv' /\ Guarded
<1>1. BudgetTyped /\ PassInv
    BY Parts
<1>2. pass \in Pass /\ pass.step \in 1..6 /\ pass.todo \subseteq Apps \cup Integrations
    BY <1>1 DEF PassInv, PassTyped, Pass
<1>3. CASE Connect
    <2>1. BudgetTyped'
        BY <1>1, <1>3, LookTyped DEF Connect, ReadAtStart
    <2>2. ("unparsable" \in seen) \in BOOLEAN
        OBVIOUS
    <2>3. pass' \in Pass
        BY <1>2, <1>3, <2>2, PassUpdates, Zenon DEF Connect
    <2>4. PassInv'
        BY <1>1, <1>3, <2>3, Phases, MoveInv DEF Connect, Steps, BuildSteps, TearSteps
    <2> QED
        BY <1>3, <2>1, <2>4, MoveStep DEF Connect, object
<1>4. CASE ListApps
    <2>1. BudgetTyped'
        BY <1>1, <1>4, Frames DEF ListApps
    <2>2. pass' \in Pass
        BY <1>2, <1>4, PassUpdates DEF ListApps
    <2>3. pc = "listApps" /\ pc' = "destroyApps"
          /\ UNCHANGED <<stored, cache, queued, kube, seen, before, mem, juju, valid>>
        BY <1>4 DEF ListApps, Call, object
    <2>4. PassInv'
        BY <1>1, <2>2, <2>3, Phases, MoveInv DEF Steps, JujuCalls, BuildSteps, TearSteps
    <2> QED
        BY <2>1, <2>3, <2>4, MoveStep
<1>5. CASE SkipMissing
    <2>1. BudgetTyped'
        BY <1>1, <1>5, LookTyped DEF SkipMissing
    <2>2. PassInv' /\ UNCHANGED <<before, queued>>
        BY <1>1, <1>5, NextDeletionInv DEF SkipMissing
    <2> QED
        BY <1>5, <2>1, <2>2, MoveStep DEF SkipMissing
<1>6. CASE ModelFound
    <2>1. BudgetTyped'
        BY <1>1, <1>6, Frames DEF ModelFound
    <2>2. pass' \in Pass
        BY <1>2, <1>6, PassUpdates DEF ModelFound
    <2>3. PassInv'
        BY <1>1, <1>6, <2>2, Phases, MoveInv
           DEF ModelFound, Call, Steps, JujuCalls, Deferred, BuildSteps, TearSteps
    <2> QED
        BY <1>6, <2>1, <2>3, MoveStep DEF ModelFound, object
<1>7. CASE AppsChecked
    <2>1. BudgetTyped' /\ UNCHANGED <<stored, cache, kube, seen, juju, valid>> /\ pc = "apps"
        BY <1>1, <1>7, Frames DEF AppsChecked
    <2>2. CASE Goto("patch")
        BY <1>1, <2>1, <2>2, GotoStep DEF Steps, BuildSteps, TearSteps
    <2>3. CASE ~pass.any
        <3>1. pass' \in Pass
            BY <1>2, <1>7, <2>3, PassUpdates DEF AppsChecked
        <3>2. PassInv'
            BY <1>1, <1>7, <2>3, <3>1, Phases, MoveInv
               DEF AppsChecked, Steps, JujuCalls, Deferred, BuildSteps, TearSteps
        <3> QED
            BY <1>7, <2>1, <2>3, <3>2, MoveStep DEF AppsChecked
    <2> QED
        BY <1>7, <2>2, <2>3 DEF AppsChecked
<1>8. CASE EndpointRefused \/ MarkReady
    <2>1. BudgetTyped'
        BY <1>1, <1>8, SpendTyped, Frames DEF EndpointRefused, MarkReady, FaultKinds
    <2>2. mem' \subseteq ObjectFacts
        BY <1>1, <1>8, Phases DEF EndpointRefused, MarkReady, ObjectFacts
    <2>3. PassInv'
        BY <1>1, <1>8, <2>2, Phases, MoveInv
           DEF EndpointRefused, MarkReady, Call, Steps, BuildSteps, TearSteps
    <2> QED
        BY <1>8, <2>1, <2>3, MoveStep DEF EndpointRefused, MarkReady, object
<1>9. ASSUME NEW x, AppFound(x) \/ IntegrationFound(x)
      PROVE  Inv' /\ Guarded
    <2>1. BudgetTyped'
        BY <1>1, <1>9, Frames DEF AppFound, IntegrationFound
    <2>2. pass' \in Pass
        <3>1. pass' = [pass EXCEPT !.todo = @ \ {x}]
            BY <1>9 DEF AppFound, IntegrationFound
        <3> QED
            BY <1>2, <3>1, TookOne
    <2>3. PassInv'
        BY <1>1, <1>9, <2>2, Phases, MoveInv
           DEF AppFound, IntegrationFound, Call, Steps, JujuCalls, Deferred,
               BuildSteps, TearSteps
    <2> QED
        BY <1>9, <2>1, <2>3, MoveStep DEF AppFound, IntegrationFound, object
<1> QED
    BY <1>3, <1>4, <1>5, <1>6, <1>7, <1>8, <1>9

\* The steps that change other Kubernetes objects.
LEMMA ObjectCreations ==
    ASSUME Inv, CreateObject \/ DeleteObject \/ ResetPassword \/ StoreString
    PROVE  Inv' /\ Guarded
<1>1. BudgetTyped /\ PassInv /\ ObjectsKept /\ queued \in BOOLEAN /\ KubeTyped /\ JujuTyped
    BY Parts
<1>2. pass \in Pass /\ pass.step \in 1..6
    BY <1>1 DEF PassInv, PassTyped, Pass
<1>3. CASE CreateObject
    <2>1. pass.step \in 1..4 /\ SetupOrder[pass.step] \in SetupObjects
        BY <1>1, <1>3, Orders DEF CreateObject, PassInv, Position
    <2>2. KubeTyped' /\ JujuTyped' /\ Guarded
        <3>1. KubeTyped'
            BY <1>1, <1>3, <2>1 DEF CreateObject, KubeTyped, KubeFacts
        <3>2. "registration" \notin kube' \ kube /\ UNCHANGED <<juju, valid>>
            BY <1>3, <2>1 DEF CreateObject, SetupObjects
        <3> QED
            BY <1>1, <3>1, <3>2, Frames, NothingBuilt
    <2>3. CASE pass.step < 4 /\ pass' = [pass EXCEPT !.step = @ + 1]
               /\ UNCHANGED <<pc, before, mem, queued, budget>>
        <3>1. pass.step + 1 \in 1..4 /\ pass.step + 1 \in 1..6
            BY <2>1, <2>3
        <3>2. pass' \in Pass
            BY <1>2, <2>3, <3>1, PassUpdates
        <3>3. pass'.step = pass.step + 1
            BY <1>2, <2>3 DEF Pass
        <3>4. PassInv'
            BY <1>1, <1>3, <2>3, <3>1, <3>2, <3>3
               DEF CreateObject, PassInv, PassTyped, Position, BuildSteps, TearSteps
        <3>5. ObjectsKept' /\ BudgetTyped' /\ queued' \in BOOLEAN
            BY <1>1, <1>3, <2>3, Frames DEF CreateObject
        <3> QED
            BY <2>2, <3>4, <3>5, PartsNext
    <2>4. CASE EndPass(TRUE) /\ (UNCHANGED budget \/ Spend("api"))
        <3>1. BudgetTyped'
            BY <1>1, <2>4, SpendTyped, Frames DEF FaultKinds
        <3>2. UNCHANGED <<stored, cache>>
            BY <1>3 DEF CreateObject
        <3> QED
            BY <2>2, <2>4, <3>1, <3>2, EndPassInv, PartsNext
    <2> QED
        BY <1>3, <2>3, <2>4, Orders DEF CreateObject
<1>4. CASE DeleteObject
    <2>1. KubeTyped'
        BY <1>1, <1>4 DEF DeleteObject, Without, KubeTyped, KubeFacts
    <2>2. "registration" \notin kube' \ kube /\ UNCHANGED <<stored, cache, juju, valid>>
        BY <1>4 DEF DeleteObject, Without
    <2>3. JujuTyped' /\ Guarded
        BY <1>1, <2>2, Frames, NothingBuilt
    <2>4. CASE NextDeletion /\ UNCHANGED budget
        <3>1. PassInv' /\ UNCHANGED <<before, queued>>
            BY <1>1, <1>4, <2>4, NextDeletionInv DEF DeleteObject
        <3>2. ObjectsKept' /\ BudgetTyped'
            BY <1>1, <2>2, <2>4, <3>1, Frames
        <3> QED
            BY <1>1, <2>1, <2>3, <3>1, <3>2, PartsNext
    <2>5. CASE EndPass(TRUE) /\ Spend("api")
        <3>1. BudgetTyped'
            BY <1>1, <2>5, SpendTyped DEF FaultKinds
        <3> QED
            BY <2>1, <2>2, <2>3, <2>5, <3>1, EndPassInv, PartsNext
    <2> QED
        BY <1>4, <2>4, <2>5 DEF DeleteObject
<1>5. CASE ResetPassword
    <2>1. /\ pc = "register" /\ valid' = FALSE
          /\ UNCHANGED <<stored, cache, kube, seen, juju>>
        BY <1>5 DEF ResetPassword, Call
    <2>2. JujuTyped' /\ KubeTyped' /\ Guarded
        BY <1>1, <2>1, Frames, NothingBuilt DEF JujuTyped, juju
    <2>3. CASE LookAt({"registration"}) /\ Goto("storeString")
        <3>1. BudgetTyped'
            BY <1>1, <2>3, LookTyped
        <3>2. PassInv'
            BY <1>1, <2>1, <2>3, Phases, MoveInv DEF Goto, Steps, BuildSteps, TearSteps
        <3>3. ObjectsKept' /\ queued' \in BOOLEAN
            BY <1>1, <2>1, <2>3, Frames DEF Goto
        <3> QED
            BY <2>2, <3>1, <3>2, <3>3, PartsNext
    <2>4. CASE ReplyLost
        BY <2>1, <2>2, <2>4, ReplyLostInv, PartsNext
    <2> QED
        BY <1>5, <2>3, <2>4 DEF ResetPassword
<1>6. CASE StoreString
    <2>1. /\ pc = "storeString" /\ valid' = TRUE
          /\ kube' = kube \cup {"registration"} /\ UNCHANGED <<stored, cache, seen, juju>>
        BY <1>6 DEF StoreString
    <2>2. JujuTyped' /\ KubeTyped'
        BY <1>1, <2>1 DEF JujuTyped, juju, KubeTyped, KubeFacts
    <2>3. Guarded
        BY <2>1, BuildingGuarded, NothingBuilt DEF BuildSteps
    <2>4. CASE Goto("cloud") /\ UNCHANGED budget
        <3>1. PassInv'
            BY <1>1, <2>1, <2>4, Phases, MoveInv
               DEF Goto, Steps, JujuCalls, BuildSteps, TearSteps
        <3>2. ObjectsKept' /\ queued' \in BOOLEAN /\ BudgetTyped'
            BY <1>1, <2>1, <2>4, Frames DEF Goto
        <3> QED
            BY <2>2, <2>3, <3>1, <3>2, PartsNext
    <2>5. CASE EndPass(TRUE) /\ Spend("api")
        <3>1. BudgetTyped'
            BY <1>1, <2>5, SpendTyped DEF FaultKinds
        <3> QED
            BY <2>1, <2>2, <2>3, <2>5, <3>1, EndPassInv, PartsNext
    <2> QED
        BY <1>6, <2>4, <2>5 DEF StoreString
<1> QED
    BY <1>3, <1>4, <1>5, <1>6

\* The steps that change the JujuCluster itself: nothing is built by them.
LEMMA ObjectUpdates ==
    ASSUME Inv, AddFinalizer \/ RemoveFinalizer
    PROVE  Inv' /\ Guarded
<1>1. BudgetTyped /\ PassInv /\ ObjectsKept /\ KubeTyped /\ JujuTyped /\ queued \in BOOLEAN
    BY Parts
<1>2. PICK again \in BOOLEAN :
          EndPass(again) /\ (UNCHANGED budget \/ Spend("api"))
    BY DEF AddFinalizer, RemoveFinalizer
<1>3. UNCHANGED <<cache, kube, seen, juju, valid>> /\ stored = before
    BY DEF AddFinalizer, RemoveFinalizer, Update
<1>4. BudgetTyped' /\ KubeTyped' /\ JujuTyped' /\ Guarded
    BY <1>1, <1>2, <1>3, SpendTyped, Frames, NothingBuilt DEF FaultKinds
<1>5. PassInv' /\ before' = {} /\ queued' \in BOOLEAN
    BY <1>1, <1>2, NoPassTyped
       DEF EndPass, PassInv, PassTyped, Position, BuildSteps, TearSteps, Steps
<1>6. ObjectsKept'
    <2>1. "present" \in before /\ before \subseteq ObjectFacts
        BY <1>1, Phases DEF AddFinalizer, RemoveFinalizer
    <2>2. CASE AddFinalizer
        <3>1. stored' = stored \cup {"finalizer", "written"} /\ "deleted" \notin stored
            BY <1>3, <2>2 DEF AddFinalizer, Update, Collected
        <3> QED
            BY <1>1, <1>3, <1>5, <2>1, <3>1
               DEF ObjectsKept, StoredWhole, Copies, Sound, Ended, Building, ObjectFacts
    <2>3. CASE RemoveFinalizer
        <3>1. stored' = {} /\ "deleted" \in before
            BY <1>1, <2>3, Phases DEF RemoveFinalizer, Update, Collected, TearSteps
        <3> QED
            BY <1>1, <1>3, <1>5, <3>1
               DEF ObjectsKept, StoredWhole, Copies, Sound, Ended, Building, ObjectFacts
    <2> QED
        BY <2>2, <2>3
<1> QED
    BY <1>4, <1>5, <1>6, PartsNext

\* The endpoint and the patch add facts, and take none away.
LEMMA SpecUpdates ==
    ASSUME Inv, SetEndpoint \/ Patch
    PROVE  Inv' /\ Guarded
<1>1. BudgetTyped /\ PassInv /\ ObjectsKept /\ KubeTyped /\ JujuTyped /\ queued \in BOOLEAN
    BY Parts
<1>2. UNCHANGED <<cache, kube, seen, juju, valid, budget>>
    BY DEF SetEndpoint, Patch
<1>3. BudgetTyped' /\ KubeTyped' /\ JujuTyped' /\ Guarded
    BY <1>1, <1>2, Frames, NothingBuilt
<1>4. before \subseteq ObjectFacts /\ mem \subseteq ObjectFacts
    BY <1>1, Phases
<1>5. CASE SetEndpoint
    <2>1. pc = "endpoint" /\ pc' = "patch" /\ Building(before) /\ stored = before
          /\ UNCHANGED <<before, pass, queued>>
        BY <1>1, <1>5, Phases DEF SetEndpoint, Call, Update, BuildSteps
    <2>2. stored' = stored \cup {"endpoint", "written"} /\ mem' \subseteq ObjectFacts
        BY <1>4, <1>5, <2>1 DEF SetEndpoint, Update, Collected, Building, ObjectFacts
    <2>3. ObjectsKept'
        BY <1>1, <1>2, <1>4, <2>1, <2>2
           DEF ObjectsKept, StoredWhole, Copies, Sound, Ended, Building, ObjectFacts
    <2>4. PassInv'
        BY <1>1, <2>1, <2>2, Phases, MoveInv DEF Steps, BuildSteps, TearSteps
    <2> QED
        BY <1>1, <1>3, <2>1, <2>3, <2>4, PartsNext
<1>6. CASE Patch
    <2>1. "present" \in stored /\ stored' = stored \cup (mem \ before) /\ EndPass(TRUE)
        BY <1>6 DEF Patch
    <2>2. PassInv' /\ before' = {} /\ queued' \in BOOLEAN
        BY <1>1, <2>1, NoPassTyped
           DEF EndPass, PassInv, PassTyped, Position, BuildSteps, TearSteps, Steps
    <2>3. ObjectsKept'
        BY <1>1, <1>2, <1>4, <2>1, <2>2
           DEF ObjectsKept, StoredWhole, Copies, Sound, Ended, Building
    <2> QED
        BY <1>3, <2>2, <2>3, PartsNext
<1> QED
    BY <1>5, <1>6

\* A pass begins with a copy of the informer's copy; a restart forgets both.
LEMMA PassBoundaries ==
    ASSUME Inv, Begin \/ Forget \/ Restart
    PROVE  Inv' /\ Guarded
<1>1. BudgetTyped /\ PassInv /\ ObjectsKept /\ KubeTyped /\ JujuTyped /\ queued \in BOOLEAN
    BY Parts
<1>2. UNCHANGED <<stored, kube, juju, valid>>
    BY DEF Begin, Forget, Restart, object
<1>3. JujuTyped' /\ Guarded
    BY <1>1, <1>2, Frames, NothingBuilt
<1>4. CASE Begin
    <2>1. BudgetTyped'
        <3>1. (cache # stored) \in BOOLEAN /\ "stale" \in FaultKinds
            BY DEF FaultKinds
        <3> QED
            BY <1>1, <1>4, <3>1, SpendTyped, Zenon DEF Begin
    <2>2. KubeTyped' /\ queued' \in BOOLEAN
        BY <1>1, <1>4, Frames DEF Begin
    <2>3. PassInv'
        BY <1>1, <1>4, NoPassTyped
           DEF Begin, PassInv, PassTyped, Position, ObjectsKept, BuildSteps, TearSteps, Steps
    <2>4. ObjectsKept'
        BY <1>1, <1>4
           DEF Begin, ObjectsKept, StoredWhole, Copies, Sound, Ended, Building
    <2> QED
        BY <1>3, <2>1, <2>2, <2>3, <2>4, PartsNext
<1>5. CASE Forget
    <2>1. PassInv' /\ KubeTyped' /\ BudgetTyped' /\ queued' \in BOOLEAN
        BY <1>1, <1>5, Frames DEF Forget
    <2>2. ObjectsKept'
        BY <1>1, <1>5, Frames DEF Forget, local
    <2> QED
        BY <1>3, <2>1, <2>2, PartsNext
<1>6. CASE Restart
    <2>1. BudgetTyped'
        BY <1>1, <1>6, SpendTyped DEF Restart, FaultKinds
    <2>2. KubeTyped' /\ queued' \in BOOLEAN
        BY <1>1, <1>6 DEF Restart, KubeTyped
    <2>3. PassInv'
        BY <1>6, NoPassTyped
           DEF Restart, PassInv, PassTyped, Position, BuildSteps, TearSteps, Steps
    <2>4. ObjectsKept'
        BY <1>1, <1>6
           DEF Restart, ObjectsKept, StoredWhole, Copies, Sound, Ended, Building
    <2> QED
        BY <1>3, <2>1, <2>2, <2>3, <2>4, PartsNext
<1> QED
    BY <1>4, <1>5, <1>6

\* A step of the worker that only changes Juju, from a step that builds or one
\* that builds nothing, and that goes on within the pass or returns.
LEMMA JujuStep ==
    ASSUME Inv, pc \notin {"idle", "panicked"},
           UNCHANGED <<stored, cache, kube, seen, valid>>, JujuTyped', Guarded,
           \/ /\ pass' \in Pass /\ (pc = "createSetup" => pass' = pass)
              /\ pc # "prerequisites"
              /\ UNCHANGED <<pc, before, mem, queued, budget>>
           \/ /\ pass' \in Pass /\ pc \in BuildSteps /\ pc' \in BuildSteps
              /\ UNCHANGED <<before, mem, queued, budget>>
           \/ ReplyLost
           \/ TryAgain /\ BudgetTyped'
    PROVE  Inv' /\ Guarded
<1>1. BudgetTyped /\ PassInv /\ ObjectsKept /\ KubeTyped /\ queued \in BOOLEAN
    BY Parts
<1>2. KubeTyped'
    BY <1>1, Frames
<1>3. CASE /\ pass' \in Pass /\ (pc = "createSetup" => pass' = pass)
           /\ pc # "prerequisites"
           /\ UNCHANGED <<pc, before, mem, queued, budget>>
    <2>1. PassInv'
        BY <1>1, <1>3 DEF PassInv, PassTyped, Position
    <2>2. ObjectsKept' /\ BudgetTyped' /\ queued' \in BOOLEAN
        BY <1>1, <1>3, Frames
    <2> QED
        BY <1>2, <2>1, <2>2, PartsNext
<1>4. CASE ReplyLost
    BY <1>2, <1>4, ReplyLostInv, PartsNext
<1>5. CASE TryAgain /\ BudgetTyped'
    BY <1>2, <1>5, TryAgainInv, PartsNext
<1>6. CASE /\ pass' \in Pass /\ pc \in BuildSteps /\ pc' \in BuildSteps
           /\ UNCHANGED <<before, mem, queued, budget>>
    <2>1. pc' \in Steps \ {"idle", "prerequisites", "createSetup"} /\ pc' \notin TearSteps
        BY <1>6 DEF Steps, JujuCalls, Deferred, BuildSteps, TearSteps
    <2>2. PassInv'
        BY <1>1, <1>6, <2>1, Phases, MoveInv
    <2>3. ObjectsKept' /\ BudgetTyped' /\ queued' \in BOOLEAN
        BY <1>1, <1>6, Frames
    <2> QED
        BY <1>2, <2>2, <2>3, PartsNext
<1> QED
    BY <1>3, <1>4, <1>5, <1>6

\* What Juju does to an application that is asked to go never makes one.
LEMMA DoomedTyped ==
    ASSUME NEW state \in AppStates, NEW force \in BOOLEAN
    PROVE  Doomed(state, force) \in AppStates /\ (Doomed(state, force) # "absent" <=> state # "absent")
BY DEF Doomed, AppStates

\* The steps of the worker that build.
LEMMA BuildingActions ==
    ASSUME Inv,
           \/ AddCloud \/ AddCredential \/ CreateModel \/ SetConstraints \/ Expose
           \/ \E a \in Apps : CreateApp(a)
           \/ \E i \in Integrations : CreateIntegration(i)
    PROVE  Inv' /\ Guarded
<1>1. BudgetTyped /\ PassInv /\ JujuTyped
    BY Parts
<1>2. pass \in Pass /\ pass.todo \subseteq Apps \cup Integrations
    BY <1>1 DEF PassInv, PassTyped, Pass
<1>3. /\ pc \in BuildSteps /\ pc \notin {"idle", "panicked", "createSetup", "prerequisites"}
      /\ UNCHANGED <<stored, cache, kube, seen, valid>>
    BY DEF AddCloud, AddCredential, CreateModel, SetConstraints, Expose, CreateApp,
           CreateIntegration, Call, BuildSteps
<1>4. Guarded
    BY <1>3, BuildingGuarded, NothingBuilt
<1>5. CASE AddCloud \/ AddCredential \/ SetConstraints
    <2>1. JujuTyped' /\ BudgetTyped' /\ TryAgain
        BY <1>1, <1>5, Frames DEF AddCloud, AddCredential, SetConstraints, JujuTyped
    <2> QED
        BY <1>3, <1>4, <2>1, JujuStep
<1>6. CASE CreateModel
    <2>1. JujuTyped'
        BY <1>1, <1>6 DEF CreateModel, JujuTyped
    <2>2. \/ Goto("constrain") /\ UNCHANGED budget
          \/ ReplyLost
        BY <1>6 DEF CreateModel
    <2> QED
        BY <1>2, <1>3, <1>4, <2>1, <2>2, JujuStep DEF Goto, BuildSteps
<1>7. ASSUME NEW a \in Apps, CreateApp(a)
      PROVE  Inv' /\ Guarded
    <2>1. [pass EXCEPT !.todo = @ \ {a}, !.any = TRUE, !.bare = {a} \cap ExposedApps]
              \in Pass
        BY <1>2, BareTyped
    <2>2. apps' \in [Apps -> AppStates]
        BY <1>1, <1>7 DEF CreateApp, JujuTyped, AppStates
    <2>3. JujuTyped'
        BY <1>1, <1>7, <2>2 DEF CreateApp, JujuTyped
    <2>4. pc' \in {"expose", "apps"} \/ ReplyLost
        BY <1>7 DEF CreateApp
    <2> QED
        BY <1>3, <1>4, <1>7, <2>1, <2>3, <2>4, JujuStep DEF CreateApp, BuildSteps
<1>9. CASE Expose
    <2>1. [pass EXCEPT !.bare = {}] \in Pass /\ pass.bare \subseteq Apps
        BY <1>2, BareTyped DEF Pass
    <2>2. JujuTyped'
        BY <1>1, <1>9, <2>1 DEF Expose, JujuTyped
    <2> QED
        BY <1>3, <1>4, <1>9, <2>1, <2>2, JujuStep DEF Expose, BuildSteps
<1>8. ASSUME NEW i \in Integrations, CreateIntegration(i)
      PROVE  Inv' /\ Guarded
    <2>1. [pass EXCEPT !.todo = @ \ {i}, !.any = TRUE] \in Pass
        BY <1>2, TookOne
    <2>2. JujuTyped'
        BY <1>1, <1>8 DEF CreateIntegration, JujuTyped
    <2> QED
        BY <1>3, <1>4, <1>8, <2>1, <2>2, JujuStep DEF CreateIntegration
<1> QED
    BY <1>5, <1>6, <1>7, <1>8, <1>9

\* The steps of the worker that tear down: they build nothing.
LEMMA DestroyingActions ==
    ASSUME Inv,
           DestroyModel \/ DestroyController \/ \E a \in Apps : DestroyApp(a)
    PROVE  Inv' /\ Guarded
<1>1. BudgetTyped /\ PassInv /\ JujuTyped
    BY Parts
<1>2. /\ pass \in Pass /\ pass.todo \subseteq Apps \cup Integrations
    BY <1>1 DEF PassInv, PassTyped, Pass
<1>3. /\ pc \in {"destroyApps", "destroyController"}
      /\ UNCHANGED <<stored, cache, kube, seen, added, exposed, related, valid>>
    BY DEF DestroyModel, DestroyController, DestroyApp, Call
<1>4. CASE DestroyModel
    <2>1. /\ JujuTyped' /\ BudgetTyped' /\ EndPass(TRUE) /\ TryAgain
        BY <1>1, <1>4, <1>3, Frames DEF DestroyModel, JujuTyped, TryAgain, Deferred
    <2>2. Guarded
        BY <1>3, <1>4 DEF DestroyModel, Guarded, Rising
    <2> QED
        BY <1>3, <2>1, <2>2, JujuStep
<1>5. CASE DestroyController
    <2>1. apps' \in [Apps -> AppStates] /\ \A a \in Apps : ~Rising(a)
        BY <1>1, <1>5, DoomedTyped DEF DestroyController, JujuTyped, Rising
    <2>2. JujuTyped'
        BY <1>1, <1>3, <1>5, <2>1 DEF DestroyController, JujuTyped
    <2>3. Guarded
        BY <1>3, <1>5, <2>1 DEF DestroyController, Guarded
    <2>4. CASE Goto("deleteSetup") /\ UNCHANGED budget
        <3>1. PassInv'
            BY <1>1, <1>3, <2>4, Phases, MoveInv DEF Goto, Steps, BuildSteps, TearSteps
        <3>2. ObjectsKept' /\ BudgetTyped' /\ KubeTyped' /\ queued' \in BOOLEAN
            BY <1>3, <2>4, Parts, Frames DEF Goto
        <3> QED
            BY <2>2, <2>3, <3>1, <3>2, PartsNext
    <2>5. CASE ReplyLost
        BY <1>3, <2>2, <2>3, <2>5, JujuStep
    <2> QED
        BY <1>5, <2>4, <2>5 DEF DestroyController
<1>6. ASSUME NEW a \in Apps, DestroyApp(a)
      PROVE  Inv' /\ Guarded
    <2>1. (apps[a] # "absent") \in BOOLEAN /\ pass.any \in BOOLEAN
        BY <1>2 DEF Pass
    <2>2. (pass.any \/ apps[a] # "absent") \in BOOLEAN
        OBVIOUS
    <2>3. [pass EXCEPT !.todo = @ \ {a}, !.any = (pass.any \/ apps[a] # "absent")] \in Pass
        BY <1>2, <2>2, TookOne, Zenon
    <2>4. [pass EXCEPT !.todo = @ \ {a}, !.any = (@ \/ apps[a] # "absent")] \in Pass
        BY <2>3, Zenon
    <2>5. apps' \in [Apps -> AppStates] /\ \A b \in Apps : ~Rising(b)
        <3>1. apps \in [Apps -> AppStates] /\ apps[a] \in AppStates
            BY <1>1 DEF JujuTyped
        <3>2. InError(a) \in BOOLEAN
            BY DEF InError
        <3> DEFINE state == Doomed(apps[a], InError(a))
        <3>3. state \in AppStates /\ (state # "absent" <=> apps[a] # "absent")
            BY <3>1, <3>2, DoomedTyped, Zenon
        <3>4. apps' = apps \/ apps' = [apps EXCEPT ![a] = state]
            BY <1>6, Zenon DEF DestroyApp
        <3> HIDE DEF state
        <3> QED
            BY <3>1, <3>3, <3>4 DEF Rising
    <2>6. JujuTyped'
        BY <1>1, <1>3, <1>6, <2>5 DEF DestroyApp, JujuTyped
    <2>7. Guarded
        BY <1>3, <1>6, <2>5 DEF DestroyApp, Guarded
    <2>8. \/ pass' \in Pass /\ UNCHANGED <<pc, before, mem, queued, budget>>
          \/ ReplyLost
        BY <1>6, <2>4, Zenon DEF DestroyApp
    <2> QED
        BY <1>3, <2>6, <2>7, <2>8, JujuStep
<1> QED
    BY <1>4, <1>5, <1>6

--------------------------------------------------------------------------------
(* The steps of everybody else.                                            *)

\* Steps that leave the worker and the object alone.
LEMMA OutsideStep ==
    ASSUME Inv, UNCHANGED <<object, local>>, KubeTyped', JujuTyped', BudgetTyped'
    PROVE  Inv'
BY Parts, PartsNext, Frames DEF object, local

\* The informers, users, Cluster API and the job keep the invariant.
LEMMA KubernetesActions == ASSUME Inv, Kubernetes PROVE Inv' /\ Guarded
<1>1. BudgetTyped /\ PassInv /\ ObjectsKept /\ KubeTyped /\ JujuTyped /\ queued \in BOOLEAN
    BY Parts
<1>2. CASE Observe \/ SetOwner \/ Delete
    <2>1. UNCHANGED <<kube, seen, local, juju, valid, budget>>
        BY <1>2 DEF Observe, SetOwner, Delete
    <2>2. KubeTyped' /\ PassInv' /\ JujuTyped' /\ BudgetTyped' /\ Guarded
        BY <1>1, <2>1, Frames, NothingBuilt
    <2>3. queued' \in BOOLEAN
        BY <1>1, <1>2 DEF Observe, SetOwner, Delete
    <2>4. ObjectsKept'
        BY <1>1, <1>2, <2>1
           DEF Observe, SetOwner, Delete, Collected, local, ObjectsKept, StoredWhole,
               Copies, Sound, Ended, Building, ObjectFacts
    <2> QED
        BY <2>2, <2>3, <2>4, PartsNext
<1>3. CASE ObserveOthers
    <2>1. KubeTyped' /\ JujuTyped' /\ BudgetTyped' /\ PassInv' /\ Guarded
        BY <1>1, <1>3, Frames, NothingBuilt DEF ObserveOthers, KubeTyped
    <2>2. ObjectsKept' /\ queued' \in BOOLEAN
        BY <1>1, <1>3, Frames DEF ObserveOthers, local
    <2> QED
        BY <2>1, <2>2, PartsNext
<1>4. CASE ProvideCredential \/ RunJob
    <2>1. UNCHANGED <<object, seen, local, juju, valid>>
        BY <1>4 DEF ProvideCredential, RunJob
    <2>2. PICK facts \in SUBSET (KubeFacts \ {"registration"}) : kube' = kube \cup facts
        <3>1. CASE ProvideCredential
            BY <3>1 DEF ProvideCredential, KubeFacts
        <3>2. CASE RunJob
            BY <3>2 DEF RunJob, KubeFacts, SetupObjects
        <3> QED
            BY <1>4, <3>1, <3>2
    <2>3. KubeTyped' /\ "registration" \notin kube' \ kube
        BY <1>1, <2>1, <2>2 DEF KubeTyped
    <2>4. BudgetTyped'
        BY <1>1, <1>4, SpendTyped, Frames DEF ProvideCredential, RunJob, FaultKinds
    <2> QED
        BY <1>1, <2>1, <2>3, <2>4, OutsideStep, Frames, NothingBuilt
<1>5. CASE NamespaceTerminates
    <2>1. UNCHANGED <<object, seen, local, valid, budget>>
        BY <1>5 DEF NamespaceTerminates
    <2>2. KubeTyped' /\ JujuTyped' /\ BudgetTyped'
        BY <1>1, <1>5, <2>1, Frames
           DEF NamespaceTerminates, KubeTyped, JujuTyped, AppStates
    <2>3. Guarded
        BY <1>5 DEF NamespaceTerminates, Guarded, Rising
    <2> QED
        BY <2>1, <2>2, <2>3, OutsideStep
<1>6. CASE CollectRegistration
    <2>1. UNCHANGED <<object, seen, local, juju, valid, budget>>
        BY <1>6 DEF CollectRegistration
    <2>2. KubeTyped' /\ "registration" \notin kube' \ kube
        BY <1>1, <1>6, <2>1 DEF CollectRegistration, KubeTyped
    <2> QED
        BY <1>1, <2>1, <2>2, OutsideStep, Frames, NothingBuilt
<1> QED
    BY <1>2, <1>3, <1>4, <1>5, <1>6 DEF Kubernetes

\* Juju keeps the invariant: of its own accord it builds nothing.
LEMMA JujuActions == ASSUME Inv, Juju PROVE Inv' /\ Guarded
<1>1. BudgetTyped /\ KubeTyped /\ JujuTyped
    BY Parts
<1>2. CASE ModelRemoved
    <2>1. UNCHANGED <<object, kube, seen, local, apps, exposed, related, valid, budget>>
        BY <1>2 DEF ModelRemoved
    <2>2. KubeTyped' /\ JujuTyped' /\ BudgetTyped'
        BY <1>1, <1>2, <2>1, Frames DEF ModelRemoved, JujuTyped
    <2>3. Guarded
        BY <1>2, <2>1 DEF ModelRemoved, Guarded, Rising
    <2> QED
        BY <2>1, <2>2, <2>3, OutsideStep
<1>3. ASSUME NEW a \in Apps,
             AppSettles(a) \/ UnitFails(a) \/ UnitResolved(a) \/ AppRemoved(a)
      PROVE  Inv' /\ Guarded
    <2>1. UNCHANGED <<object, kube, seen, local, added, model, valid>>
          /\ exposed' \subseteq exposed /\ related' \subseteq related
        BY <1>3 DEF AppSettles, UnitFails, UnitResolved, AppRemoved, SetApp
    <2>2. apps[a] # "absent" /\ \E state \in AppStates : apps' = [apps EXCEPT ![a] = state]
        BY <1>3 DEF AppSettles, UnitFails, UnitResolved, AppRemoved, SetApp, AppStates
    <2>3. KubeTyped' /\ JujuTyped'
        BY <1>1, <2>1, <2>2, Frames DEF JujuTyped
    <2>4. BudgetTyped'
        BY <1>1, <1>3, SpendTyped, Frames
           DEF AppSettles, UnitFails, UnitResolved, AppRemoved, FaultKinds
    <2>5. Guarded
        BY <1>1, <2>1, <2>2 DEF Guarded, Rising, JujuTyped
    <2> QED
        BY <2>1, <2>3, <2>4, <2>5, OutsideStep
<1> QED
    BY <1>2, <1>3 DEF Juju

--------------------------------------------------------------------------------
(* The theorems.                                                           *)

\* The initial states satisfy the invariant.
LEMMA InvInit == Init => Inv
<1> SUFFICES ASSUME Init PROVE Inv
    OBVIOUS
<1>1. ObjectsKept /\ KubeTyped /\ queued \in BOOLEAN
    BY DEF Init, ObjectsKept, KubeTyped, StoredWhole, Copies, Sound, Ended, Building,
           ObjectFacts
<1>2. PassInv
    BY NoPassTyped DEF Init, PassInv, PassTyped, Position, Steps, BuildSteps, TearSteps
<1>3. JujuTyped /\ BudgetTyped
    BY BudgetAssumption DEF Init, JujuTyped, AppStates, BudgetTyped
<1> QED
    BY <1>1, <1>2, <1>3, Parts

\* Every step keeps the invariant, and builds only for an object that has its
\* finalizer.
LEMMA InvNext == Inv /\ [Next]_vars => Inv' /\ [Guarded]_vars
<1> SUFFICES ASSUME Inv, [Next]_vars PROVE Inv' /\ [Guarded]_vars
    OBVIOUS
<1>1. CASE Begin \/ Restart
    BY <1>1, PassBoundaries
<1>2. CASE Worker
    <2>1. CASE \/ WaitForPrerequisites \/ WaitForJob \/ ConfigMissing \/ CreateRefused
               \/ UpdateRefused \/ AppsRemain \/ DeleteRefused \/ StoreRefused
               \/ PatchFails
        BY <2>1, EndingActions
    <2>2. CASE \/ StartSetup \/ RegistrationFound \/ CloudFound \/ CredentialUnparsed
               \/ CredentialFound \/ IntegrationsChecked \/ UnitsChecked
        BY <2>2, SetupMoves
    <2>3. CASE \/ StartBootstrap \/ ConfigMalformed \/ StartTeardown \/ CallFails
               \/ ModelQueryFails \/ ModelQueried \/ ModelRead
        BY <2>3, OtherMoves
    <2>4. CASE \/ Connect \/ ListApps \/ SkipMissing \/ ModelFound \/ AppsChecked
               \/ EndpointRefused \/ MarkReady
               \/ \E a \in Apps : AppFound(a)
               \/ \E i \in Integrations : IntegrationFound(i)
        BY <2>4, RememberingActions
    <2>5. CASE \/ CreateObject \/ DeleteObject \/ ResetPassword \/ StoreString
               \/ AddFinalizer \/ RemoveFinalizer \/ SetEndpoint \/ Patch \/ Forget
        BY <2>5, ObjectCreations, ObjectUpdates, SpecUpdates, PassBoundaries
    <2>6. CASE \/ AddCloud \/ AddCredential \/ CreateModel \/ SetConstraints \/ Expose
               \/ DestroyModel \/ DestroyController
               \/ \E a \in Apps : CreateApp(a) \/ DestroyApp(a)
               \/ \E i \in Integrations : CreateIntegration(i)
        BY <2>6, BuildingActions, DestroyingActions
    <2> QED
        BY <1>2, <2>1, <2>2, <2>3, <2>4, <2>5, <2>6 DEF Worker
<1>3. CASE Kubernetes \/ Juju
    BY <1>3, KubernetesActions, JujuActions
<1>4. CASE UNCHANGED vars
    <2>1. UNCHANGED <<object, local, kube, seen, juju, valid, budget>>
        BY <1>4 DEF vars, object, local, juju
    <2> QED
        BY <1>4, <2>1, Parts, Frames, OutsideStep
<1> QED
    BY <1>1, <1>2, <1>3, <1>4 DEF Next

\* The inductive invariant holds of every behaviour.
THEOREM Invariance == Spec => []Inv
<1>1. Inv /\ [Next]_vars => Inv'
    BY InvNext
<1> QED
    BY <1>1, InvInit, PTL DEF Spec

\* Every variable has its type in every reachable state.
THEOREM TypeCorrect == Spec => []TypeOK
<1>1. Inv => TypeOK
    BY DEF Inv
<1> QED
    BY <1>1, Invariance, PTL

\* Whatever fails, is lost, is stale or restarts, and whatever the applications
\* and integrations are, the worker builds only what a deletion has to come back
\* for: the object has its finalizer in the API server at that moment.
THEOREM GuardedBuilding == Spec => BuildsUnderFinalizer
<1>1. Inv /\ [Next]_vars => [Guarded]_vars
    BY InvNext
<1>2. Spec => [][Guarded]_vars
    BY <1>1, Invariance, PTL DEF Spec
<1> QED
    BY <1>2 DEF Guarded, BuildsUnderFinalizer
================================================================================
