--------------------------- MODULE JujuClusterSafety ---------------------------
(***************************************************************************)
(* More theorems about JujuCluster: what it takes to be ready, what is     *)
(* left of a JujuCluster, and what no fault, or only the faults of Juju,   *)
(* can do to it.  They rest on the invariant of JujuClusterProofs.         *)
(***************************************************************************)
EXTENDS JujuClusterProofs, FiniteSetTheorems

(***************************************************************************)
(* The inductive invariant, in addition to Inv.                            *)
(***************************************************************************)
\* Faults are spent, never regained.
Within == \A k \in FaultKinds : budget[k] <= FaultBudget[k]

\* Nothing in Juju is on its way out, and everything is there.
Standing == /\ model # "dying" /\ "terminating" \notin kube
            /\ \A a \in Apps : apps[a] \notin {"dying", "stuck"}
Whole == /\ model = "alive" /\ Integrations \subseteq related
         /\ \A a \in Apps : apps[a] # "absent"

\* What a pass has edited, and what no copy is ahead of.
EditInv ==
    /\ cache = {} => stored = {}
    /\ "endpoint" \in cache \cup before => "endpoint" \in stored \/ stored = {}
    /\ pc # "patch" => mem = before
    /\ pc = "patch" => Building(before)
    /\ pc = "patch" => \/ mem \in {before, before \cup {"endpoint", "written"}}
                       \/ mem = before \cup {"ready"} /\ "endpoint" \in before /\ Whole

\* A Juju controller that is gone has taken everything along, as has a model.
HostInv == /\ "terminating" \in kube => "namespace" \in kube
           /\ "succeeded" \in kube => "job" \in kube
           /\ "namespace" \notin kube => model = "absent"
           /\ model = "absent" => \A a \in Apps : apps[a] = "absent"

\* Nothing goes before a pass has read of the deletion, and no pass reads of
\* anything else from then on: what a pass has found stays.
FoundInv ==
    /\ ~Ended(cache) \/ Building(before) => Standing
    /\ pc \in Deferred => model = "alive"
    /\ pc \in {"apps", "expose"} => \A a \in Apps \ pass.todo : apps[a] # "absent"
    /\ pc \in {"integrations", "certificates", "balancer", "endpoint"} =>
          \A a \in Apps : apps[a] # "absent"
    /\ pc = "integrations" => Integrations \ pass.todo \subseteq related
    /\ pc \in {"certificates", "balancer", "endpoint"} => Integrations \subseteq related
    /\ "ready" \in stored /\ "deleted" \notin stored => Whole

\* The second halves of a creation that are neither done nor up next are not more than
\* the interruptions: the worker comes past each of them once, on its way out of the
\* first half, for a later pass takes the creation for done.
Unexposed == {a \in ExposedApps : apps[a] # "absent" /\ a \notin exposed}
Unset     == model # "absent" /\ "constraints" \notin added
Missing   == Unexposed \ (IF pc = "expose" THEN pass.bare ELSE {})
MissingConstraints == IF Unset /\ pc # "constrain" THEN 1 ELSE 0
Halves    == Cardinality(Missing) + MissingConstraints
HalvesInv ==
    /\ pc = "constrain" => model = "alive"
    /\ pc = "expose" => \E a \in ExposedApps : pass.bare = {a}
    /\ pc \in {"expose", "constrain"} => "ready" \notin stored \/ "deleted" \in stored
    /\ Halves <= Interruptions

RegistrationInv == "registration" \in kube /\ Spared({"stale"}) => valid

\* A teardown looks into a model that is alive and stays so, knows of every
\* application there is, and comes to the controller past a model that is alive
\* only if the query for it has failed.
EmptyInv ==
    /\ pc \in {"listApps", "destroyApps"} => model = "alive" /\ "terminating" \notin kube
    /\ pc = "destroyApps" =>
          pass.any \/ \A a \in Apps : apps[a] # "absent" => a \in pass.todo
    /\ pc = "destroyController" /\ Spared({"call"}) => model # "alive" \/ ~Reachable

\* The lists of objects are gone through from the start; and with fresh caches,
\* what the teardown has come past is gone.
Listing == {"createSetup", "deleteSetup", "removeFinalizer"}
ReleaseInv ==
    /\ pc \notin Listing => pass.step = 1
    /\ Spared({"stale"}) =>
          /\ pc \in TearSteps \cup {"branch"} => ("job" \in kube => "succeeded" \in kube)
          /\ pc = "deleteSetup" =>
                \A n \in 1..6 : n < pass.step => TeardownOrder[n] \notin kube
          /\ pc = "removeFinalizer" => /\ kube \cap SetupObjects = {}
                                       /\ "namespace" \in kube => "terminating" \in kube

\* The job's data and the config secret come and go together, except in the middle of
\* a teardown; and an idle worker has an object to come back to, or an event that
\* will make it.
Interrupts == {"stale", "crash", "api"}
QueueInv ==
    /\ "finalizer" \notin stored => "written" \notin stored
    /\ "finalizer" \notin cache => "written" \notin cache
    /\ Spared(Interrupts) /\ {"job", "succeeded"} \subseteq kube /\ "config" \notin kube =>
          pc = "deleteSetup" /\ pass.step \in 3..5
    /\ Spared(Interrupts) /\ pc = "idle" /\ "present" \in stored /\ ~queued =>
          Generation(cache) # Generation(stored)

\* As long as only Juju fails: the job's data and the user's secret are good; no
\* job runs beside a controller; a controller without its job is on its way out, to
\* the end; and nobody comes between a teardown and the object it works for.
InTeardown(o) == {"owned", "deleted", "finalizer"} \subseteq o
DataGood == /\ {"malformed", "unparsable"} \cap kube = {}
            /\ "unparsable" \notin seen /\ ~pass.unparsable
            /\ pc # "panicked"
JobAlone == /\ "job" \in kube /\ "succeeded" \notin kube => "namespace" \notin kube
            /\ pc = "createSetup" => {"job", "namespace"} \cap kube = {}
JobLast == "namespace" \in kube /\ "job" \notin kube =>
              \/ pc = "deleteSetup" /\ pass.step = 6
              \/ pc = "removeFinalizer"
              \/ pc = "idle" /\ stored = {}
Undisturbed == /\ InTeardown(before) => stored = before
               /\ pc \in TearSteps \cup {"branch"} => "owned" \in before
BootInv == Spared(OtherThanJuju) => DataGood /\ JobAlone /\ JobLast /\ Undisturbed

--------------------------------------------------------------------------------
(* Which steps change what.                                                *)

\* The steps that only read change nothing but the pass, the queue and the budget.
LEMMA Reading ==
    ASSUME \/ Begin \/ Forget
           \/ WaitForPrerequisites \/ WaitForJob \/ ConfigMissing \/ CreateRefused
           \/ UpdateRefused \/ AppsRemain \/ DeleteRefused \/ StoreRefused \/ PatchFails
           \/ StartSetup \/ RegistrationFound \/ CloudFound \/ CredentialUnparsed
           \/ CredentialFound \/ IntegrationsChecked \/ UnitsChecked
           \/ StartBootstrap \/ ConfigMalformed \/ StartTeardown \/ CallFails
           \/ ModelQueryFails \/ ModelQueried \/ ModelRead
           \/ Connect \/ ListApps \/ SkipMissing \/ ModelFound \/ AppsChecked
           \/ EndpointRefused \/ MarkReady
           \/ \E a \in Apps : AppFound(a)
           \/ \E i \in Integrations : IntegrationFound(i)
    PROVE  UNCHANGED <<stored, cache, kube, seen, juju, valid>>
<1>1. CASE \/ Begin \/ Forget
           \/ WaitForPrerequisites \/ WaitForJob \/ ConfigMissing \/ CreateRefused
           \/ UpdateRefused \/ AppsRemain \/ DeleteRefused \/ StoreRefused \/ PatchFails
    BY <1>1, Zenon DEF Begin, Forget, WaitForPrerequisites, WaitForJob, ConfigMissing, CreateRefused,
               UpdateRefused, AppsRemain, DeleteRefused, StoreRefused, PatchFails
<1>2. CASE \/ StartSetup \/ RegistrationFound \/ CloudFound \/ CredentialUnparsed
           \/ CredentialFound \/ IntegrationsChecked \/ UnitsChecked
           \/ StartBootstrap \/ ConfigMalformed \/ StartTeardown \/ CallFails
           \/ ModelQueryFails \/ ModelQueried \/ ModelRead
    BY <1>2, Zenon DEF StartSetup, RegistrationFound, CloudFound, CredentialUnparsed,
               CredentialFound, IntegrationsChecked, UnitsChecked, StartBootstrap,
               ConfigMalformed, StartTeardown, CallFails, ModelQueryFails, ModelQueried,
               ModelRead
<1>3. CASE \/ Connect \/ ListApps \/ SkipMissing \/ ModelFound \/ AppsChecked
           \/ EndpointRefused \/ MarkReady
           \/ \E a \in Apps : AppFound(a)
           \/ \E i \in Integrations : IntegrationFound(i)
    BY <1>3 DEF Connect, ListApps, SkipMissing, ModelFound, AppsChecked,
               EndpointRefused, MarkReady, AppFound, IntegrationFound, object
<1> QED
    BY <1>1, <1>2, <1>3

\* The rest are few enough to name.
LEMMA Writing ==
    ASSUME [Next]_vars
    PROVE  \/ UNCHANGED <<stored, cache, kube, seen, juju, valid>>
           \/ CreateObject \/ DeleteObject \/ ResetPassword \/ StoreString
           \/ AddFinalizer \/ RemoveFinalizer \/ SetEndpoint \/ Patch
           \/ AddCloud \/ AddCredential \/ CreateModel \/ SetConstraints
           \/ Expose \/ DestroyModel
           \/ DestroyController \/ Restart \/ Kubernetes \/ Juju
           \/ \E a \in Apps : CreateApp(a) \/ DestroyApp(a)
           \/ \E i \in Integrations : CreateIntegration(i)
<1>1. CASE Begin
    BY <1>1, Reading
<1>2. CASE Worker
    BY <1>2, Reading DEF Worker
<1>3. CASE UNCHANGED vars
    BY <1>3 DEF vars, juju
<1> QED
    BY <1>1, <1>2, <1>3 DEF Next

\* The steps that change the object, and those that refresh the copy of it.
LEMMA ObjectWriters ==
    ASSUME [Next]_vars
    PROVE  /\ \/ UNCHANGED stored
              \/ AddFinalizer \/ RemoveFinalizer \/ SetEndpoint \/ Patch
              \/ SetOwner \/ Delete
           /\ UNCHANGED cache \/ Observe \/ Restart
           /\ UNCHANGED seen \/ ObserveOthers \/ Restart
BY Writing
   DEF CreateObject, DeleteObject, ResetPassword, StoreString, AddFinalizer,
       RemoveFinalizer, SetEndpoint, Patch, AddCloud, AddCredential, CreateModel,
       SetConstraints, Expose, DestroyModel, DestroyController, Restart, CreateApp,
       DestroyApp, CreateIntegration, Kubernetes, Observe, ObserveOthers, SetOwner,
       Delete, ProvideCredential, RunJob, NamespaceTerminates, CollectRegistration,
       Juju, ModelRemoved, AppSettles, UnitFails, UnitResolved, AppRemoved, SetApp,
       object

\* The steps that change other Kubernetes objects, and the string's validity.
LEMMA KubeWriters ==
    ASSUME [Next]_vars
    PROVE  /\ \/ UNCHANGED kube
              \/ CreateObject \/ DeleteObject \/ StoreString \/ ProvideCredential
              \/ RunJob \/ NamespaceTerminates \/ CollectRegistration
           /\ UNCHANGED valid \/ ResetPassword \/ StoreString
BY Writing
   DEF CreateObject, DeleteObject, ResetPassword, StoreString, AddFinalizer,
       RemoveFinalizer, SetEndpoint, Patch, AddCloud, AddCredential, CreateModel,
       SetConstraints, Expose, DestroyModel, DestroyController, Restart, CreateApp,
       DestroyApp, CreateIntegration, Kubernetes, Observe, ObserveOthers, SetOwner,
       Delete, ProvideCredential, RunJob, NamespaceTerminates, CollectRegistration,
       Juju, ModelRemoved, AppSettles, UnitFails, UnitResolved, AppRemoved, SetApp

\* The steps that change Juju.
LEMMA JujuWriters ==
    ASSUME [Next]_vars
    PROVE  \/ UNCHANGED juju
           \/ AddCloud \/ AddCredential \/ CreateModel \/ SetConstraints
           \/ Expose \/ DestroyModel
           \/ DestroyController \/ NamespaceTerminates \/ Juju
           \/ \E a \in Apps : CreateApp(a) \/ DestroyApp(a)
           \/ \E i \in Integrations : CreateIntegration(i)
BY Writing
   DEF CreateObject, DeleteObject, ResetPassword, StoreString, AddFinalizer,
       RemoveFinalizer, SetEndpoint, Patch, Restart,
       Kubernetes, Observe, ObserveOthers, SetOwner, Delete, ProvideCredential, RunJob,
       CollectRegistration

\* A step spends a fault, or none.
LEMMA CalmSpending ==
    ASSUME Begin \/ Worker \/ Kubernetes \/ Juju \/ UNCHANGED vars
    PROVE  UNCHANGED budget \/ \E k \in FaultKinds \ {"crash"} : Spend(k)
<1>1. CASE \/ Begin \/ Forget
           \/ WaitForPrerequisites \/ WaitForJob \/ ConfigMissing \/ CreateRefused
           \/ UpdateRefused \/ AppsRemain \/ DeleteRefused \/ StoreRefused \/ PatchFails
           \/ StartSetup \/ RegistrationFound \/ CloudFound \/ CredentialUnparsed
           \/ CredentialFound \/ IntegrationsChecked \/ UnitsChecked
    BY <1>1 DEF Begin, Forget, WaitForPrerequisites, WaitForJob, ConfigMissing,
           CreateRefused, UpdateRefused, AppsRemain, DeleteRefused, StoreRefused,
           PatchFails, StartSetup, RegistrationFound, CloudFound, CredentialUnparsed,
           CredentialFound, IntegrationsChecked, UnitsChecked, ReadAtStart, LookAt,
           SpendIf, FaultKinds
<1>2. CASE \/ StartBootstrap \/ ConfigMalformed \/ StartTeardown \/ CallFails
           \/ ModelQueryFails \/ ModelQueried \/ ModelRead
           \/ Connect \/ ListApps \/ SkipMissing \/ ModelFound \/ AppsChecked
           \/ EndpointRefused \/ MarkReady
           \/ \E a \in Apps : AppFound(a)
           \/ \E i \in Integrations : IntegrationFound(i)
    BY <1>2 DEF StartBootstrap, ConfigMalformed, StartTeardown, CallFails, ModelQueryFails,
           ModelQueried, ModelRead, Connect, ListApps, SkipMissing, ModelFound,
           AppsChecked, EndpointRefused, MarkReady, AppFound, IntegrationFound,
           ReadAtStart, LookAt, SpendIf, FaultKinds
<1>3. CASE \/ CreateObject \/ DeleteObject \/ ResetPassword \/ StoreString
           \/ AddFinalizer \/ RemoveFinalizer \/ SetEndpoint \/ Patch
           \/ AddCloud \/ AddCredential \/ CreateModel \/ SetConstraints
           \/ Expose \/ DestroyModel
           \/ DestroyController
           \/ \E a \in Apps : CreateApp(a) \/ DestroyApp(a)
           \/ \E i \in Integrations : CreateIntegration(i)
    BY <1>3 DEF CreateObject, DeleteObject, ResetPassword, StoreString, AddFinalizer,
                RemoveFinalizer, SetEndpoint, Patch, AddCloud, AddCredential,
                CreateModel, SetConstraints, Expose, DestroyModel, DestroyController,
                CreateApp, DestroyApp, CreateIntegration, ReplyLost, LookAt, SpendIf,
                FaultKinds
<1>4. CASE Kubernetes \/ Juju
    BY <1>4 DEF Kubernetes, Observe, ObserveOthers, SetOwner, Delete, ProvideCredential,
           RunJob, NamespaceTerminates, CollectRegistration, Juju, ModelRemoved,
           AppSettles, UnitFails, UnitResolved, AppRemoved, SetApp, SpendIf, FaultKinds
<1>5. CASE UNCHANGED vars
    BY <1>5 DEF vars
<1> QED
    <2>1. CASE Worker
        BY <1>1, <1>2, <1>3, <2>1 DEF Worker
    <2> QED
        BY <1>1, <1>4, <1>5, <2>1

LEMMA Spending ==
    ASSUME [Next]_vars
    PROVE  UNCHANGED budget \/ \E k \in FaultKinds : Spend(k)
BY CalmSpending DEF Next, Restart, SpendIf, FaultKinds

\* Faults that have not happened after a step have not happened in it or before.
LEMMA Unspent ==
    ASSUME Inv, Within, [Next]_vars, NEW kinds \in SUBSET FaultKinds
    PROVE  /\ Within'
           /\ Spared(kinds)' => Spared(kinds) /\ \A k \in kinds : ~Spend(k)
<1>1. BudgetTyped /\ FaultBudget \in [FaultKinds -> Nat]
    BY Parts, BudgetAssumption
<1>2. CASE UNCHANGED budget
    BY <1>1, <1>2 DEF Within, Spared, Spend, BudgetTyped
<1>3. ASSUME NEW k \in FaultKinds, Spend(k)
      PROVE  /\ Within'
             /\ Spared(kinds)' => Spared(kinds) /\ \A l \in kinds : ~Spend(l)
    <2>1. \A l \in FaultKinds : budget[l] \in Nat /\ FaultBudget[l] \in Nat
        BY <1>1 DEF BudgetTyped
    <2>2. /\ \A l \in FaultKinds \ {k} : budget'[l] = budget[l]
          /\ budget'[k] = budget[k] - 1
        BY <1>1, <1>3 DEF Spend, BudgetTyped
    <2>3. Within' /\ budget'[k] # FaultBudget[k]
        BY <2>1, <2>2 DEF Within
    <2>4. ASSUME Spared(kinds)'
          PROVE  Spared(kinds) /\ \A l \in kinds : ~Spend(l)
        <3>1. k \notin kinds
            BY <2>3, <2>4 DEF Spared
        <3>2. \A l \in kinds : budget'[l] = budget[l] /\ budget[l] \in Nat
            BY <2>1, <2>2, <3>1
        <3>3. ASSUME NEW l \in kinds PROVE ~Spend(l)
            BY <1>1, <3>2 DEF Spend, BudgetTyped
        <3> QED
            BY <2>4, <3>2, <3>3 DEF Spared
    <2> QED
        BY <2>3, <2>4
<1> QED
    BY <1>2, <1>3, Spending

\* A look into a cache that is not outdated shows what is there.
LEMMA FreshLook ==
    ASSUME NEW facts, LookAt(facts), ~Spend("stale")
    PROVE  seen \cap facts = kube \cap facts
BY DEF LookAt, SpendIf

\* Where the worker can come to, and by which steps: ends of a pass.
LEMMA Ending ==
    ASSUME Inv, [Next]_vars, pc' = "idle"
    PROVE  \/ UNCHANGED <<local, queued>>
           \/ UNCHANGED local /\ (Forget \/ Kubernetes)
           \/ Restart \/ EndPass(TRUE)
           \/ EndPass(FALSE) /\ (ConfigMissing \/ AddFinalizer \/ RemoveFinalizer)
<1>1. CASE \/ Begin \/ Forget \/ Restart
           \/ WaitForPrerequisites \/ WaitForJob \/ ConfigMissing \/ CreateRefused
           \/ UpdateRefused \/ AppsRemain \/ DeleteRefused \/ StoreRefused \/ PatchFails
           \/ StartSetup \/ RegistrationFound \/ CloudFound \/ CredentialUnparsed
           \/ CredentialFound \/ IntegrationsChecked \/ UnitsChecked
    BY <1>1 DEF Begin, Forget, WaitForPrerequisites, WaitForJob, ConfigMissing,
           CreateRefused, UpdateRefused, AppsRemain, DeleteRefused, StoreRefused,
           PatchFails, StartSetup, RegistrationFound, CloudFound, CredentialUnparsed,
           CredentialFound, IntegrationsChecked, UnitsChecked, Goto
<1>2. CASE \/ StartBootstrap \/ ConfigMalformed \/ StartTeardown \/ CallFails
           \/ ModelQueryFails \/ ModelQueried \/ ModelRead
           \/ Connect \/ ListApps \/ SkipMissing \/ ModelFound \/ AppsChecked
           \/ EndpointRefused \/ MarkReady
           \/ \E a \in Apps : AppFound(a)
           \/ \E i \in Integrations : IntegrationFound(i)
    <2>1. model \in {"absent", "alive", "dying"}
        BY Parts DEF JujuTyped
    <2> QED
        BY <1>2, <2>1
           DEF StartBootstrap, ConfigMalformed, StartTeardown, CallFails, ModelQueryFails,
               ModelQueried, ModelRead, Connect, ListApps, SkipMissing, NextDeletion,
               ModelFound, AppsChecked, EndpointRefused, MarkReady, AppFound,
               IntegrationFound, Call, Goto, TryAgain
<1>3. CASE \/ CreateObject \/ DeleteObject \/ ResetPassword \/ StoreString
           \/ AddFinalizer \/ RemoveFinalizer \/ SetEndpoint \/ Patch
           \/ AddCloud \/ AddCredential \/ CreateModel \/ SetConstraints
           \/ Expose \/ DestroyModel
           \/ DestroyController
           \/ \E a \in Apps : CreateApp(a) \/ DestroyApp(a)
           \/ \E i \in Integrations : CreateIntegration(i)
    BY <1>3 DEF CreateObject, DeleteObject, NextDeletion, ResetPassword, StoreString,
                AddFinalizer, RemoveFinalizer, SetEndpoint, Patch, AddCloud,
                AddCredential, CreateModel, SetConstraints, Expose, DestroyModel,
                DestroyController, CreateApp, DestroyApp, CreateIntegration,
                ReplyLost, Call, Goto, TryAgain
<1>4. CASE Kubernetes
    BY <1>4 DEF Kubernetes, Observe, ObserveOthers, SetOwner, Delete, ProvideCredential,
           RunJob, NamespaceTerminates, CollectRegistration, object
<1>5. CASE Juju \/ UNCHANGED vars
    BY <1>5 DEF Juju, ModelRemoved, AppSettles, UnitFails, UnitResolved, AppRemoved,
           SetApp, vars, object, local
<1> QED
    <2>1. CASE Worker
        BY <1>1, <1>2, <1>3, <2>1 DEF Worker
    <2> QED
        BY <1>1, <1>4, <1>5, <2>1 DEF Next

\* The same for the steps of a pass.
LEMMA Arriving ==
    ASSUME Inv, [Next]_vars, local' # local
    PROVE  /\ pc' = "prerequisites" => Begin
           /\ pc' = "createSetup" => StartBootstrap \/ CreateObject
           /\ pc' = "branch" => Connect
           /\ pc' = "modelExists" => StartTeardown
           /\ pc' = "getModel" => ModelQueried
           /\ pc' = "listApps" => ModelRead
           /\ pc' = "destroyApps" => ListApps \/ \E a \in Apps : DestroyApp(a)
           /\ pc' = "destroyController" => ModelQueryFails \/ ModelQueried \/ ModelRead
           /\ pc' = "deleteSetup" => DestroyController \/ SkipMissing \/ DeleteObject
           /\ pc' = "removeFinalizer" => SkipMissing \/ DeleteObject
           /\ pc' = "constrain" => CreateModel
           /\ pc' = "apps" =>
                 ModelFound \/ Expose \/ \E a \in Apps : AppFound(a) \/ CreateApp(a)
           /\ pc' = "expose" => \E a \in Apps : CreateApp(a)
           /\ pc' = "integrations" =>
                 AppsChecked \/ \E i \in Integrations : IntegrationFound(i) \/ CreateIntegration(i)
           /\ pc' = "certificates" => IntegrationsChecked
           /\ pc' \in {"balancer", "endpoint"} => UnitsChecked
           /\ pc' = "patch" => \/ pc \in Deferred /\ Goto("patch")
                               \/ SetEndpoint \/ EndpointRefused \/ MarkReady
           /\ pc' = "panicked" => ConfigMalformed \/ CredentialUnparsed
<1>1. CASE \/ Begin \/ Forget \/ Restart
           \/ WaitForPrerequisites \/ WaitForJob \/ ConfigMissing \/ CreateRefused
           \/ UpdateRefused \/ AppsRemain \/ DeleteRefused \/ StoreRefused \/ PatchFails
    BY <1>1 DEF Begin, Forget, Restart, WaitForPrerequisites, WaitForJob, ConfigMissing,
           CreateRefused, UpdateRefused, AppsRemain, DeleteRefused, StoreRefused,
           PatchFails, EndPass
<1>2. CASE \/ StartSetup \/ RegistrationFound \/ CloudFound \/ CredentialUnparsed
           \/ CredentialFound \/ IntegrationsChecked \/ UnitsChecked
    BY <1>2 DEF StartSetup, RegistrationFound, CloudFound, CredentialUnparsed,
           CredentialFound, IntegrationsChecked, UnitsChecked, Call, Goto, Deferred
<1>3. CASE \/ StartBootstrap \/ ConfigMalformed \/ StartTeardown \/ CallFails
           \/ ModelQueryFails \/ ModelQueried \/ ModelRead
    <2>1. model \in {"absent", "alive", "dying"}
        BY Parts DEF JujuTyped
    <2> QED
        BY <1>3, <2>1
           DEF StartBootstrap, ConfigMalformed, StartTeardown, CallFails, ModelQueryFails,
               ModelQueried, ModelRead, Call, Goto, TryAgain, EndPass
<1>4. CASE \/ Connect \/ ListApps \/ SkipMissing \/ ModelFound \/ AppsChecked
           \/ EndpointRefused \/ MarkReady
           \/ \E a \in Apps : AppFound(a)
           \/ \E i \in Integrations : IntegrationFound(i)
    BY <1>4 DEF Connect, ListApps, SkipMissing, NextDeletion, ModelFound, AppsChecked,
               EndpointRefused, MarkReady, AppFound, IntegrationFound, Call, Goto,
               Deferred
<1>5. CASE \/ CreateObject \/ DeleteObject \/ ResetPassword \/ StoreString
           \/ AddFinalizer \/ RemoveFinalizer \/ SetEndpoint \/ Patch
           \/ AddCloud \/ AddCredential \/ CreateModel \/ SetConstraints
           \/ Expose \/ DestroyModel
           \/ DestroyController
    BY <1>5 DEF CreateObject, DeleteObject, NextDeletion, ResetPassword, StoreString,
                AddFinalizer, RemoveFinalizer, SetEndpoint, Patch, AddCloud,
                AddCredential, CreateModel, SetConstraints, Expose, DestroyModel,
                DestroyController, ReplyLost, Call, Goto, TryAgain, EndPass
<1>6. CASE \/ \E a \in Apps : CreateApp(a) \/ DestroyApp(a)
           \/ \E i \in Integrations : CreateIntegration(i)
    BY <1>6 DEF CreateApp, DestroyApp, CreateIntegration, ReplyLost, Call, Goto, TryAgain,
           EndPass
<1>7. CASE Kubernetes \/ Juju \/ UNCHANGED vars
    BY <1>7 DEF Kubernetes, Observe, ObserveOthers, SetOwner, Delete, ProvideCredential,
           RunJob, NamespaceTerminates, CollectRegistration, Juju, ModelRemoved,
           AppSettles, UnitFails, UnitResolved, AppRemoved, SetApp, vars, object, local
<1> QED
    <2>1. CASE Worker
        BY <1>1, <1>2, <1>3, <1>4, <1>5, <1>6, <2>1 DEF Worker
    <2> QED
        BY <1>1, <1>7, <2>1 DEF Next

\* What becomes of the two copies of the object the pass works with.
LEMMA Copying ==
    ASSUME Inv, [Next]_vars
    PROVE  \/ UNCHANGED <<before, mem>>
           \/ before' = {} /\ mem' = {} /\ pc' = "idle"
           \/ Begin \/ SetEndpoint \/ EndpointRefused \/ MarkReady
<1>1. CASE \/ Begin \/ Forget \/ Restart
           \/ WaitForPrerequisites \/ WaitForJob \/ ConfigMissing \/ CreateRefused
           \/ UpdateRefused \/ AppsRemain \/ DeleteRefused \/ StoreRefused \/ PatchFails
           \/ StartSetup \/ RegistrationFound \/ CloudFound \/ CredentialUnparsed
           \/ CredentialFound \/ IntegrationsChecked \/ UnitsChecked
    BY <1>1 DEF Forget, Restart, WaitForPrerequisites, WaitForJob, ConfigMissing,
           CreateRefused, UpdateRefused, AppsRemain, DeleteRefused, StoreRefused,
           PatchFails, EndPass, StartSetup, RegistrationFound, CloudFound,
           CredentialUnparsed, CredentialFound, IntegrationsChecked, UnitsChecked, Goto,
           local
<1>2. CASE \/ StartBootstrap \/ ConfigMalformed \/ StartTeardown \/ CallFails
           \/ ModelQueryFails \/ ModelQueried \/ ModelRead
           \/ Connect \/ ListApps \/ SkipMissing \/ ModelFound \/ AppsChecked
           \/ EndpointRefused \/ MarkReady
           \/ \E a \in Apps : AppFound(a)
           \/ \E i \in Integrations : IntegrationFound(i)
    <2>1. model \in {"absent", "alive", "dying"}
        BY Parts DEF JujuTyped
    <2> QED
        BY <1>2, <2>1
           DEF StartBootstrap, ConfigMalformed, StartTeardown, CallFails, ModelQueryFails,
               ModelQueried, ModelRead, Connect, ListApps, SkipMissing, NextDeletion,
               ModelFound, AppsChecked, AppFound, IntegrationFound, Goto, TryAgain, EndPass
<1>3. CASE \/ CreateObject \/ DeleteObject \/ ResetPassword \/ StoreString
           \/ AddFinalizer \/ RemoveFinalizer \/ SetEndpoint \/ Patch
           \/ AddCloud \/ AddCredential \/ CreateModel \/ SetConstraints
           \/ Expose \/ DestroyModel
           \/ DestroyController
           \/ \E a \in Apps : CreateApp(a) \/ DestroyApp(a)
           \/ \E i \in Integrations : CreateIntegration(i)
    BY <1>3 DEF CreateObject, DeleteObject, NextDeletion, ResetPassword, StoreString,
                AddFinalizer, RemoveFinalizer, Patch, AddCloud, AddCredential,
                CreateModel, SetConstraints, Expose, DestroyModel, DestroyController,
                CreateApp, DestroyApp, CreateIntegration, ReplyLost, Goto, TryAgain,
                EndPass
<1>4. CASE Kubernetes \/ Juju \/ UNCHANGED vars
    BY <1>4 DEF Kubernetes, Observe, ObserveOthers, SetOwner, Delete, ProvideCredential,
           RunJob, NamespaceTerminates, CollectRegistration, Juju, ModelRemoved,
           AppSettles, UnitFails, UnitResolved, AppRemoved, SetApp, vars, local
<1> QED
    <2>1. CASE Worker
        BY <1>1, <1>2, <1>3, <2>1 DEF Worker
    <2> QED
        BY <1>1, <1>4, <2>1 DEF Next

--------------------------------------------------------------------------------
(* What stays while nobody takes it down.                                  *)

\* The object itself only gains facts, until it goes; the copies follow it.
LEMMA ObjectGrows ==
    ASSUME Inv, [Next]_vars
    PROVE  /\ stored' = {} \/ stored \subseteq stored'
           /\ stored = {} => stored' = {}
           /\ cache' = cache \/ (cache' = stored /\ stored' = stored)
           /\ before' = before \/ before' = {} \/ (before' = cache /\ UNCHANGED <<cache, stored>>)
<1>1. PassInv
    BY Parts
<1>2. (stored' = {} \/ stored \subseteq stored') /\ (stored = {} => stored' = {})
    <2>1. CASE UNCHANGED stored
        BY <2>1
    <2>2. CASE AddFinalizer
        BY <1>1, <2>2, Phases DEF AddFinalizer, Update, Collected
    <2>3. CASE RemoveFinalizer
        BY <1>1, <2>3, Phases DEF RemoveFinalizer, Update, Collected, TearSteps
    <2>4. CASE SetEndpoint
        BY <1>1, <2>4, Phases
           DEF SetEndpoint, Call, Update, Collected, BuildSteps, Building
    <2>5. CASE Patch \/ SetOwner \/ Delete
        BY <2>5 DEF Patch, SetOwner, Delete, Collected
    <2> QED
        BY <2>1, <2>2, <2>3, <2>4, <2>5, ObjectWriters
<1>3. cache' = cache \/ (cache' = stored /\ stored' = stored)
    BY ObjectWriters DEF Observe, Restart
<1>4. before' = before \/ before' = {} \/ (before' = cache /\ UNCHANGED <<cache, stored>>)
    BY Copying DEF Begin, SetEndpoint, EndpointRefused, MarkReady
<1> QED
    BY <1>2, <1>3, <1>4

\* An object that is not on its way out is not so in any copy.
LEMMA AliveInCopies ==
    ASSUME Inv, EditInv, ~Ended(stored)
    PROVE  ~Ended(cache)
BY Parts DEF ObjectsKept, Copies, Sound, Ended, EditInv

\* No pass tears anything down while there is a copy that is not on its way out.
LEMMA NoTeardown ==
    ASSUME Inv, ~Ended(cache) \/ Building(before)
    PROVE  pc \notin TearSteps
BY Parts, Phases DEF ObjectsKept, Copies, Building

\* The lists of objects, one by one.
LEMMA OrdersListed ==
    /\ \A n \in 1..4 : /\ SetupOrder[n] \in {"serviceAccount", "roleBinding", "tokenSecret", "job"}
                       /\ SetupOrder[n] = "job" => n = 4
    /\ TeardownOrder[1] = "tokenSecret" /\ TeardownOrder[2] = "config"
    /\ TeardownOrder[3] = "roleBinding" /\ TeardownOrder[4] = "serviceAccount"
    /\ TeardownOrder[5] = "job" /\ TeardownOrder[6] = "namespace"
    /\ Len(TeardownOrder) = 6
BY DEF SetupOrder, TeardownOrder

\* The steps that create and remove the objects of the bootstrap.
LEMMA KubeChanges ==
    ASSUME Inv, [Next]_vars
    PROVE  /\ "terminating" \in kube' \ kube =>
                 DeleteObject /\ pass.step = 6
           /\ kube' \cap {"namespace", "succeeded", "config", "malformed"} \subseteq kube \/ RunJob
           /\ kube' \cap {"serviceAccount", "roleBinding", "tokenSecret", "job"} \subseteq kube
                 \/ CreateObject
           /\ "job" \in kube' \ kube => CreateObject /\ pass.step = 4
           /\ "registration" \in kube' \ kube => StoreString
           /\ "unparsable" \in kube' \ kube => Spend("badSecret")
           /\ kube \cap {"namespace", "terminating"} \subseteq kube' \/ NamespaceTerminates
           /\ "config" \in kube \ kube' => DeleteObject /\ pass.step = 2
           /\ kube \cap {"job", "succeeded"} \subseteq kube'
                 \/ (DeleteObject /\ pass.step = 5 /\ kube' = kube \ {"job", "succeeded"})
<1>1. pass.step \in 1..6 /\ (pc = "createSetup" => pass.step \in 1..4)
    BY Parts DEF PassInv, PassTyped, Position, Pass
<1>2. CASE UNCHANGED kube
    BY <1>2
<1>3. CASE CreateObject
    <2>1. pass.step \in 1..4 /\ kube' = kube \cup {SetupOrder[pass.step]}
        BY <1>1, <1>3 DEF CreateObject
    <2> QED
        BY <1>3, <2>1, OrdersListed
<1>4. CASE DeleteObject
    <2> DEFINE fact == TeardownOrder[pass.step]
    <2>1. kube' = Without(fact)
        BY <1>4 DEF DeleteObject
    <2>2. \/ pass.step = 1 /\ fact = "tokenSecret"
          \/ pass.step = 2 /\ fact = "config"
          \/ pass.step = 3 /\ fact = "roleBinding"
          \/ pass.step = 4 /\ fact = "serviceAccount"
          \/ pass.step = 5 /\ fact = "job"
          \/ pass.step = 6 /\ fact = "namespace"
        BY <1>1, OrdersListed
    <2> HIDE DEF fact
    <2> QED
        BY <1>4, <2>1, <2>2 DEF Without
<1>5. CASE StoreString \/ ProvideCredential \/ CollectRegistration
    <2>1. \/ kube' = kube \cup {"registration"} \/ kube' = kube \cup {"credential"}
          \/ kube' = kube \cup {"credential", "unparsable"}
          \/ kube' = kube \ {"registration"}
        BY <1>5, Zenon DEF StoreString, ProvideCredential, CollectRegistration
    <2>2. "registration" \in kube' \ kube => StoreString
        BY <1>5 DEF ProvideCredential, CollectRegistration
    <2>3. "unparsable" \in kube' \ kube => Spend("badSecret")
        <3>1. CASE StoreString
            BY <3>1 DEF StoreString
        <3>2. CASE ProvideCredential
            BY <3>2 DEF ProvideCredential
        <3>3. CASE CollectRegistration
            BY <3>3 DEF CollectRegistration
        <3> QED
            BY <1>5, <3>1, <3>2, <3>3
    <2> QED
        BY <2>1, <2>2, <2>3
<1>6. CASE RunJob
    <2>1. \/ kube' = kube \cup {"succeeded", "config", "namespace"}
          \/ kube' = kube \cup {"succeeded", "config", "malformed"}
        BY <1>6, Zenon DEF RunJob
    <2> QED
        BY <1>6, <2>1
<1>7. CASE NamespaceTerminates
    BY <1>7 DEF NamespaceTerminates
<1> QED
    BY <1>2, <1>3, <1>4, <1>5, <1>6, <1>7, KubeWriters

\* While everything stands and nothing is torn down, Juju only gains.
LEMMA JujuGrows ==
    ASSUME Inv, [Next]_vars, Standing, pc \notin TearSteps
    PROVE  /\ Standing'
           /\ model = "alive" => model' = "alive"
           /\ related \subseteq related'
           /\ \A a \in Apps : apps[a] # "absent" => apps'[a] # "absent"
<1>1. JujuTyped
    BY Parts
<1>2. "terminating" \notin kube'
    BY KubeChanges DEF Standing, TearSteps, DeleteObject
<1> DEFINE Kept == /\ model' # "dying" /\ (model = "alive" => model' = "alive")
                   /\ related \subseteq related'
                   /\ \A a \in Apps : /\ apps'[a] \notin {"dying", "stuck"}
                                      /\ apps[a] # "absent" => apps'[a] # "absent"
<1>3. ASSUME UNCHANGED juju PROVE Kept
    BY <1>3 DEF juju, Standing
<1>4. ASSUME \/ AddCloud \/ AddCredential \/ CreateModel \/ SetConstraints
             \/ Expose
      PROVE Kept
    BY <1>4 DEF AddCloud, AddCredential, CreateModel, SetConstraints, Expose,
                Standing
<1>5. ~DestroyModel /\ ~DestroyController /\ ~NamespaceTerminates
      /\ \A a \in Apps : ~DestroyApp(a)
    BY DEF DestroyModel, DestroyController, DestroyApp, Call, TearSteps, Standing,
           NamespaceTerminates
<1>6. ASSUME Juju PROVE Kept
    <2>1. ~ModelRemoved
        BY DEF ModelRemoved, Standing
    <2>2. ASSUME NEW a \in Apps, AppSettles(a) \/ UnitFails(a) \/ UnitResolved(a) \/ AppRemoved(a)
          PROVE  Kept
        BY <1>1, <2>2
           DEF AppSettles, UnitFails, UnitResolved, AppRemoved, SetApp, Standing, JujuTyped
    <2> HIDE DEF Kept
    <2> QED
        BY <1>6, <2>1, <2>2 DEF Juju
<1>7. ASSUME NEW a \in Apps, CreateApp(a)
      PROVE  Kept
    BY <1>1, <1>7 DEF CreateApp, Standing, JujuTyped
<1>8. ASSUME NEW i \in Integrations, CreateIntegration(i)
      PROVE  Kept
    BY <1>8 DEF CreateIntegration, Standing
<1>9. Kept
    <2> HIDE DEF Kept
    <2> QED
        BY <1>3, <1>4, <1>5, <1>6, <1>7, <1>8, JujuWriters
<1> QED
    BY <1>2, <1>9 DEF Standing

\* Models and applications come into being, and models go, in these steps only.
LEMMA JujuChanges ==
    ASSUME Inv, [Next]_vars
    PROVE  /\ model' = "absent" /\ model # "absent" => NamespaceTerminates \/ ModelRemoved
           /\ model' = "alive" /\ model # "alive" => CreateModel
           /\ model' = "dying" /\ model # "dying" => DestroyModel \/ DestroyController
           /\ \A a \in Apps : apps[a] = "absent" /\ apps'[a] # "absent" => CreateApp(a)
           /\ added \subseteq added' \/ NamespaceTerminates \/ ModelRemoved
           /\ exposed \subseteq exposed' \/ NamespaceTerminates
                \/ \E a \in Apps : exposed' = exposed \ {a} /\ apps'[a] = "absent"
<1> DEFINE Goal ==
        /\ model' = "absent" /\ model # "absent" => NamespaceTerminates \/ ModelRemoved
        /\ model' = "alive" /\ model # "alive" => CreateModel
        /\ model' = "dying" /\ model # "dying" => DestroyModel \/ DestroyController
        /\ \A a \in Apps : apps[a] = "absent" /\ apps'[a] # "absent" => CreateApp(a)
        /\ added \subseteq added' \/ NamespaceTerminates \/ ModelRemoved
        /\ exposed \subseteq exposed' \/ NamespaceTerminates
             \/ \E a \in Apps : exposed' = exposed \ {a} /\ apps'[a] = "absent"
<1>1. JujuTyped
    BY Parts
<1>2. ASSUME UNCHANGED juju PROVE Goal
    BY <1>2 DEF juju
<1>3. ASSUME \/ AddCloud \/ AddCredential \/ CreateModel \/ SetConstraints
             \/ Expose \/ DestroyModel
      PROVE Goal
    BY <1>3 DEF AddCloud, AddCredential, CreateModel, SetConstraints, Expose,
                DestroyModel
<1>4. ASSUME DestroyController PROVE Goal
    <2>1. \A a \in Apps : apps[a] = "absent" => apps'[a] = "absent"
        BY <1>1, <1>4, DoomedTyped DEF DestroyController, JujuTyped
    <2>2. \/ model' = model \/ model' = "dying"
        BY <1>4 DEF DestroyController
    <2>3. added' = added /\ exposed' = exposed
        BY <1>4 DEF DestroyController
    <2> QED
        BY <1>4, <2>1, <2>2, <2>3
<1>5. ASSUME NamespaceTerminates PROVE Goal
    BY <1>5 DEF NamespaceTerminates
<1>6. ASSUME NEW a \in Apps, DestroyApp(a) PROVE Goal
    <2>1. apps[a] \in AppStates /\ InError(a) \in BOOLEAN
        BY <1>1 DEF JujuTyped, InError
    <2> DEFINE state == Doomed(apps[a], InError(a))
    <2>2. state # "absent" <=> apps[a] # "absent"
        BY <2>1, DoomedTyped
    <2>3. apps' = apps \/ apps' = [apps EXCEPT ![a] = state]
        BY <1>6 DEF DestroyApp
    <2> HIDE DEF state
    <2>4. UNCHANGED <<added, model, exposed>>
        BY <1>6 DEF DestroyApp
    <2> QED
        BY <1>1, <2>2, <2>3, <2>4 DEF JujuTyped
<1>7. ASSUME NEW a \in Apps, CreateApp(a) PROVE Goal
    BY <1>1, <1>7 DEF CreateApp, JujuTyped
<1>8. ASSUME NEW i \in Integrations, CreateIntegration(i) PROVE Goal
    BY <1>8 DEF CreateIntegration
<1>9. ASSUME ModelRemoved PROVE Goal
    BY <1>9 DEF ModelRemoved
<1>10. ASSUME NEW a \in Apps, AppSettles(a) \/ UnitFails(a) \/ UnitResolved(a) \/ AppRemoved(a)
       PROVE  Goal
    <2>1. UNCHANGED <<added, model>>
        BY <1>10 DEF AppSettles, UnitFails, UnitResolved, AppRemoved, SetApp
    <2>2. apps[a] # "absent" /\ \E state \in AppStates : apps' = [apps EXCEPT ![a] = state]
        BY <1>10 DEF AppSettles, UnitFails, UnitResolved, AppRemoved, SetApp, AppStates
    <2>3. exposed' = exposed \/ (exposed' = exposed \ {a} /\ apps'[a] = "absent")
        BY <1>1, <1>10
           DEF AppSettles, UnitFails, UnitResolved, AppRemoved, SetApp, JujuTyped
    <2> QED
        BY <1>1, <2>1, <2>2, <2>3 DEF JujuTyped
<1>11. ASSUME Juju PROVE Goal
    <2> HIDE DEF Goal
    <2> QED
        BY <1>9, <1>10, <1>11 DEF Juju
<1> HIDE DEF Goal
<1>12. Goal
    BY <1>2, <1>3, <1>4, <1>5, <1>6, <1>7, <1>8, <1>11, JujuWriters
<1> QED
    BY <1>12 DEF Goal

--------------------------------------------------------------------------------
(* Every part of the invariant is kept.                                    *)

\* A Juju controller takes everything along.
LEMMA HostNext == ASSUME Inv, HostInv, [Next]_vars PROVE HostInv'
<1>1. "terminating" \in kube' => "namespace" \in kube'
    <2>1. CASE NamespaceTerminates
        BY <2>1 DEF NamespaceTerminates
    <2>2. CASE DeleteObject /\ pass.step = 6
        <3>1. "namespace" \in kube
            BY <2>2, OrdersListed DEF DeleteObject
        <3> QED
            BY <2>2, <3>1, KubeChanges DEF DeleteObject, NamespaceTerminates, Without
    <2>3. CASE ~NamespaceTerminates /\ "terminating" \in kube
        BY <2>3, KubeChanges DEF HostInv
    <2> QED
        BY <2>1, <2>2, <2>3, KubeChanges
<1>2. "succeeded" \in kube' => "job" \in kube'
    <2>1. CASE RunJob
        BY <2>1, Zenon DEF RunJob
    <2>2. CASE ~RunJob
        BY <2>2, KubeChanges DEF HostInv
    <2> QED
        BY <2>1, <2>2
<1>3. "namespace" \notin kube' => model' = "absent"
    <2>1. CASE NamespaceTerminates
        BY <2>1 DEF NamespaceTerminates
    <2>2. CASE "namespace" \notin kube
        <3>1. model = "absent" /\ ~Reachable
            BY <2>2 DEF HostInv, Reachable
        <3>2. ~CreateModel /\ ~DestroyModel /\ ~DestroyController
            BY <3>1 DEF CreateModel, DestroyModel, DestroyController, Call, Answers
        <3> QED
            BY <3>1, <3>2, JujuChanges, Parts, PartsNext, InvNext DEF JujuTyped
    <2> QED
        BY <2>1, <2>2, KubeChanges
<1>4. ASSUME model' = "absent", NEW a \in Apps
      PROVE  apps'[a] = "absent"
    <2>1. CASE NamespaceTerminates
        BY <2>1 DEF NamespaceTerminates
    <2>2. CASE ModelRemoved
        BY <2>2 DEF ModelRemoved
    <2>3. CASE model = "absent"
        <3>1. apps[a] = "absent"
            BY <2>3 DEF HostInv
        <3>2. ~CreateApp(a)
            BY <2>3 DEF CreateApp, Call, Answers, InModel, Deferred
        <3> QED
            BY <3>1, <3>2, JujuChanges
    <2> QED
        BY <1>4, <2>1, <2>2, <2>3, JujuChanges
<1> QED
    BY <1>1, <1>2, <1>3, <1>4 DEF HostInv

\* A reset that makes a stored string worthless follows an outdated look.
LEMMA RegistrationNext ==
    ASSUME Inv, Within, RegistrationInv, [Next]_vars PROVE RegistrationInv'
<1> SUFFICES ASSUME "registration" \in kube', Spared({"stale"})' PROVE valid'
    BY DEF RegistrationInv
<1>1. Spared({"stale"}) /\ ~Spend("stale")
    BY Unspent DEF FaultKinds
<1>2. CASE StoreString
    BY <1>2 DEF StoreString
<1>3. CASE ResetPassword
    <2>1. "registration" \in kube /\ "registration" \notin seen
        BY <1>3 DEF ResetPassword
    <2>2. LookAt({"registration"})
        BY <1>3, <2>1 DEF ResetPassword
    <2> QED
        BY <1>1, <2>1, <2>2, FreshLook
<1>4. CASE ~StoreString /\ ~ResetPassword
    BY <1>1, <1>4, KubeChanges, KubeWriters DEF RegistrationInv
<1> QED
    BY <1>2, <1>3, <1>4

\* Only another step of the same pass, or a step of somebody else, leaves the
\* worker where it is.
LEMMA Waiting ==
    ASSUME [Next]_vars, local' = local
    PROVE  UNCHANGED <<pc, before, mem, pass>>
BY DEF local

\* A teardown loses sight of no application.
LEMMA EmptyNext ==
    ASSUME Inv, Within, HostInv, EmptyInv, [Next]_vars PROVE EmptyInv'
<1>1. JujuTyped /\ JujuTyped' /\ pass \in Pass
    BY Parts, PartsNext, InvNext, Phases
<1>2. pc' \in {"listApps", "destroyApps"} => model' = "alive" /\ "terminating" \notin kube'
    <2> SUFFICES ASSUME pc' \in {"listApps", "destroyApps"}
                 PROVE  model' = "alive" /\ "terminating" \notin kube'
        OBVIOUS
    <2>1. CASE local' = local
        <3>1. model = "alive" /\ "terminating" \notin kube /\ pc \in {"listApps", "destroyApps"}
            BY <2>1, Waiting DEF EmptyInv
        <3>2. ~DestroyModel /\ ~DestroyController /\ ~NamespaceTerminates /\ ~ModelRemoved
              /\ ~DeleteObject
            BY <3>1, Waiting, <2>1
               DEF DestroyModel, EndPass, DestroyController, Call, NamespaceTerminates,
                   ModelRemoved, DeleteObject
        <3> QED
            BY <1>1, <3>1, <3>2, JujuChanges, KubeChanges DEF JujuTyped
    <2>2. CASE ModelRead
        BY <1>1, <2>2
           DEF ModelRead, Call, Answers, Reachable, Goto, TryAgain, EndPass, JujuTyped, juju
    <2>3. CASE ListApps
        BY <2>3 DEF ListApps, Call, EmptyInv, juju
    <2>4. ASSUME NEW a \in Apps, DestroyApp(a) PROVE model' = "alive" /\ "terminating" \notin kube'
        BY <2>4 DEF DestroyApp, Call, EmptyInv
    <2> QED
        BY <2>1, <2>2, <2>3, <2>4, Arriving
<1>3. pc' = "destroyApps" =>
          pass'.any \/ \A a \in Apps : apps'[a] # "absent" => a \in pass'.todo
    <2> SUFFICES ASSUME pc' = "destroyApps", ~pass'.any, NEW a \in Apps, apps'[a] # "absent"
                 PROVE  a \in pass'.todo
        OBVIOUS
    <2>1. CASE local' = local
        <3>1. pc = "destroyApps" /\ pass' = pass
            BY <2>1, Waiting
        <3>2. ~CreateApp(a)
            BY <3>1 DEF CreateApp, Call
        <3> QED
            BY <3>1, <3>2, JujuChanges DEF EmptyInv
    <2>2. CASE ListApps
        <3>1. UNCHANGED apps
            BY <2>2 DEF ListApps, juju
        <3>2. pass'.todo = {b \in Apps : apps[b] # "absent"}
            BY <1>1, <2>2 DEF ListApps, Pass
        <3> QED
            BY <3>1, <3>2
    <2>3. ASSUME NEW b \in Apps, DestroyApp(b)
          PROVE  a \in pass'.todo
        <3>1. pc = "destroyApps" /\ ~CreateApp(a)
            BY <2>3 DEF DestroyApp, CreateApp, Call
        <3>2. apps[a] # "absent"
            BY <3>1, JujuChanges
        <3>3. ~ReplyLost
            BY <3>1 DEF ReplyLost, TryAgain, EndPass, Deferred
        <3>4. pass' = [pass EXCEPT !.todo = @ \ {b}, !.any = (@ \/ apps[b] # "absent")]
            BY <2>3, <3>3, Zenon DEF DestroyApp
        <3>5. pass'.todo = pass.todo \ {b} /\ pass'.any = (pass.any \/ apps[b] # "absent")
            BY <1>1, <3>4 DEF Pass
        <3>6. ~pass.any /\ apps[b] = "absent"
            BY <3>5
        <3> QED
            BY <3>1, <3>2, <3>5, <3>6 DEF EmptyInv
    <2> QED
        BY <2>1, <2>2, <2>3, Arriving
<1>4. pc' = "destroyController" /\ Spared({"call"})' => model' # "alive" \/ ~Reachable'
    <2> SUFFICES ASSUME pc' = "destroyController", Spared({"call"})'
                 PROVE  model' # "alive" \/ ~Reachable'
        OBVIOUS
    <2>1. Spared({"call"}) /\ ~Spend("call")
        BY Unspent DEF FaultKinds
    <2>2. CASE local' = local
        <3>1. pc = "destroyController"
            BY <2>2, Waiting
        <3>2. model # "alive" \/ ~Reachable
            BY <2>1, <3>1 DEF EmptyInv
        <3>3. ~CreateModel
            BY <3>1 DEF CreateModel, Call
        <3>4. model = "alive" => "terminating" \in kube
            BY <3>2 DEF HostInv, Reachable
        <3> QED
            BY <3>3, <3>4, JujuChanges, KubeChanges DEF NamespaceTerminates, Reachable
    <2>3. CASE ModelQueryFails
        BY <2>1, <2>3 DEF ModelQueryFails, SpendIf, Reachable
    <2>4. CASE ModelQueried
        BY <2>4 DEF ModelQueried, Goto, juju
    <2>5. CASE ModelRead
        BY <1>1, <2>5 DEF ModelRead, Goto, Call, TryAgain, EndPass, Deferred, JujuTyped, juju
    <2> QED
        BY <2>2, <2>3, <2>4, <2>5, Arriving
<1> QED
    BY <1>2, <1>3, <1>4 DEF EmptyInv

\* Everything stands where a copy says so, or where the worker builds.
LEMMA Stands ==
    ASSUME Inv, EditInv, FoundInv,
           ~Ended(stored) \/ ~Ended(cache) \/ Building(before) \/ pc \in BuildSteps
    PROVE  Standing /\ pc \notin TearSteps
<1>1. ~Ended(cache) \/ Building(before)
    BY AliveInCopies, Parts, Phases
<1> QED
    BY <1>1, NoTeardown DEF FoundInv

\* What a pass finds while it builds stays until it gets to readiness.
LEMMA BuildingGrows ==
    ASSUME Inv, EditInv, FoundInv, [Next]_vars, pc \in BuildSteps
    PROVE  /\ Standing /\ Standing'
           /\ model = "alive" => model' = "alive"
           /\ related \subseteq related'
           /\ \A a \in Apps : apps[a] # "absent" => apps'[a] # "absent"
BY Stands, JujuGrows

\* The steps behind the defer are reached from one another, and from the model.
LEMMA DeferredFrom ==
    ASSUME Inv, [Next]_vars, pc' \in Deferred
    PROVE  pc \in BuildSteps /\ (pc \in Deferred \/ ModelFound)
<1>1. CASE local' = local
    BY <1>1, Waiting, Parts, Phases
<1>2. CASE local' # local
    BY <1>2, Arriving
       DEF Deferred, BuildSteps, ModelFound, AppFound, CreateApp, Expose, AppsChecked,
           IntegrationFound, CreateIntegration, IntegrationsChecked, UnitsChecked, Call
<1> QED
    BY <1>1, <1>2

\* An application a pass has come past exists.
LEMMA AppsFound ==
    ASSUME Inv, EditInv, FoundInv, [Next]_vars, pc' \in {"apps", "expose"},
           NEW a \in Apps \ pass'.todo
    PROVE  apps'[a] # "absent"
<1>1. pass \in Pass /\ pc \in BuildSteps /\ JujuTyped
    BY Parts, Phases, DeferredFrom DEF Deferred
<1>2. apps[a] # "absent" => apps'[a] # "absent"
    BY <1>1, BuildingGrows
<1>3. CASE local' = local
    BY <1>2, <1>3, Waiting DEF FoundInv
<1>4. CASE ModelFound
    <2>1. pass'.todo = Apps
        BY <1>1, <1>4 DEF ModelFound, Pass
    <2> QED
        BY <2>1
<1>5. ASSUME NEW b \in Apps, AppFound(b) \/ CreateApp(b)
      PROVE  apps'[a] # "absent"
    <2>1. pc = "apps"
        BY <1>5 DEF AppFound, CreateApp, Call
    <2>2. ~TryAgain
        BY <2>1 DEF TryAgain, Goto, Deferred
    <2>3. pass'.todo = pass.todo \ {b}
        BY <1>1, <1>5, <2>2 DEF AppFound, CreateApp, ReplyLost, Pass
    <2>4. apps[b] # "absent" \/ apps'[b] # "absent"
        BY <1>1, <1>5 DEF AppFound, CreateApp, JujuTyped
    <2> QED
        BY <1>1, <1>2, <2>1, <2>3, <2>4 DEF FoundInv
<1>6. CASE Expose
    <2>1. pc = "expose"
        BY <1>6 DEF Expose, Call
    <2>2. ~TryAgain
        BY <2>1 DEF TryAgain, Goto, Deferred
    <2>3. pass'.todo = pass.todo
        BY <1>1, <1>6, <2>2 DEF Expose, ReplyLost, Pass
    <2> QED
        BY <1>2, <2>1, <2>3 DEF FoundInv
<1> QED
    BY <1>3, <1>4, <1>5, <1>6, Arriving

\* And so does every application once all have been looked at.
LEMMA AllAppsFound ==
    ASSUME Inv, EditInv, FoundInv, [Next]_vars,
           pc' \in {"integrations", "certificates", "balancer", "endpoint"},
           NEW a \in Apps
    PROVE  apps'[a] # "absent"
<1>1. pc \in BuildSteps
    BY DeferredFrom DEF Deferred
<1>2. apps[a] # "absent"
    <2>1. CASE local' = local
        BY <2>1, Waiting DEF FoundInv
    <2>2. CASE AppsChecked
        BY <2>2 DEF AppsChecked, FoundInv
    <2>3. CASE local' # local /\ ~AppsChecked
        BY <2>3, Arriving
           DEF IntegrationFound, CreateIntegration, IntegrationsChecked, UnitsChecked,
               Call, FoundInv
    <2> QED
        BY <2>1, <2>2, <2>3
<1> QED
    BY <1>1, <1>2, BuildingGrows

\* An integration a pass has come past exists, and in the end they all do.
LEMMA IntegrationsFound ==
    ASSUME Inv, EditInv, FoundInv, [Next]_vars
    PROVE  /\ pc' = "integrations" => Integrations \ pass'.todo \subseteq related'
           /\ pc' \in {"certificates", "balancer", "endpoint"} => Integrations \subseteq related'
<1>1. pass \in Pass
    BY Parts, Phases
<1>2. pc' \in Deferred => related \subseteq related'
    BY DeferredFrom, BuildingGrows
<1>3. ASSUME pc' = "integrations"
      PROVE  Integrations \ pass'.todo \subseteq related'
    <2>1. CASE local' = local
        BY <1>2, <1>3, <2>1, Waiting DEF FoundInv, Deferred
    <2>2. CASE AppsChecked
        <3>1. pass'.todo = Integrations
            BY <1>1, <1>3, <2>2 DEF AppsChecked, Goto, Pass
        <3> QED
            BY <3>1
    <2>3. ASSUME NEW i \in Integrations, IntegrationFound(i) \/ CreateIntegration(i)
          PROVE  Integrations \ pass'.todo \subseteq related'
        <3>1. pc = "integrations"
            BY <2>3 DEF IntegrationFound, CreateIntegration, Call
        <3>2. ~ReplyLost
            BY <1>3, <3>1 DEF ReplyLost, TryAgain, Goto, Deferred
        <3>3. pass'.todo = pass.todo \ {i}
            BY <1>1, <2>3, <3>2 DEF IntegrationFound, CreateIntegration, Pass
        <3>4. i \in related'
            BY <2>3 DEF IntegrationFound, CreateIntegration, juju
        <3> QED
            BY <1>2, <1>3, <3>1, <3>3, <3>4 DEF FoundInv, Deferred
    <2> QED
        BY <1>3, <2>1, <2>2, <2>3, Arriving
<1>4. ASSUME pc' \in {"certificates", "balancer", "endpoint"}
      PROVE  Integrations \subseteq related'
    <2>1. CASE local' = local
        BY <1>2, <1>4, <2>1, Waiting DEF FoundInv, Deferred
    <2>2. CASE IntegrationsChecked
        BY <1>2, <1>4, <2>2 DEF IntegrationsChecked, FoundInv, Deferred
    <2>3. CASE UnitsChecked
        BY <1>2, <1>4, <2>3 DEF UnitsChecked, Call, FoundInv, Deferred
    <2> QED
        BY <1>4, <2>1, <2>2, <2>3, Arriving
<1> QED
    BY <1>3, <1>4

\* What the passes have found stays.
LEMMA FoundNext == ASSUME Inv, EditInv, FoundInv, [Next]_vars PROVE FoundInv'
<1>1. ~Ended(cache') \/ Building(before') => Standing'
    <2> SUFFICES ASSUME ~Ended(cache') \/ Building(before') PROVE Standing'
        OBVIOUS
    <2>1. ~Ended(stored) \/ ~Ended(cache) \/ Building(before)
        BY ObjectGrows DEF Ended, Building
    <2> QED
        BY <2>1, Stands, JujuGrows
<1>2. pc' \in Deferred => model' = "alive"
    <2> SUFFICES ASSUME pc' \in Deferred PROVE model' = "alive"
        OBVIOUS
    <2>1. pc \in BuildSteps /\ model \in {"absent", "alive", "dying"}
        BY DeferredFrom, Parts DEF JujuTyped
    <2>2. model = "alive"
        BY <2>1, DeferredFrom, BuildingGrows DEF FoundInv, ModelFound, Standing
    <2> QED
        BY <2>1, <2>2, BuildingGrows
<1>3. "ready" \in stored' /\ "deleted" \notin stored' => Whole'
    <2> SUFFICES ASSUME "ready" \in stored', "deleted" \notin stored' PROVE Whole'
        OBVIOUS
    <2>1. CASE Patch
        <3>1. "ready" \in stored \/ mem = before \cup {"ready"}
            BY <2>1 DEF Patch, EditInv
        <3>2. Whole
            BY <2>1, <3>1 DEF Patch, EditInv, FoundInv
        <3> QED
            BY <2>1, <3>2 DEF Patch, juju, Whole
    <2>2. CASE ~Patch
        <3>1. "ready" \in stored /\ "deleted" \notin stored
            <4>1. "deleted" \notin stored
                BY ObjectGrows
            <4>2. AddFinalizer \/ RemoveFinalizer \/ SetEndpoint => "ready" \in stored
                <5> SUFFICES ASSUME AddFinalizer \/ RemoveFinalizer \/ SetEndpoint
                             PROVE  "ready" \in stored
                    OBVIOUS
                <5>1. CASE AddFinalizer
                    BY <5>1 DEF AddFinalizer, Update, Collected
                <5>2. CASE RemoveFinalizer
                    BY <5>2 DEF RemoveFinalizer, Update, Collected
                <5>3. CASE SetEndpoint
                    BY <5>3 DEF SetEndpoint, Update, Collected
                <5> QED
                    BY <5>1, <5>2, <5>3
            <4>3. SetOwner \/ Delete => "ready" \in stored
                BY DEF SetOwner, Delete, Collected
            <4> QED
                BY <2>2, <4>1, <4>2, <4>3, ObjectWriters
        <3>2. Whole /\ Standing /\ pc \notin TearSteps
            BY <3>1, Stands DEF FoundInv, Ended
        <3> QED
            BY <3>2, JujuGrows DEF Whole
    <2> QED
        BY <2>1, <2>2
<1> QED
    BY <1>1, <1>2, <1>3, AppsFound, AllAppsFound, IntegrationsFound DEF FoundInv

\* Every fault that comes between two requests counts, and none is forgotten.
LEMMA Counting ==
    ASSUME Inv, Within, Inv', [Next]_vars
    PROVE  /\ Interruptions \in Nat /\ Interruptions' \in Nat
           /\ Interruptions <= Interruptions'
           /\ Spend("call") \/ Spend("reply") \/ Spend("crash")
                => Interruptions' = Interruptions + 1
<1>1. /\ \A k \in FaultKinds : budget[k] \in Nat /\ budget'[k] \in Nat /\ FaultBudget[k] \in Nat
      /\ budget \in [FaultKinds -> Nat]
    BY Parts, PartsNext, BudgetAssumption DEF BudgetTyped
<1>2. /\ \A k \in FaultKinds : budget[k] <= FaultBudget[k]
      /\ \A k \in FaultKinds : budget'[k] <= budget[k]
    BY <1>1, Spending DEF Within, Spend
<1>3. {"call", "reply", "crash"} \subseteq FaultKinds
    BY DEF FaultKinds
<1>4. ASSUME NEW k \in {"call", "reply", "crash"}, Spend(k)
      PROVE  /\ budget'[k] = budget[k] - 1
             /\ \A l \in {"call", "reply", "crash"} \ {k} : budget'[l] = budget[l]
    BY <1>1, <1>3, <1>4 DEF Spend
<1> QED
    BY <1>1, <1>2, <1>3, <1>4 DEF Interruptions

\* Sets of applications are finite: one that does not grow does not count more, and
\* one that grows by an application counts at most one more.
LEMMA AppSets ==
    ASSUME NEW S \in SUBSET Apps, NEW T \in SUBSET Apps
    PROVE  /\ Cardinality(S) \in Nat /\ Cardinality(T) \in Nat
           /\ T \subseteq S => Cardinality(T) <= Cardinality(S)
           /\ \A a \in Apps : T \subseteq S \cup {a} => Cardinality(T) <= Cardinality(S) + 1
<1>1. IsFiniteSet(S) /\ IsFiniteSet(T)
    BY AppsAssumption, FS_Subset
<1>2. Cardinality(S) \in Nat /\ Cardinality(T) \in Nat
    BY <1>1, FS_CardinalityType
<1>3. ASSUME NEW a \in Apps, T \subseteq S \cup {a}
      PROVE  Cardinality(T) <= Cardinality(S) + 1
    <2>1. /\ IsFiniteSet(S \cup {a})
          /\ Cardinality(S \cup {a}) = IF a \in S THEN Cardinality(S) ELSE Cardinality(S) + 1
        BY <1>1, FS_AddElement
    <2>2. Cardinality(T) <= Cardinality(S \cup {a})
        BY <1>3, <2>1, FS_Subset
    <2>3. Cardinality(T) <= IF a \in S THEN Cardinality(S) ELSE Cardinality(S) + 1
        BY <2>1, <2>2
    <2> QED
        BY <1>2, <2>3
<1> QED
    BY <1>1, <1>2, <1>3, FS_Subset

\* The count is kept by a step that leaves no more halves behind, and by an
\* interruption that leaves one.
LEMMA HalvesCount ==
    ASSUME Inv, Within, HalvesInv, Inv', [Next]_vars,
           \/ Missing' \subseteq Missing /\ MissingConstraints' <= MissingConstraints
           \/ /\ Spend("call") \/ Spend("reply") \/ Spend("crash")
              /\ \/ /\ \E a \in Apps : Missing' \subseteq Missing \cup {a}
                    /\ MissingConstraints' <= MissingConstraints
                 \/ /\ Missing' \subseteq Missing
                    /\ MissingConstraints' <= MissingConstraints + 1
    PROVE  Halves' <= Interruptions'
<1>1. Missing \subseteq Apps /\ Missing' \subseteq Apps
    BY AppsAssumption DEF Missing, Unexposed
<1>2. MissingConstraints \in 0..1 /\ MissingConstraints' \in 0..1
    BY DEF MissingConstraints
<1>3. /\ Cardinality(Missing) \in Nat /\ Cardinality(Missing') \in Nat
      /\ Missing' \subseteq Missing => Cardinality(Missing') <= Cardinality(Missing)
      /\ \A a \in Apps : Missing' \subseteq Missing \cup {a} =>
                           Cardinality(Missing') <= Cardinality(Missing) + 1
    BY <1>1, AppSets
<1>4. Cardinality(Missing) + MissingConstraints <= Interruptions
    BY DEF HalvesInv, Halves
<1>5. Halves' = Cardinality(Missing') + MissingConstraints'
    BY DEF Halves
<1> QED
    BY <1>2, <1>3, <1>4, <1>5, Counting

\* Other halves come up only with the first halves.
LEMMA HalvesAppear ==
    ASSUME Inv, EmptyInv, [Next]_vars
    PROVE  /\ \A a \in Unexposed' : a \in Unexposed \/ CreateApp(a)
           /\ Unset' => Unset \/ CreateModel
<1>1. ASSUME NEW a \in Unexposed', ~CreateApp(a)
      PROVE  a \in Unexposed
    <2>1. a \in ExposedApps /\ a \in Apps /\ apps'[a] # "absent" /\ a \notin exposed'
        BY AppsAssumption DEF Unexposed
    <2>2. apps[a] # "absent"
        BY <1>1, <2>1, JujuChanges
    <2>3. ~NamespaceTerminates
        BY <2>1 DEF NamespaceTerminates
    <2>4. a \notin exposed
        BY <2>1, <2>3, JujuChanges
    <2> QED
        BY <2>1, <2>2, <2>4 DEF Unexposed
<1>2. ASSUME Unset', ~CreateModel
      PROVE  Unset
    <2>1. model' # "absent" /\ "constraints" \notin added'
        BY <1>2 DEF Unset
    <2>2. ~NamespaceTerminates /\ ~ModelRemoved
        BY <2>1 DEF NamespaceTerminates, ModelRemoved
    <2>3. "constraints" \notin added
        BY <2>1, <2>2, JujuChanges
    <2>4. DestroyModel \/ DestroyController => model' = model \/ model = "alive"
        BY DEF DestroyModel, DestroyController, Call, EmptyInv
    <2>5. model' \in {"absent", "alive", "dying"} /\ model \in {"absent", "alive", "dying"}
        BY Parts, PartsNext, InvNext DEF JujuTyped
    <2>6. model # "absent"
        BY <1>2, <2>1, <2>4, <2>5, JujuChanges
    <2> QED
        BY <2>3, <2>6 DEF Unset
<1> QED
    BY <1>1, <1>2

\* How the worker leaves a first half behind.
LEMMA LeavingHalf ==
    ASSUME Inv, [Next]_vars, pc \in {"expose", "constrain"}
    PROVE  \/ local' = local \/ Restart \/ CallFails
           \/ pc = "expose" /\ Expose
           \/ pc = "constrain" /\ SetConstraints
<1>1. ~(\/ Begin \/ WaitForPrerequisites \/ WaitForJob \/ ConfigMissing \/ CreateRefused
        \/ UpdateRefused \/ AppsRemain \/ DeleteRefused \/ StoreRefused \/ PatchFails
        \/ StartSetup \/ RegistrationFound \/ CloudFound \/ CredentialUnparsed
        \/ CredentialFound \/ IntegrationsChecked \/ UnitsChecked)
    BY DEF Begin, WaitForPrerequisites, WaitForJob, ConfigMissing, CreateRefused,
           UpdateRefused, AppsRemain, DeleteRefused, StoreRefused, PatchFails, StartSetup,
           RegistrationFound, CloudFound, CredentialUnparsed, CredentialFound,
           IntegrationsChecked, UnitsChecked, Call
<1>2. ~(\/ StartBootstrap \/ ConfigMalformed \/ StartTeardown
        \/ ModelQueryFails \/ ModelQueried \/ ModelRead
        \/ Connect \/ ListApps \/ SkipMissing \/ ModelFound \/ AppsChecked
        \/ EndpointRefused \/ MarkReady
        \/ \E a \in Apps : AppFound(a)
        \/ \E i \in Integrations : IntegrationFound(i))
    BY DEF StartBootstrap, ConfigMalformed, StartTeardown, ModelQueryFails, ModelQueried,
           ModelRead, Connect, ListApps, SkipMissing, ModelFound, AppsChecked,
           EndpointRefused, MarkReady, AppFound, IntegrationFound, Call
<1>3. ~(\/ CreateObject \/ DeleteObject \/ ResetPassword \/ StoreString
        \/ AddFinalizer \/ RemoveFinalizer \/ SetEndpoint \/ Patch
        \/ AddCloud \/ AddCredential \/ CreateModel \/ DestroyModel
        \/ DestroyController
        \/ \E a \in Apps : CreateApp(a) \/ DestroyApp(a)
        \/ \E i \in Integrations : CreateIntegration(i))
    BY DEF CreateObject, DeleteObject, ResetPassword, StoreString, AddFinalizer,
           RemoveFinalizer, SetEndpoint, Patch, AddCloud, AddCredential, CreateModel,
           DestroyModel, DestroyController, CreateApp, DestroyApp, CreateIntegration, Call
<1>4. Expose => pc = "expose"
    BY DEF Expose, Call
<1>5. SetConstraints => pc = "constrain"
    BY DEF SetConstraints, Call
<1>6. CASE Forget \/ Kubernetes \/ Juju \/ UNCHANGED vars
    BY <1>6 DEF Forget, Kubernetes, Observe, ObserveOthers, SetOwner, Delete,
           ProvideCredential, RunJob, NamespaceTerminates, CollectRegistration, Juju,
           ModelRemoved, AppSettles, UnitFails, UnitResolved, AppRemoved, SetApp, vars,
           local
<1> QED
    <2>1. CASE Worker
        BY <1>1, <1>2, <1>3, <1>4, <1>5, <1>6, <2>1 DEF Worker
    <2> QED
        BY <1>1, <1>6, <2>1 DEF Next

\* Juju answers the second request of a creation, so that a failure is one of its own;
\* and so is a restart.
LEMMA HalfInterrupted ==
    ASSUME Inv, EditInv, HostInv, FoundInv, HalvesInv,
           pc \in {"expose", "constrain"}, CallFails \/ Restart
    PROVE  /\ Spend("call") \/ Spend("crash")
           /\ UNCHANGED juju /\ pc' \notin {"expose", "constrain"}
<1>1. CASE CallFails
    <2>1. Standing /\ model = "alive"
        BY Stands DEF BuildSteps, FoundInv, HalvesInv, Deferred
    <2>2. Answers
        BY <2>1 DEF Answers, Reachable, Standing, HostInv
    <2> QED
        BY <1>1, <2>2 DEF CallFails, SpendIf, TryAgain, Goto, EndPass
<1>2. CASE Restart
    BY <1>2 DEF Restart, SpendIf
<1> QED
    BY <1>1, <1>2

\* The first halves are followed by the second, or interrupted.
LEMMA FirstHalves ==
    ASSUME Inv, EmptyInv, [Next]_vars
    PROVE  /\ CreateModel =>
                 /\ pc = "model" /\ UNCHANGED <<stored, apps, exposed, added>>
                 /\ model = "absent" /\ model' = "alive" /\ pc' # "expose"
                 /\ pc' = "constrain" \/ Spend("reply")
           /\ \A a \in Apps : CreateApp(a) =>
                 /\ pc = "apps" /\ UNCHANGED <<stored, model, exposed, added>>
                 /\ apps[a] = "absent" /\ apps' = [apps EXCEPT ![a] = "deployed"]
                 /\ pc' # "constrain"
                 /\ \/ a \in ExposedApps /\ pc' = "expose" /\ pass'.bare = {a}
                    \/ a \notin ExposedApps /\ pc' = "apps"
                    \/ Spend("reply") /\ pc' = "patch"
<1>1. pass \in Pass
    BY Parts, Phases
<1>2. ASSUME CreateModel
      PROVE  /\ pc = "model" /\ UNCHANGED <<stored, apps, exposed, added>>
             /\ model = "absent" /\ model' = "alive" /\ pc' # "expose"
             /\ pc' = "constrain" \/ Spend("reply")
    BY <1>2 DEF CreateModel, Call, Goto, ReplyLost, TryAgain, EndPass
<1>3. ASSUME NEW a \in Apps, CreateApp(a)
      PROVE  /\ pc = "apps" /\ UNCHANGED <<stored, model, exposed, added>>
             /\ apps[a] = "absent" /\ apps' = [apps EXCEPT ![a] = "deployed"]
             /\ pc' # "constrain"
             /\ \/ a \in ExposedApps /\ pc' = "expose" /\ pass'.bare = {a}
                \/ a \notin ExposedApps /\ pc' = "apps"
                \/ Spend("reply") /\ pc' = "patch"
    <2>1. pc = "apps" /\ UNCHANGED <<stored, model, exposed, added>>
          /\ apps[a] = "absent" /\ apps' = [apps EXCEPT ![a] = "deployed"]
        BY <1>3 DEF CreateApp, Call
    <2>2. CASE ReplyLost
        BY <2>1, <2>2 DEF ReplyLost, TryAgain, Goto, Deferred
    <2>3. CASE /\ pass' = [pass EXCEPT !.todo = @ \ {a}, !.any = TRUE,
                                       !.bare = {a} \cap ExposedApps]
               /\ pc' = IF a \in ExposedApps THEN "expose" ELSE "apps"
        <3>1. pass'.bare = {a} \cap ExposedApps
            BY <1>1, <2>3 DEF Pass
        <3> QED
            BY <2>1, <2>3, <3>1
    <2> QED
        BY <1>3, <2>1, <2>2, <2>3 DEF CreateApp
<1> QED
    BY <1>2, <1>3

\* Every half that is left behind is accounted for.
LEMMA HalvesLeft ==
    ASSUME Inv, Within, EditInv, HostInv, FoundInv, EmptyInv, HalvesInv, Inv', [Next]_vars
    PROVE  Halves' <= Interruptions'
<1>1. Missing' \subseteq Unexposed'
    BY DEF Missing
<1>2. /\ MissingConstraints = IF Unset /\ pc # "constrain" THEN 1 ELSE 0
      /\ MissingConstraints' = IF Unset' /\ pc' # "constrain" THEN 1 ELSE 0
    BY DEF MissingConstraints
<1>3. ASSUME NEW a \in Apps, CreateApp(a)
      PROVE  Halves' <= Interruptions'
    <2>1. Missing = Unexposed
        BY <1>3, FirstHalves DEF Missing
    <2>2. Unexposed' \subseteq Unexposed \cup ({a} \cap ExposedApps)
        <3>1. /\ UNCHANGED exposed /\ apps' = [apps EXCEPT ![a] = "deployed"]
              /\ apps \in [Apps -> AppStates] /\ ExposedApps \subseteq Apps
            BY <1>3, FirstHalves, Parts, AppsAssumption DEF JujuTyped
        <3> QED
            BY <3>1 DEF Unexposed
    <2>3. MissingConstraints' <= MissingConstraints
        BY <1>2, <1>3, FirstHalves DEF Unset
    <2>4. CASE a \in ExposedApps /\ pc' = "expose" /\ pass'.bare = {a}
        <3>1. Missing' \subseteq Missing
            BY <2>1, <2>2, <2>4 DEF Missing
        <3> QED
            BY <2>3, <3>1, HalvesCount
    <2>5. CASE a \notin ExposedApps
        BY <1>1, <2>1, <2>2, <2>3, <2>5, HalvesCount
    <2>6. CASE Spend("reply")
        BY <1>1, <2>1, <2>2, <2>3, <2>6, HalvesCount
    <2> QED
        BY <1>3, <2>4, <2>5, <2>6, FirstHalves
<1>4. CASE CreateModel
    <2>1. Missing = Unexposed /\ Unexposed' = Unexposed
        BY <1>4, FirstHalves DEF Missing, Unexposed
    <2>2. pc' = "constrain" => MissingConstraints' <= MissingConstraints
        BY <1>2
    <2>3. MissingConstraints' <= MissingConstraints + 1
        BY <1>2
    <2> QED
        BY <1>1, <1>4, <2>1, <2>2, <2>3, FirstHalves, HalvesCount
<1>5. ASSUME \A a \in Apps : ~CreateApp(a), ~CreateModel
      PROVE  Unexposed' \subseteq Unexposed /\ (Unset' => Unset)
    BY <1>5, HalvesAppear, AppsAssumption DEF Unexposed
<1>6. CASE pc \in {"expose", "constrain"}
    <2>1. Unexposed' \subseteq Unexposed /\ (Unset' => Unset)
        BY <1>5, <1>6, FirstHalves
    <2>2. CASE local' = local
        <3>1. Missing' \subseteq Missing /\ MissingConstraints' <= MissingConstraints
            BY <1>2, <2>1, <2>2, Waiting DEF Missing
        <3> QED
            BY <3>1, HalvesCount
    <2>3. CASE Restart \/ CallFails
        <3>1. /\ Spend("call") \/ Spend("crash")
              /\ UNCHANGED juju /\ pc' \notin {"expose", "constrain"}
            BY <1>6, <2>3, HalfInterrupted
        <3>2. Unexposed' = Unexposed /\ (Unset' <=> Unset)
            BY <3>1 DEF juju, Unexposed, Unset
        <3>3. CASE pc = "expose"
            <4>1. PICK a \in Apps : pass.bare = {a}
                BY <3>3, AppsAssumption DEF HalvesInv
            <4>2. Missing' \subseteq Missing \cup {a}
                BY <1>1, <3>2, <3>3, <4>1 DEF Missing
            <4>3. MissingConstraints' <= MissingConstraints
                BY <1>2, <3>2, <3>3
            <4> QED
                BY <3>1, <4>2, <4>3, HalvesCount
        <3>4. CASE pc = "constrain"
            <4>1. Missing' \subseteq Missing
                BY <1>1, <3>2, <3>4 DEF Missing
            <4>2. MissingConstraints' <= MissingConstraints + 1
                BY <1>2
            <4> QED
                BY <3>1, <4>1, <4>2, HalvesCount
        <3> QED
            BY <1>6, <3>3, <3>4
    <2>4. CASE pc = "expose" /\ Expose
        <3>1. exposed' = exposed \cup pass.bare
            BY <2>4 DEF Expose
        <3>2. Missing' \subseteq Missing
            BY <1>1, <2>1, <2>4, <3>1 DEF Missing, Unexposed
        <3>3. MissingConstraints' <= MissingConstraints
            BY <1>2, <2>1, <2>4
        <3> QED
            BY <3>2, <3>3, HalvesCount
    <2>5. CASE pc = "constrain" /\ SetConstraints
        <3>1. ~Unset'
            BY <2>5 DEF SetConstraints, Unset
        <3>2. Missing' \subseteq Missing
            BY <1>1, <2>1, <2>5 DEF Missing
        <3>3. MissingConstraints' <= MissingConstraints
            BY <1>2, <3>1
        <3> QED
            BY <3>2, <3>3, HalvesCount
    <2> QED
        BY <1>6, <2>2, <2>3, <2>4, <2>5, LeavingHalf
<1>7. CASE pc \notin {"expose", "constrain"} /\ ~CreateModel /\ \A a \in Apps : ~CreateApp(a)
    <2>1. Missing' \subseteq Missing
        BY <1>1, <1>5, <1>7 DEF Missing
    <2>2. MissingConstraints' <= MissingConstraints
        BY <1>2, <1>5, <1>7
    <2> QED
        BY <2>1, <2>2, HalvesCount
<1> QED
    BY <1>3, <1>4, <1>6, <1>7

\* Between its halves a creation is not yet part of a cluster that is ready.
LEMMA HalvesNext ==
    ASSUME Inv, Within, EditInv, HostInv, FoundInv, EmptyInv, HalvesInv, [Next]_vars
    PROVE  HalvesInv'
<1>1. Halves' <= Interruptions'
    BY InvNext, HalvesLeft
<1>2. pc' = "constrain" => model' = "alive"
    <2>1. CASE local' = local
        BY <2>1, Waiting, BuildingGrows DEF HalvesInv, BuildSteps
    <2>2. CASE local' # local
        BY <2>2, Arriving, FirstHalves
    <2> QED
        BY <2>1, <2>2
<1>3. pc' = "expose" => \E a \in ExposedApps : pass'.bare = {a}
    <2>1. CASE local' = local
        BY <2>1, Waiting DEF HalvesInv
    <2>2. CASE local' # local
        BY <2>2, Arriving, FirstHalves
    <2> QED
        BY <2>1, <2>2
<1>4. ASSUME pc' \in {"expose", "constrain"}
      PROVE  "ready" \notin stored' \/ "deleted" \in stored'
    <2>1. CASE local' = local
        <3>1. "ready" \notin stored \/ "deleted" \in stored
            BY <1>4, <2>1, Waiting DEF HalvesInv
        <3>2. "deleted" \in stored => "deleted" \in stored' \/ stored' = {}
            BY ObjectGrows
        <3>3. ~Patch /\ ~RemoveFinalizer
            BY <1>4, <2>1, Waiting DEF Patch, RemoveFinalizer
        <3>4. "ready" \in stored' => "ready" \in stored
            <4>1. ~AddFinalizer /\ ~SetEndpoint
                BY <1>4, <2>1, Waiting DEF AddFinalizer, SetEndpoint, Call
            <4>2. SetOwner \/ Delete => ("ready" \in stored' => "ready" \in stored)
                BY DEF SetOwner, Delete, Collected
            <4> QED
                BY <3>3, <4>1, <4>2, ObjectWriters
        <3> QED
            BY <3>1, <3>2, <3>4
    <2>2. CASE local' # local
        BY <1>4, <2>2, Arriving, FirstHalves DEF FoundInv, Whole
    <2> QED
        BY <2>1, <2>2
<1> QED
    BY <1>1, <1>2, <1>3, <1>4 DEF HalvesInv

\* From the patch the worker only comes back to the queue.
LEMMA AfterPatch ==
    ASSUME Inv, [Next]_vars, pc = "patch"
    PROVE  local' = local \/ (pc' = "idle" /\ before' = {} /\ mem' = {})
<1>1. CASE \/ Begin \/ Forget \/ Restart
           \/ WaitForPrerequisites \/ WaitForJob \/ ConfigMissing \/ CreateRefused
           \/ UpdateRefused \/ AppsRemain \/ DeleteRefused \/ StoreRefused \/ PatchFails
           \/ StartSetup \/ RegistrationFound \/ CloudFound \/ CredentialUnparsed
           \/ CredentialFound \/ IntegrationsChecked \/ UnitsChecked
    BY <1>1 DEF Begin, Forget, Restart, WaitForPrerequisites, WaitForJob, ConfigMissing,
           CreateRefused, UpdateRefused, AppsRemain, DeleteRefused, StoreRefused,
           PatchFails, EndPass, StartSetup, RegistrationFound, CloudFound,
           CredentialUnparsed, CredentialFound, IntegrationsChecked, UnitsChecked, Call
<1>2. ~(\/ StartBootstrap \/ ConfigMalformed \/ StartTeardown \/ CallFails
        \/ ModelQueryFails \/ ModelQueried \/ ModelRead
        \/ Connect \/ ListApps \/ SkipMissing \/ ModelFound \/ AppsChecked
        \/ EndpointRefused \/ MarkReady
        \/ \E a \in Apps : AppFound(a)
        \/ \E i \in Integrations : IntegrationFound(i))
    BY DEF StartBootstrap, ConfigMalformed, StartTeardown, CallFails, JujuCalls, Deferred,
           ModelQueryFails, ModelQueried, ModelRead, Connect, ListApps, SkipMissing,
           ModelFound, AppsChecked, EndpointRefused, MarkReady, AppFound,
           IntegrationFound, Call
<1>3. ~(\/ CreateObject \/ DeleteObject \/ ResetPassword \/ StoreString
        \/ AddFinalizer \/ RemoveFinalizer \/ SetEndpoint
        \/ AddCloud \/ AddCredential \/ CreateModel \/ SetConstraints
        \/ Expose \/ DestroyModel
        \/ DestroyController
        \/ \E a \in Apps : CreateApp(a) \/ DestroyApp(a)
        \/ \E i \in Integrations : CreateIntegration(i))
    BY DEF CreateObject, DeleteObject, ResetPassword, StoreString, AddFinalizer,
           RemoveFinalizer, SetEndpoint, AddCloud, AddCredential, CreateModel,
           SetConstraints, Expose, DestroyModel, DestroyController, CreateApp,
           DestroyApp, CreateIntegration, Call
<1>4. CASE Patch
    BY <1>4 DEF Patch, EndPass
<1>5. CASE Kubernetes \/ Juju \/ UNCHANGED vars
    BY <1>5 DEF Kubernetes, Observe, ObserveOthers, SetOwner, Delete, ProvideCredential,
           RunJob, NamespaceTerminates, CollectRegistration, Juju, ModelRemoved,
           AppSettles, UnitFails, UnitResolved, AppRemoved, SetApp, vars, local
<1> QED
    <2>1. CASE Worker
        BY <1>1, <1>2, <1>3, <1>4, <2>1 DEF Worker
    <2> QED
        BY <1>1, <1>5, <2>1 DEF Next

\* No copy runs ahead, and a pass marks the object ready only where all is there.
LEMMA EditNext == ASSUME Inv, EditInv, FoundInv, [Next]_vars PROVE EditInv'
<1>1. cache' = {} => stored' = {}
    BY ObjectGrows DEF EditInv
<1>2. "endpoint" \in cache' \cup before' => "endpoint" \in stored' \/ stored' = {}
    BY ObjectGrows DEF EditInv
<1> DEFINE Edited ==
        /\ pc' # "patch" => mem' = before'
        /\ pc' = "patch" => Building(before')
        /\ pc' = "patch" => \/ mem' \in {before', before' \cup {"endpoint", "written"}}
                            \/ mem' = before' \cup {"ready"} /\ "endpoint" \in before' /\ Whole'
<1>3. ASSUME local' = local PROVE Edited
    <2>1. UNCHANGED <<pc, before, mem>>
        BY <1>3, Waiting
    <2>2. Whole /\ pc = "patch" => Whole'
        <3> SUFFICES ASSUME Whole, pc = "patch" PROVE Whole'
            OBVIOUS
        <3>1. Building(before)
            BY DEF EditInv
        <3>2. Standing /\ pc \notin TearSteps
            BY <3>1, Stands
        <3> QED
            BY <3>2, JujuGrows DEF Whole
    <2> QED
        BY <2>1, <2>2 DEF EditInv
<1>4. ASSUME local' # local, pc = "patch" PROVE Edited
    BY <1>4, AfterPatch
<1>5. ASSUME local' # local, pc # "patch", pc' # "patch" PROVE Edited
    <2>1. CASE UNCHANGED <<before, mem>>
        BY <1>5, <2>1 DEF EditInv
    <2>2. CASE Begin
        BY <1>5, <2>2 DEF Begin
    <2> QED
        BY <1>5, <2>1, <2>2, Copying DEF SetEndpoint, EndpointRefused, MarkReady
<1>6. ASSUME local' # local, pc # "patch", pc' = "patch" PROVE Edited
    <2>1. CASE pc \in Deferred /\ Goto("patch")
        BY <1>6, <2>1, Parts, Phases DEF EditInv, Goto
    <2>2. CASE SetEndpoint \/ EndpointRefused
        <3>1. pc = "endpoint" /\ before' = before /\ mem' = before \cup {"endpoint", "written"}
            BY <2>2 DEF SetEndpoint, EndpointRefused, Call
        <3>2. Building(before)
            BY <3>1, Parts, Phases DEF BuildSteps
        <3> QED
            BY <1>6, <3>1, <3>2
    <2>3. CASE MarkReady
        <3>1. /\ pc = "endpoint" /\ "endpoint" \in before /\ before' = before
              /\ mem' = mem \cup {"ready"} /\ UNCHANGED juju
            BY <2>3 DEF MarkReady
        <3>2. Building(before)
            BY <3>1, Parts, Phases DEF BuildSteps
        <3>3. Whole
            BY <3>1 DEF FoundInv, Whole, Deferred
        <3>4. Whole' /\ mem = before
            BY <3>1, <3>3 DEF Whole, juju, EditInv
        <3> QED
            BY <1>6, <3>1, <3>2, <3>4
    <2> QED
        BY <1>6, <2>1, <2>2, <2>3, Arriving
<1> HIDE DEF Edited
<1>7. Edited
    BY <1>3, <1>4, <1>5, <1>6
<1> QED
    BY <1>1, <1>2, <1>7 DEF Edited, EditInv

\* Only the two lists move a pass along them.
LEMMA Stepping ==
    ASSUME Inv, [Next]_vars, pc' \notin Listing
    PROVE  pass'.step = 1 \/ (pc \notin Listing /\ pass'.step = pass.step)
<1>1. pass \in Pass /\ NoPass.step = 1 /\ model \in {"absent", "alive", "dying"}
    BY Parts, Phases, NoPassTyped DEF JujuTyped
<1>2. CASE \/ Begin \/ Forget \/ Restart
           \/ WaitForPrerequisites \/ WaitForJob \/ ConfigMissing \/ CreateRefused
           \/ UpdateRefused \/ AppsRemain \/ DeleteRefused \/ StoreRefused \/ PatchFails
           \/ StartSetup \/ RegistrationFound \/ CloudFound \/ CredentialUnparsed
           \/ CredentialFound \/ IntegrationsChecked \/ UnitsChecked
    BY <1>1, <1>2
       DEF Begin, Forget, Restart, WaitForPrerequisites, WaitForJob, ConfigMissing,
           CreateRefused, UpdateRefused, AppsRemain, DeleteRefused, StoreRefused,
           PatchFails, EndPass, StartSetup, RegistrationFound, CloudFound,
           CredentialUnparsed, CredentialFound, IntegrationsChecked, UnitsChecked, Goto,
           local, Listing, Call
<1>3. CASE \/ StartBootstrap \/ ConfigMalformed \/ StartTeardown \/ CallFails
           \/ ModelQueryFails \/ ModelQueried \/ ModelRead
           \/ EndpointRefused \/ MarkReady
    BY <1>1, <1>3
       DEF StartBootstrap, ConfigMalformed, StartTeardown, CallFails, JujuCalls, Deferred,
           ModelQueryFails, ModelQueried, ModelRead, EndpointRefused, MarkReady, Goto,
           TryAgain, EndPass, Listing, Call
<1>4. CASE \/ Connect \/ ListApps \/ SkipMissing \/ ModelFound \/ AppsChecked
           \/ \E a \in Apps : AppFound(a)
           \/ \E i \in Integrations : IntegrationFound(i)
    BY <1>1, <1>4
       DEF Connect, ListApps, SkipMissing, NextDeletion, ModelFound, AppsChecked,
           AppFound, IntegrationFound, Goto, Listing, Call, Pass
<1>5. CASE \/ CreateObject \/ DeleteObject \/ ResetPassword \/ StoreString
           \/ AddFinalizer \/ RemoveFinalizer \/ SetEndpoint \/ Patch
           \/ AddCloud \/ AddCredential \/ CreateModel \/ SetConstraints
           \/ Expose \/ DestroyModel
           \/ DestroyController
    BY <1>1, <1>5
       DEF CreateObject, DeleteObject, NextDeletion, ResetPassword, StoreString,
           AddFinalizer, RemoveFinalizer, SetEndpoint, Patch, AddCloud,
           AddCredential, CreateModel, SetConstraints, Expose, DestroyModel,
           DestroyController, ReplyLost, Goto, TryAgain, EndPass, Listing, Call,
           Deferred, Pass
<1>6. CASE \/ \E a \in Apps : CreateApp(a) \/ DestroyApp(a)
           \/ \E i \in Integrations : CreateIntegration(i)
    BY <1>1, <1>6
       DEF CreateApp, DestroyApp, CreateIntegration, ReplyLost, Goto, TryAgain,
           EndPass, Listing, Call, Deferred, Pass
<1>7. CASE Kubernetes \/ Juju \/ UNCHANGED vars
    BY <1>7 DEF Kubernetes, Observe, ObserveOthers, SetOwner, Delete, ProvideCredential,
           RunJob, NamespaceTerminates, CollectRegistration, Juju, ModelRemoved,
           AppSettles, UnitFails, UnitResolved, AppRemoved, SetApp, vars, local
<1> QED
    <2>1. CASE Worker
        BY <1>2, <1>3, <1>4, <1>5, <1>6, <2>1 DEF Worker
    <2> QED
        BY <1>2, <1>7, <2>1 DEF Next

\* A teardown starts from the branch, and the branch from a job that has succeeded.
LEMMA TearFrom ==
    ASSUME Inv, [Next]_vars, pc' \in TearSteps \cup {"branch"}
    PROVE  pc \in TearSteps \cup {"branch"} \/ Connect
<1>1. CASE local' = local
    BY <1>1, Waiting
<1>2. CASE local' # local
    BY <1>2, Arriving
       DEF TearSteps, StartTeardown, ModelQueried, ModelRead, ListApps, DestroyApp,
           ModelQueryFails, DestroyController, SkipMissing, DeleteObject, Call
<1> QED
    BY <1>1, <1>2

\* A deletion takes the worker one object further, or its pass is over.
LEMMA Advancing ==
    ASSUME Inv, SkipMissing \/ DeleteObject, pc' # "idle"
    PROVE  /\ pass.step \in 1..6 /\ pc = "deleteSetup"
           /\ \/ pass.step < 6 /\ pc' = "deleteSetup" /\ pass'.step = pass.step + 1
              \/ pass.step = 6 /\ pc' = "removeFinalizer"
<1>1. pass \in Pass /\ pass.step \in 1..6 /\ Len(TeardownOrder) = 6
    BY Parts, Phases, Orders DEF Pass
<1>2. NextDeletion /\ pc = "deleteSetup"
    BY DEF SkipMissing, DeleteObject, EndPass
<1> QED
    BY <1>1, <1>2 DEF NextDeletion, Pass

\* With fresh caches nothing the teardown has come past is there, or comes back.
LEMMA ReleaseNext ==
    ASSUME Inv, Within, ReleaseInv, [Next]_vars PROVE ReleaseInv'
<1>1. pc' \notin Listing => pass'.step = 1
    BY Stepping DEF ReleaseInv
<1> SUFFICES ASSUME Spared({"stale"})'
               PROVE  /\ pc' \in TearSteps \cup {"branch"} =>
                             ("job" \in kube' => "succeeded" \in kube')
                      /\ pc' = "deleteSetup" =>
                             \A n \in 1..6 : n < pass'.step => TeardownOrder[n] \notin kube'
                      /\ pc' = "removeFinalizer" =>
                             /\ kube' \cap SetupObjects = {}
                             /\ "namespace" \in kube' => "terminating" \in kube'
    BY <1>1 DEF ReleaseInv
<1>3. Spared({"stale"}) /\ ~Spend("stale")
    BY Unspent DEF FaultKinds
<1>4. ASSUME pc \in TearSteps \cup {"branch"}
      PROVE  /\ "job" \in kube' => "succeeded" \in kube'
             /\ kube' \cap SetupObjects \subseteq kube
    <2>1. "job" \in kube => "succeeded" \in kube
        BY <1>3, <1>4 DEF ReleaseInv
    <2>2. ~CreateObject
        BY <1>4 DEF CreateObject, TearSteps
    <2>3. ~RunJob
        BY <2>1 DEF RunJob
    <2> QED
        BY <2>1, <2>2, <2>3, KubeChanges DEF SetupObjects
<1>5. pc' \in TearSteps \cup {"branch"} => ("job" \in kube' => "succeeded" \in kube')
    <2>1. CASE Connect
        <3>1. "succeeded" \in kube
            BY <1>3, <2>1, FreshLook DEF Connect, ReadAtStart
        <3> QED
            BY <2>1, <3>1 DEF Connect
    <2> QED
        BY <1>4, <2>1, TearFrom
<1>6. ASSUME pc' = "deleteSetup", NEW n \in 1..6, n < pass'.step
      PROVE  TeardownOrder[n] \notin kube'
    <2>1. pc \in TearSteps \cup {"branch"}
        BY <1>6, TearFrom DEF TearSteps, Connect
    <2>2. pass'.step \in 1..6
        BY <1>6, Parts, PartsNext, InvNext DEF PassInv, PassTyped, Pass
    <2>3. TeardownOrder[n] \in SetupObjects
        BY <1>6, <2>2, OrdersListed DEF SetupObjects
    <2>4. SUFFICES TeardownOrder[n] \notin kube \/ TeardownOrder[n] \notin kube'
        BY <1>4, <2>1, <2>3
    <2>5. CASE local' = local
        BY <1>3, <1>6, <2>5, Waiting DEF ReleaseInv
    <2>6. CASE DestroyController
        <3>1. pass'.step = pass.step /\ pc = "destroyController"
            BY <1>6, <2>6 DEF DestroyController, Goto, ReplyLost, TryAgain, EndPass, Deferred, Call
        <3>2. pass.step = 1
            BY <3>1 DEF ReleaseInv, Listing
        <3> QED
            BY <1>6, <3>1, <3>2
    <2>7. CASE SkipMissing \/ DeleteObject
        <3>1. pc = "deleteSetup" /\ pass.step \in 1..6 /\ pass'.step = pass.step + 1
              /\ pass.step < 6
            BY <1>6, <2>7, Advancing
        <3>2. CASE n < pass.step
            BY <1>3, <3>1, <3>2 DEF ReleaseInv
        <3>3. CASE n = pass.step /\ SkipMissing
            <4>1. TeardownOrder[n] \notin seen /\ LookAt({TeardownOrder[n]})
                BY <3>3 DEF SkipMissing
            <4> QED
                BY <1>3, <4>1, FreshLook
        <3>4. CASE n = pass.step /\ DeleteObject
            <4>1. kube' = Without(TeardownOrder[n])
                BY <3>4 DEF DeleteObject
            <4> QED
                BY <2>3, <4>1 DEF Without, SetupObjects
        <3> QED
            BY <1>6, <2>7, <3>1, <3>2, <3>3, <3>4
    <2> QED
        BY <1>6, <2>5, <2>6, <2>7, Arriving
<1>7. ASSUME pc' = "removeFinalizer"
      PROVE  /\ kube' \cap SetupObjects = {}
             /\ "namespace" \in kube' => "terminating" \in kube'
    <2>1. CASE local' = local
        <3>1. pc = "removeFinalizer" /\ kube \cap SetupObjects = {}
              /\ ("namespace" \in kube => "terminating" \in kube)
            BY <1>3, <1>7, <2>1, Waiting DEF ReleaseInv
        <3>2. kube' \cap SetupObjects = {}
            BY <1>4, <3>1 DEF TearSteps
        <3>3. ~RunJob
            BY <3>1 DEF RunJob, SetupObjects
        <3>4. CASE NamespaceTerminates
            BY <3>2, <3>4 DEF NamespaceTerminates
        <3> QED
            BY <3>1, <3>2, <3>3, <3>4, KubeChanges
    <2>2. CASE SkipMissing \/ DeleteObject
        <3>1. pc = "deleteSetup" /\ pass.step = 6
            BY <1>7, <2>2, Advancing
        <3>2. \A n \in 1..5 : TeardownOrder[n] \notin kube
            BY <1>3, <3>1 DEF ReleaseInv
        <3>3. kube \cap SetupObjects = {}
            BY <3>2, OrdersListed DEF SetupObjects
        <3>4. kube' \cap SetupObjects = {}
            BY <1>4, <3>1, <3>3 DEF TearSteps
        <3>5. CASE SkipMissing
            <4>1. "namespace" \notin seen /\ LookAt({"namespace"}) /\ kube' = kube
                BY <3>1, <3>5, OrdersListed DEF SkipMissing
            <4> QED
                BY <1>3, <3>4, <4>1, FreshLook
        <3>6. CASE DeleteObject
            BY <3>1, <3>4, <3>6, OrdersListed DEF DeleteObject, Without
        <3> QED
            BY <2>2, <3>5, <3>6
    <2> QED
        BY <1>7, <2>1, <2>2, Arriving
<1> QED
    BY <1>5, <1>6, <1>7

\* How the worker leaves the queue, and the end of a teardown.
LEMMA Leaving ==
    ASSUME Inv, [Next]_vars, pc \in {"idle", "deleteSetup", "removeFinalizer"}
    PROVE  \/ local' = local \/ Restart
           \/ pc = "idle" /\ Begin
           \/ pc = "deleteSetup" /\ (SkipMissing \/ DeleteObject \/ DeleteRefused)
           \/ pc = "removeFinalizer" /\ (RemoveFinalizer \/ UpdateRefused)
<1>1. ~(\/ WaitForPrerequisites \/ WaitForJob \/ ConfigMissing \/ CreateRefused
        \/ AppsRemain \/ StoreRefused \/ PatchFails
        \/ StartSetup \/ RegistrationFound \/ CloudFound \/ CredentialUnparsed
        \/ CredentialFound \/ IntegrationsChecked \/ UnitsChecked)
    BY DEF WaitForPrerequisites, WaitForJob, ConfigMissing, CreateRefused, AppsRemain,
           StoreRefused, PatchFails, StartSetup, RegistrationFound, CloudFound,
           CredentialUnparsed, CredentialFound, IntegrationsChecked, UnitsChecked, Call
<1>2. ~(\/ StartBootstrap \/ ConfigMalformed \/ StartTeardown \/ CallFails
        \/ ModelQueryFails \/ ModelQueried \/ ModelRead
        \/ Connect \/ ListApps \/ ModelFound \/ AppsChecked
        \/ EndpointRefused \/ MarkReady
        \/ \E a \in Apps : AppFound(a)
        \/ \E i \in Integrations : IntegrationFound(i))
    BY DEF StartBootstrap, ConfigMalformed, StartTeardown, CallFails, JujuCalls, Deferred,
           ModelQueryFails, ModelQueried, ModelRead, Connect, ListApps,
           ModelFound, AppsChecked, EndpointRefused, MarkReady, AppFound,
           IntegrationFound, Call
<1>3. ~(\/ CreateObject \/ ResetPassword \/ StoreString
        \/ AddFinalizer \/ SetEndpoint \/ Patch
        \/ AddCloud \/ AddCredential \/ CreateModel \/ SetConstraints
        \/ Expose \/ DestroyModel
        \/ DestroyController
        \/ \E a \in Apps : CreateApp(a) \/ DestroyApp(a)
        \/ \E i \in Integrations : CreateIntegration(i))
    BY DEF CreateObject, ResetPassword, StoreString, AddFinalizer, SetEndpoint,
           Patch, AddCloud, AddCredential, CreateModel, SetConstraints, Expose,
           DestroyModel, DestroyController, CreateApp, DestroyApp, CreateIntegration,
           Call
<1>4. /\ Begin => pc = "idle"
      /\ SkipMissing \/ DeleteObject \/ DeleteRefused => pc = "deleteSetup"
      /\ RemoveFinalizer => pc = "removeFinalizer"
      /\ UpdateRefused => pc = "removeFinalizer"
    BY DEF Begin, SkipMissing, DeleteObject, DeleteRefused, RemoveFinalizer, UpdateRefused
<1>5. CASE Forget \/ Kubernetes \/ Juju \/ UNCHANGED vars
    BY <1>5 DEF Forget, Kubernetes, Observe, ObserveOthers, SetOwner, Delete,
           ProvideCredential, RunJob, NamespaceTerminates, CollectRegistration, Juju,
           ModelRemoved, AppSettles, UnitFails, UnitResolved, AppRemoved, SetApp, vars,
           local
<1> QED
    <2>1. CASE Worker
        BY <1>1, <1>2, <1>3, <1>4, <1>5, <2>1 DEF Worker
    <2> QED
        BY <1>4, <1>5, <2>1 DEF Next

\* Whether the endpoint's field is in the stored spec tells whether an update has.
LEMMA WrittenNext ==
    ASSUME Inv, EditInv, [Next]_vars, "finalizer" \notin stored => "written" \notin stored
    PROVE  "finalizer" \notin stored' => "written" \notin stored'
<1>1. CASE AddFinalizer
    BY <1>1 DEF AddFinalizer, Update, Collected
<1>2. CASE RemoveFinalizer
    BY <1>2, Parts, Phases DEF RemoveFinalizer, Update, Collected, TearSteps
<1>3. CASE SetEndpoint
    BY <1>3, Parts, Phases DEF SetEndpoint, Call, Update, Collected, BuildSteps, Building
<1>4. CASE Patch
    BY <1>4, Parts DEF Patch, EditInv, Building, ObjectsKept, Copies, Sound
<1>5. CASE SetOwner \/ Delete
    BY <1>5 DEF SetOwner, Delete, Collected
<1>6. CASE UNCHANGED stored
    BY <1>6
<1> QED
    BY <1>1, <1>2, <1>3, <1>4, <1>5, <1>6, ObjectWriters

\* A job that has succeeded has its config secret, but for the middle of a teardown.
LEMMA ConfigNext ==
    ASSUME Inv, Within, HostInv, QueueInv, [Next]_vars, Spared(Interrupts)',
           {"job", "succeeded"} \subseteq kube', "config" \notin kube'
    PROVE  pc' = "deleteSetup" /\ pass'.step \in 3..5
<1>1. /\ Spared(Interrupts)
      /\ ~Spend("api") /\ ~Spend("stale") /\ ~Spend("crash")
    <2>1. Interrupts \in SUBSET FaultKinds
        BY DEF Interrupts, FaultKinds
    <2> QED
        BY <2>1, Unspent DEF Interrupts
<1>2. ~RunJob
    BY DEF RunJob
<1>3. {"job", "succeeded"} \subseteq kube
    BY <1>2, KubeChanges DEF HostInv
<1>4. CASE "config" \in kube
    <2>1. DeleteObject /\ pass.step = 2
        BY <1>4, KubeChanges
    <2>2. NextDeletion /\ pc = "deleteSetup"
        BY <1>1, <2>1 DEF DeleteObject
    <2>3. pass \in Pass
        BY Parts, Phases
    <2> QED
        BY <2>1, <2>2, <2>3, Orders DEF NextDeletion, Pass
<1>5. CASE "config" \notin kube
    <2>1. pc = "deleteSetup" /\ pass.step \in 3..5
        BY <1>1, <1>3, <1>5 DEF QueueInv
    <2>2. CASE local' = local
        BY <2>1, <2>2, Waiting
    <2>3. ~DeleteRefused /\ ~Restart
        BY <1>1, <2>1 DEF DeleteRefused, Restart, SpendIf
    <2>4. CASE SkipMissing \/ DeleteObject
        <3>1. NextDeletion
            BY <1>1, <2>4 DEF SkipMissing, DeleteObject
        <3>2. pc' # "idle"
            BY <2>1, <3>1 DEF NextDeletion
        <3>3. CASE pass.step = 5 /\ SkipMissing
            <4>1. "job" \notin seen /\ LookAt({"job"})
                BY <3>3, OrdersListed DEF SkipMissing
            <4> QED
                BY <1>1, <1>3, <4>1, FreshLook
        <3>4. CASE pass.step = 5 /\ DeleteObject
            BY <3>4, OrdersListed DEF DeleteObject, Without
        <3>5. CASE pass.step # 5
            BY <2>1, <2>4, <3>2, <3>5, Advancing
        <3> QED
            BY <2>4, <3>3, <3>4, <3>5
    <2> QED
        BY <2>1, <2>2, <2>3, <2>4, Leaving
<1> QED
    BY <1>4, <1>5

\* A worker that goes idle has the object in the queue, or an event on its way.
LEMMA IdleNext ==
    ASSUME Inv, Within, EditInv, QueueInv, [Next]_vars, Spared(Interrupts)',
           pc' = "idle", "present" \in stored', ~queued'
    PROVE  Generation(cache') # Generation(stored')
<1>1. /\ Spared(Interrupts)
      /\ ~Spend("api") /\ ~Spend("stale") /\ ~Spend("crash")
    <2>1. Interrupts \in SUBSET FaultKinds
        BY DEF Interrupts, FaultKinds
    <2> QED
        BY <2>1, Unspent DEF Interrupts
<1>2. "present" \in stored /\ queued \in BOOLEAN
    BY ObjectGrows, Parts DEF ObjectsKept, StoredWhole
<1>3. "deleted" \in cache => "deleted" \in stored
    BY <1>2, Parts DEF ObjectsKept, Copies, Sound, Ended
<1>4. CASE Forget
    BY <1>2, <1>4 DEF Forget, Generation
<1>5. CASE Restart \/ EndPass(TRUE)
    <2>1. ~Restart
        BY <1>2 DEF Restart
    <2> QED
        BY <1>5, <2>1 DEF EndPass
<1>6. CASE UNCHANGED local /\ ~Forget /\ ~Restart /\ (UNCHANGED queued \/ Kubernetes)
    <2>1. pc = "idle"
        BY <1>6, Waiting
    <2>2. ~queued
        BY <1>2, <1>6
           DEF Kubernetes, Observe, ObserveOthers, SetOwner, Delete, ProvideCredential,
               RunJob, NamespaceTerminates, CollectRegistration, object
    <2>3. Generation(cache) # Generation(stored)
        BY <1>1, <1>2, <2>1, <2>2 DEF QueueInv
    <2>4. ~Observe
        BY <2>3 DEF Observe
    <2>5. UNCHANGED cache
        BY <1>6, <2>4, ObjectWriters
    <2>6. CASE UNCHANGED stored
        BY <2>3, <2>5, <2>6
    <2>7. CASE SetOwner
        BY <2>3, <2>5, <2>7 DEF SetOwner, Generation
    <2>8. CASE Delete
        <3>1. "deleted" \in stored' /\ "deleted" \notin cache'
            BY <1>2, <1>3, <2>5, <2>8 DEF Delete, Collected
        <3> QED
            BY <3>1 DEF Generation
    <2>9. ~AddFinalizer /\ ~RemoveFinalizer /\ ~SetEndpoint /\ ~Patch
        BY <2>1 DEF AddFinalizer, RemoveFinalizer, SetEndpoint, Call, Patch
    <2> QED
        BY <2>6, <2>7, <2>8, <2>9, ObjectWriters
<1>7. CASE ConfigMissing
    <2>1. {"job", "succeeded"} \subseteq kube /\ "config" \notin kube
        BY <1>1, <1>7, FreshLook DEF ConfigMissing, ReadAtStart
    <2> QED
        BY <1>1, <1>7, <2>1 DEF QueueInv, ConfigMissing
<1>8. CASE AddFinalizer
    <2>1. stored = before /\ "finalizer" \notin stored /\ "deleted" \notin stored
          /\ "written" \in stored' /\ UNCHANGED cache
        BY <1>8 DEF AddFinalizer, Update, Collected
    <2>2. "finalizer" \notin cache
        BY <1>3, <2>1, Parts DEF ObjectsKept, Copies, Sound, Building
    <2> QED
        BY <2>1, <2>2 DEF QueueInv, Generation
<1>9. CASE RemoveFinalizer
    BY <1>9, Parts, Phases DEF RemoveFinalizer, Update, Collected, TearSteps
<1> QED
    <2>1. UNCHANGED <<local, queued>> \/ (UNCHANGED local /\ (Forget \/ Kubernetes))
          \/ Restart \/ EndPass(TRUE) \/ ConfigMissing \/ AddFinalizer \/ RemoveFinalizer
        BY Ending
    <2> QED
        BY <1>4, <1>5, <1>6, <1>7, <1>8, <1>9, <2>1

\* No pass leaves the object behind.
LEMMA QueueNext ==
    ASSUME Inv, Within, EditInv, HostInv, QueueInv, [Next]_vars PROVE QueueInv'
<1>1. "finalizer" \notin stored' => "written" \notin stored'
    BY WrittenNext DEF QueueInv
<1>2. "finalizer" \notin cache' => "written" \notin cache'
    BY ObjectGrows DEF QueueInv
<1>3. Spared(Interrupts)' /\ {"job", "succeeded"} \subseteq kube' /\ "config" \notin kube' =>
          pc' = "deleteSetup" /\ pass'.step \in 3..5
    BY ConfigNext
<1>4. Spared(Interrupts)' /\ pc' = "idle" /\ "present" \in stored' /\ ~queued' =>
          Generation(cache') # Generation(stored')
    BY IdleNext
<1> QED
    BY <1>1, <1>2, <1>3, <1>4 DEF QueueInv

\* A pass finds the secret unparsable only where it connects.
LEMMA Parsing ==
    ASSUME Inv, [Next]_vars
    PROVE  pass'.unparsable \in {pass.unparsable, FALSE} \/ Connect
<1>1. pass \in Pass /\ NoPass.unparsable = FALSE /\ model \in {"absent", "alive", "dying"}
    BY Parts, Phases DEF NoPass, JujuTyped
<1>2. CASE \/ Begin \/ Forget \/ Restart
           \/ WaitForPrerequisites \/ WaitForJob \/ ConfigMissing \/ CreateRefused
           \/ UpdateRefused \/ AppsRemain \/ DeleteRefused \/ StoreRefused \/ PatchFails
           \/ StartSetup \/ RegistrationFound \/ CloudFound \/ CredentialUnparsed
           \/ CredentialFound \/ IntegrationsChecked \/ UnitsChecked
    BY <1>1, <1>2
       DEF Begin, Forget, Restart, WaitForPrerequisites, WaitForJob, ConfigMissing,
           CreateRefused, UpdateRefused, AppsRemain, DeleteRefused, StoreRefused,
           PatchFails, EndPass, StartSetup, RegistrationFound, CloudFound,
           CredentialUnparsed, CredentialFound, IntegrationsChecked, UnitsChecked, Goto,
           local
<1>3. CASE \/ StartBootstrap \/ ConfigMalformed \/ StartTeardown \/ CallFails
           \/ ModelQueryFails \/ ModelQueried \/ ModelRead
           \/ EndpointRefused \/ MarkReady
    BY <1>1, <1>3
       DEF StartBootstrap, ConfigMalformed, StartTeardown, CallFails,
           ModelQueryFails, ModelQueried, ModelRead, EndpointRefused, MarkReady, Goto,
           TryAgain, EndPass
<1>4. CASE \/ Connect \/ ListApps \/ SkipMissing \/ ModelFound \/ AppsChecked
           \/ \E a \in Apps : AppFound(a)
           \/ \E i \in Integrations : IntegrationFound(i)
    BY <1>1, <1>4
       DEF ListApps, SkipMissing, NextDeletion, ModelFound, AppsChecked,
           AppFound, IntegrationFound, Goto, Pass
<1>5. CASE \/ CreateObject \/ DeleteObject \/ ResetPassword \/ StoreString
           \/ AddFinalizer \/ RemoveFinalizer \/ SetEndpoint \/ Patch
           \/ AddCloud \/ AddCredential \/ CreateModel \/ SetConstraints
           \/ Expose \/ DestroyModel
           \/ DestroyController
    BY <1>1, <1>5
       DEF CreateObject, DeleteObject, NextDeletion, ResetPassword, StoreString,
           AddFinalizer, RemoveFinalizer, SetEndpoint, Patch, AddCloud,
           AddCredential, CreateModel, SetConstraints, Expose, DestroyModel,
           DestroyController, ReplyLost, Goto, TryAgain, EndPass, Pass
<1>6. CASE \/ \E a \in Apps : CreateApp(a) \/ DestroyApp(a)
           \/ \E i \in Integrations : CreateIntegration(i)
    <2>1. ASSUME NEW a \in Apps, DestroyApp(a)
          PROVE  pass'.unparsable \in {pass.unparsable, FALSE}
        <3>1. CASE ReplyLost
            BY <1>1, <3>1 DEF ReplyLost, TryAgain, Goto, EndPass
        <3>2. CASE pass' = [pass EXCEPT !.todo = @ \ {a}, !.any = (@ \/ apps[a] # "absent")]
            BY <1>1, <3>2 DEF Pass
        <3> QED
            BY <2>1, <3>1, <3>2, Zenon DEF DestroyApp
    <2>2. ASSUME NEW x, CreateApp(x) \/ CreateIntegration(x)
          PROVE  pass'.unparsable \in {pass.unparsable, FALSE}
        BY <1>1, <2>2 DEF CreateApp, CreateIntegration, ReplyLost, Goto, TryAgain, EndPass, Pass
    <2> QED
        BY <1>6, <2>1, <2>2
<1>7. CASE Kubernetes \/ Juju \/ UNCHANGED vars
    BY <1>7 DEF Kubernetes, Observe, ObserveOthers, SetOwner, Delete, ProvideCredential,
           RunJob, NamespaceTerminates, CollectRegistration, Juju, ModelRemoved,
           AppSettles, UnitFails, UnitResolved, AppRemoved, SetApp, vars, local
<1> QED
    <2>1. CASE Worker
        BY <1>2, <1>3, <1>4, <1>5, <1>6, <2>1 DEF Worker
    <2> QED
        BY <1>2, <1>7, <2>1 DEF Next

\* The faults that have not happened.
JujuOnly == /\ ~Spend("api") /\ ~Spend("conflict") /\ ~Spend("patch") /\ ~Spend("stale")
            /\ ~Spend("crash") /\ ~Spend("bootstrap") /\ ~Spend("badSecret")

\* As long as only Juju fails, the job's data and the user's secret are good.
LEMMA DataNext ==
    ASSUME Inv, HostInv, DataGood, JobAlone, JujuOnly, [Next]_vars PROVE DataGood'
<1>1. "malformed" \notin kube'
    <2>1. CASE RunJob
        <3>1. "namespace" \notin kube
            BY <2>1 DEF RunJob, JobAlone
        <3>2. kube' = kube \cup {"succeeded", "config", "namespace"}
            BY <2>1, <3>1 DEF RunJob, SpendIf, JujuOnly
        <3> QED
            BY <3>2 DEF DataGood
    <2> QED
        BY <2>1, KubeChanges DEF DataGood
<1>2. "unparsable" \notin kube'
    BY KubeChanges DEF DataGood, JujuOnly
<1>3. "unparsable" \notin seen'
    BY ObjectWriters DEF ObserveOthers, Restart, DataGood
<1>4. ~pass'.unparsable
    <2>1. CASE Connect
        <3>1. pass \in Pass /\ "unparsable" \notin seen
            BY Parts, Phases DEF DataGood
        <3>2. pass'.unparsable = ("unparsable" \in seen)
            BY <2>1, <3>1 DEF Connect, Pass
        <3> QED
            BY <3>1, <3>2
    <2> QED
        BY <2>1, Parsing DEF DataGood
<1>5. pc' # "panicked"
    <2>1. ~ConfigMalformed
        BY FreshLook DEF ConfigMalformed, ReadAtStart, DataGood, JujuOnly
    <2>2. ~CredentialUnparsed
        BY DEF CredentialUnparsed, DataGood
    <2>3. CASE local' = local
        BY <2>3, Waiting DEF DataGood
    <2> QED
        BY <2>1, <2>2, <2>3, Arriving
<1> QED
    BY <1>1, <1>2, <1>3, <1>4, <1>5 DEF DataGood

\* And no job runs beside a controller.
LEMMA JobAloneNext ==
    ASSUME Inv, HostInv, JobAlone, JobLast, JujuOnly, [Next]_vars PROVE JobAlone'
<1>1. "job" \in kube' /\ "succeeded" \notin kube' => "namespace" \notin kube'
    <2> SUFFICES ASSUME "job" \in kube', "succeeded" \notin kube'
                 PROVE  "namespace" \notin kube'
        OBVIOUS
    <2>1. ~RunJob
        BY Zenon DEF RunJob
    <2>2. CASE "job" \in kube
        <3>1. "succeeded" \notin kube
            BY KubeChanges
        <3> QED
            BY <2>1, <2>2, <3>1, KubeChanges DEF JobAlone
    <2>3. CASE "job" \notin kube
        <3>1. pc = "createSetup"
            BY <2>3, KubeChanges DEF CreateObject
        <3> QED
            BY <2>1, <3>1, KubeChanges DEF JobAlone
    <2> QED
        BY <2>2, <2>3
<1>2. ASSUME pc' = "createSetup"
      PROVE  {"job", "namespace"} \cap kube' = {}
    <2>1. CASE pc = "createSetup"
        <3>1. ~RunJob
            BY <2>1 DEF RunJob, JobAlone
        <3>2. ~(CreateObject /\ pass.step = 4)
            BY <1>2, Orders DEF CreateObject, EndPass
        <3> QED
            BY <2>1, <3>1, <3>2, KubeChanges DEF JobAlone
    <2>2. CASE pc # "createSetup"
        <3>1. StartBootstrap
            BY <1>2, <2>2, Waiting, Arriving DEF CreateObject
        <3>2. "job" \notin kube /\ pc = "prerequisites" /\ kube' = kube
            BY <3>1, FreshLook DEF StartBootstrap, ReadAtStart, JujuOnly
        <3> QED
            BY <3>2 DEF JobLast
    <2> QED
        BY <2>1, <2>2
<1> QED
    BY <1>1, <1>2 DEF JobAlone

\* A controller without its job is on its way out, to the end.
LEMMA JobLastNext ==
    ASSUME Inv, HostInv, DataGood, JobLast, Undisturbed, JujuOnly, [Next]_vars
    PROVE  JobLast'
<1> SUFFICES ASSUME "namespace" \in kube', "job" \notin kube'
             PROVE  \/ pc' = "deleteSetup" /\ pass'.step = 6
                    \/ pc' = "removeFinalizer"
                    \/ pc' = "idle" /\ stored' = {}
    BY DEF JobLast
<1>1. ~RunJob
    BY Zenon DEF RunJob
<1>2. "namespace" \in kube
    BY <1>1, KubeChanges
<1>3. pass \in Pass /\ Len(TeardownOrder) = 6
    BY Parts, Phases, Orders
<1>4. ~DeleteRefused /\ ~Restart
    BY DEF DeleteRefused, Restart, SpendIf, DataGood, JujuOnly
<1>5. ASSUME SkipMissing \/ DeleteObject
      PROVE  NextDeletion /\ pc = "deleteSetup" /\ pc' # "idle"
    BY <1>5 DEF SkipMissing, DeleteObject, NextDeletion, JujuOnly
<1>6. CASE "job" \in kube
    <2>1. DeleteObject /\ pass.step = 5
        BY <1>6, KubeChanges
    <2> QED
        BY <1>5, <2>1, Advancing
<1>7. CASE "job" \notin kube
    <2>1. CASE local' = local
        <3>1. stored = {} => stored' = {}
            BY ObjectGrows
        <3> QED
            BY <1>2, <1>7, <2>1, <3>1, Waiting DEF JobLast
    <2>2. CASE local' # local /\ pc = "deleteSetup" /\ pass.step = 6
        <3>1. SkipMissing \/ DeleteObject
            BY <1>4, <2>2, Leaving
        <3> QED
            BY <1>5, <2>2, <3>1, Advancing
    <2>3. CASE local' # local /\ pc = "removeFinalizer"
        <3>1. InTeardown(before)
            BY <2>3, Parts, Phases DEF TearSteps, Undisturbed, InTeardown
        <3>2. stored = before /\ "deleted" \in before
            BY <3>1 DEF Undisturbed, InTeardown
        <3>3. ~UpdateRefused
            BY <2>3, <3>2 DEF UpdateRefused, SpendIf, JujuOnly
        <3>4. RemoveFinalizer
            BY <1>4, <2>3, <3>3, Leaving
        <3> QED
            BY <3>2, <3>4 DEF RemoveFinalizer, Update, Collected, EndPass
    <2>4. CASE local' # local /\ pc = "idle" /\ stored = {}
        <3>1. ~Begin
            BY <2>4 DEF Begin, SpendIf, JujuOnly
        <3> QED
            BY <1>4, <2>4, <3>1, Leaving
    <2> QED
        BY <1>2, <1>7, <2>1, <2>2, <2>3, <2>4 DEF JobLast
<1> QED
    BY <1>6, <1>7

\* Nobody comes between a teardown and the object it works for.
LEMMA UndisturbedNext ==
    ASSUME Inv, EditInv, Undisturbed, JujuOnly, [Next]_vars PROVE Undisturbed'
<1>1. ASSUME InTeardown(before')
      PROVE  stored' = before'
    <2>1. before' # {} /\ {"owned", "deleted", "finalizer"} \subseteq before'
        BY <1>1 DEF InTeardown
    <2>2. CASE Begin
        BY <2>2 DEF Begin, SpendIf, JujuOnly
    <2>3. CASE before' = before
        <3>1. stored = before
            BY <1>1, <2>3 DEF Undisturbed
        <3>2. ~AddFinalizer /\ ~RemoveFinalizer /\ ~Patch /\ ~SetOwner /\ ~Delete
            BY <2>1, <2>3, <3>1
               DEF AddFinalizer, RemoveFinalizer, Patch, EndPass, SetOwner, Delete
        <3>3. ~SetEndpoint
            BY <2>1, <2>3, Parts, Phases DEF SetEndpoint, Call, BuildSteps, Building
        <3> QED
            BY <2>3, <3>1, <3>2, <3>3, ObjectWriters
    <2> QED
        BY <2>1, <2>2, <2>3, Copying DEF SetEndpoint, EndpointRefused, MarkReady
<1>2. ASSUME pc' \in TearSteps \cup {"branch"}
      PROVE  "owned" \in before'
    <2>1. before' = before
        BY <1>2, Copying DEF TearSteps, Begin, SetEndpoint, EndpointRefused, MarkReady
    <2>2. CASE Connect
        BY <2>1, <2>2 DEF Connect, Prerequisites
    <2> QED
        BY <1>2, <2>1, <2>2, TearFrom DEF Undisturbed
<1> QED
    BY <1>1, <1>2 DEF Undisturbed

\* All of it together.
LEMMA BootNext ==
    ASSUME Inv, Within, EditInv, HostInv, BootInv, [Next]_vars PROVE BootInv'
<1> SUFFICES ASSUME Spared(OtherThanJuju)'
             PROVE  DataGood' /\ JobAlone' /\ JobLast' /\ Undisturbed'
    BY DEF BootInv
<1>1. OtherThanJuju \in SUBSET FaultKinds
    BY DEF OtherThanJuju
<1>2. {"api", "conflict", "patch", "stale", "crash", "bootstrap", "badSecret"} \subseteq OtherThanJuju
    BY DEF OtherThanJuju, FaultKinds
<1>3. Spared(OtherThanJuju) /\ JujuOnly
    BY <1>1, <1>2, Unspent DEF JujuOnly
<1> QED
    BY <1>3, DataNext, JobAloneNext, JobLastNext, UndisturbedNext DEF BootInv

--------------------------------------------------------------------------------
(* The theorems.                                                           *)

SafetyInv ==
    /\ Inv /\ Within /\ EditInv /\ HostInv /\ FoundInv /\ HalvesInv
    /\ RegistrationInv /\ EmptyInv /\ ReleaseInv /\ BootInv
    /\ ~EndpointWritten => QueueInv

\* The initial states satisfy the invariant.
LEMMA SafetyInit == Init => SafetyInv
<1> SUFFICES ASSUME Init PROVE SafetyInv
    OBVIOUS
<1>1. Inv
    BY InvInit
<1>2. Within
    BY BudgetAssumption DEF Init, Within
<1>3. EditInv /\ HostInv /\ RegistrationInv
    BY DEF Init, EditInv, HostInv, RegistrationInv
<1>4. FoundInv
    BY DEF Init, FoundInv, Standing, Building, Deferred
<1>8. HalvesInv
    <2>1. Missing = {} /\ MissingConstraints = 0 /\ pc = "idle"
        BY AppsAssumption DEF Init, Missing, Unexposed, MissingConstraints, Unset
    <2>2. Halves = 0
        BY <2>1, FS_EmptySet DEF Halves
    <2>3. Interruptions = 0
        BY BudgetAssumption DEF Init, Interruptions, FaultKinds
    <2> QED
        BY <2>1, <2>2, <2>3 DEF HalvesInv
<1>5. EmptyInv /\ ReleaseInv
    BY NoPassTyped DEF Init, EmptyInv, ReleaseInv, TearSteps
<1>6. BootInv
    BY DEF Init, BootInv, DataGood, JobAlone, JobLast, Undisturbed, InTeardown, TearSteps,
           NoPass
<1>7. ~EndpointWritten => QueueInv
    BY DEF Init, QueueInv
<1> QED
    BY <1>1, <1>2, <1>3, <1>4, <1>5, <1>6, <1>7, <1>8 DEF SafetyInv

\* Every step keeps it.
LEMMA SafetyNext == SafetyInv /\ [Next]_vars => SafetyInv'
<1> SUFFICES ASSUME SafetyInv, [Next]_vars PROVE SafetyInv'
    OBVIOUS
<1>1. /\ Inv /\ Within /\ EditInv /\ HostInv /\ FoundInv /\ HalvesInv
      /\ RegistrationInv /\ EmptyInv /\ ReleaseInv /\ BootInv
      /\ ~EndpointWritten => QueueInv
    BY DEF SafetyInv
<1>2. Inv' /\ Within'
    BY <1>1, InvNext, Unspent
<1>3. EditInv' /\ HostInv' /\ FoundInv'
    BY <1>1, EditNext, HostNext, FoundNext
<1>4. HalvesInv' /\ RegistrationInv' /\ EmptyInv' /\ ReleaseInv' /\ BootInv'
    BY <1>1, HalvesNext, RegistrationNext, EmptyNext, ReleaseNext, BootNext
<1>5. ~EndpointWritten => QueueInv'
    BY <1>1, QueueNext
<1> QED
    BY <1>2, <1>3, <1>4, <1>5 DEF SafetyInv

\* The inductive invariant holds of every behaviour.
THEOREM SafetyInvariance == Spec => []SafetyInv
<1> QED
    BY SafetyInit, SafetyNext, PTL DEF Spec

\* A registration string that is kept is good, however the passes that reset the
\* password and store the string fail and restart.
THEOREM RegistrationGood == Spec => []RegistrationValid
<1>1. SafetyInv => RegistrationValid
    BY DEF SafetyInv, RegistrationInv, RegistrationValid
<1> QED
    BY <1>1, SafetyInvariance, PTL

\* A JujuCluster that is ready lacks not more of what its specification asks for than
\* there were failed requests, lost answers and restarts: however the requests of many
\* passes go, every one of these cuts off one creation at most, and nothing else does.
THEOREM SpecifiedWhenReady == Spec => []AsSpecified
<1>1. SafetyInv => AsSpecified
    <2> SUFFICES ASSUME SafetyInv, "ready" \in stored, "deleted" \notin stored
                 PROVE  Cardinality(ExposedApps \ exposed) + Unconstrained <= Interruptions
        BY DEF AsSpecified
    <2>1. model = "alive" /\ \A a \in Apps : apps[a] # "absent"
        BY DEF SafetyInv, FoundInv, Whole
    <2>2. pc \notin {"expose", "constrain"} /\ Halves <= Interruptions
        BY DEF SafetyInv, HalvesInv
    <2>3. Missing = ExposedApps \ exposed
        BY <2>1, <2>2, AppsAssumption DEF Missing, Unexposed
    <2>4. MissingConstraints = Unconstrained
        BY <2>1, <2>2 DEF MissingConstraints, Unset, Unconstrained
    <2> QED
        BY <2>2, <2>3, <2>4 DEF Halves
<1> QED
    BY <1>1, SafetyInvariance, PTL

\* No pass panics while only Juju fails.
THEOREM NeverPanics == Spec => []NoPanic
<1>1. SafetyInv => NoPanic
    BY DEF SafetyInv, BootInv, DataGood, NoPanic
<1> QED
    BY <1>1, SafetyInvariance, PTL

\* An undisturbed JujuCluster that is not done with is queued, or is being worked
\* on, or its informer has an event for it.
THEOREM NobodyForgotten == Spec => []NeverForgotten
<1>1. SafetyInv => NeverForgotten
    BY DEF SafetyInv, QueueInv, Interrupts, NeverForgotten
<1> QED
    BY <1>1, SafetyInvariance, PTL

\* What the action properties ask of a step.
CompleteIfReady == "ready" \in stored' \ stored =>
    /\ model = "alive" /\ Integrations \subseteq related
    /\ \A a \in Apps : apps[a] # "absent"
    /\ "endpoint" \in stored
AllReleased == /\ {"present", "finalizer"} \subseteq stored /\ "present" \notin stored'
               /\ Spared({"stale"})
    => /\ kube \cap SetupObjects = {}
       /\ "namespace" \in kube => "terminating" \in kube
EmptyWhenDying == model = "alive" /\ model' = "dying" /\ Spared({"call"})
    => \A a \in Apps : apps[a] = "absent"
JobWithoutController == Spared(OtherThanJuju) =>
    ("job" \in kube' \ kube => "namespace" \notin kube)

\* Only a patch makes the object ready.
LEMMA ReadyComplete == SafetyInv /\ [Next]_vars => [CompleteIfReady]_vars
<1> SUFFICES ASSUME SafetyInv, [Next]_vars, "ready" \in stored' \ stored
             PROVE  /\ model = "alive" /\ Integrations \subseteq related
                    /\ \A a \in Apps : apps[a] # "absent"
                    /\ "endpoint" \in stored
    BY DEF CompleteIfReady
<1>1. Inv /\ EditInv
    BY DEF SafetyInv
<1>2. CASE Patch
    <2>1. mem = before \cup {"ready"} /\ "endpoint" \in before /\ Whole /\ stored # {}
        BY <1>1, <1>2 DEF Patch, EditInv
    <2> QED
        BY <1>1, <2>1 DEF EditInv, Whole
<1>3. CASE AddFinalizer
    BY <1>3 DEF AddFinalizer, Update, Collected
<1>4. CASE RemoveFinalizer
    BY <1>4 DEF RemoveFinalizer, Update, Collected
<1>5. CASE SetEndpoint
    BY <1>5 DEF SetEndpoint, Update, Collected
<1>6. CASE SetOwner \/ Delete
    BY <1>6 DEF SetOwner, Delete, Collected
<1> QED
    BY <1>2, <1>3, <1>4, <1>5, <1>6, ObjectWriters

\* Only the end of a teardown removes an object that has its finalizer.
LEMMA ReleasedAtEnd == SafetyInv /\ [Next]_vars => [AllReleased]_vars
<1> SUFFICES ASSUME SafetyInv, [Next]_vars, {"present", "finalizer"} \subseteq stored,
                    "present" \notin stored', Spared({"stale"})
             PROVE  /\ kube \cap SetupObjects = {}
                    /\ "namespace" \in kube => "terminating" \in kube
    BY DEF AllReleased
<1>1. Inv /\ ReleaseInv
    BY DEF SafetyInv
<1>2. CASE RemoveFinalizer
    BY <1>1, <1>2 DEF RemoveFinalizer, ReleaseInv
<1>3. CASE AddFinalizer
    BY <1>3 DEF AddFinalizer, Update, Collected
<1>4. CASE SetEndpoint
    BY <1>4 DEF SetEndpoint, Update, Collected
<1>5. CASE Patch \/ SetOwner \/ Delete
    BY <1>5 DEF Patch, SetOwner, Delete, Collected
<1> QED
    BY <1>2, <1>3, <1>4, <1>5, ObjectWriters

\* Only the two steps that destroy a model make it go.
LEMMA EmptiedThenDying == SafetyInv /\ [Next]_vars => [EmptyWhenDying]_vars
<1> SUFFICES ASSUME SafetyInv, [Next]_vars, model = "alive", model' = "dying",
                    Spared({"call"}), NEW a \in Apps
             PROVE  apps[a] = "absent"
    BY DEF EmptyWhenDying
<1>1. Inv /\ EmptyInv
    BY DEF SafetyInv
<1>2. CASE DestroyModel
    BY <1>1, <1>2 DEF DestroyModel, Call, EmptyInv
<1>3. CASE DestroyController
    BY <1>1, <1>3 DEF DestroyController, Call, Answers, EmptyInv
<1> QED
    BY <1>1, <1>2, <1>3, JujuChanges

\* Only a bootstrap creates a job.
LEMMA JobsAlone == SafetyInv /\ [Next]_vars => [JobWithoutController]_vars
<1> SUFFICES ASSUME SafetyInv, [Next]_vars, Spared(OtherThanJuju), "job" \in kube' \ kube
             PROVE  "namespace" \notin kube
    BY DEF JobWithoutController
<1>1. pc = "createSetup"
    BY KubeChanges DEF SafetyInv, CreateObject
<1> QED
    BY <1>1 DEF SafetyInv, BootInv, JobAlone

\* However the object, Juju and the pass change between the looks a pass takes, it
\* marks ready only what is complete at the moment of the patch.
THEOREM CompleteWhenReady == Spec => ReadyWhenComplete
<1>1. Spec => [][CompleteIfReady]_vars
    BY ReadyComplete, SafetyInvariance, PTL DEF Spec
<1> QED
    BY <1>1 DEF CompleteIfReady, ReadyWhenComplete

\* The finalizer goes after everything the controller has created in Kubernetes,
\* unless an outdated cache hides some of it.
THEOREM EverythingReleased == Spec => ReleasesAll
<1>1. Spec => [][AllReleased]_vars
    BY ReleasedAtEnd, SafetyInvariance, PTL DEF Spec
<1> QED
    BY <1>1 DEF AllReleased, ReleasesAll

\* A model that is alive is destroyed only without applications, unless a request
\* to Juju has failed.
THEOREM EmptiedBeforeDestroyed == Spec => EmptiedFirst
<1>1. Spec => [][EmptyWhenDying]_vars
    BY EmptiedThenDying, SafetyInvariance, PTL DEF Spec
<1> QED
    BY <1>1 DEF EmptyWhenDying, EmptiedFirst

\* No second controller is bootstrapped beside a first one while only Juju fails.
THEOREM OneControllerAtATime == Spec => OneController
<1>1. Spec => [][JobWithoutController]_vars
    BY JobsAlone, SafetyInvariance, PTL DEF Spec
<1> QED
    BY <1>1 DEF JobWithoutController, OneController

--------------------------------------------------------------------------------
(* The refinement of ControllerLifecycle.                                  *)

NothingLives == model # "alive" /\ LiveApps = {}

\* Nothing is at work for an object without the finalizer, nor after the controller
\* was asked to go; and integrations are between applications.
LifeInv ==
    /\ "finalizer" \notin stored \/ pc \in {"deleteSetup", "removeFinalizer"} => NothingLives
    /\ \A i \in related : \A a \in i : apps[a] # "absent"

\* The ways in which what is at work changes.
Builds ==
    \/ /\ model # "alive" /\ model' = "alive" /\ UNCHANGED <<stored, cache, LiveApps, LiveRelations>>
    \/ /\ model = "alive" /\ UNCHANGED <<model, LiveRelations, stored, cache, before>>
       /\ \E a \in Apps \ LiveApps : LiveApps' = LiveApps \cup {a}
    \/ /\ model = "alive" /\ UNCHANGED <<model, LiveApps, stored, cache, before>>
       /\ \E i \in Integrations \ LiveRelations :
             i \subseteq LiveApps /\ LiveRelations' = LiveRelations \cup {i}
Destroys ==
    \/ /\ UNCHANGED <<model, stored>>
       /\ \E a \in LiveApps : /\ LiveApps' = LiveApps \ {a}
                              /\ LiveRelations' = {i \in LiveRelations : a \notin i}
    \/ NothingLives' /\ UNCHANGED stored
Lasts == (model' = "alive" <=> model = "alive") /\ UNCHANGED <<LiveApps, LiveRelations>>

LEMMA AppChanges ==
    ASSUME Inv, LifeInv, NEW a \in Apps,
           \/ AppSettles(a) \/ UnitFails(a) \/ UnitResolved(a) \/ AppRemoved(a)
           \/ CreateApp(a) \/ DestroyApp(a)
    PROVE  /\ \A i \in related' : \A b \in i : apps'[b] # "absent"
           /\ \/ Lasts
              \/ pc \in BuildSteps /\ Builds
              \/ pc \in TearSteps /\ Destroys
<1>1. apps \in [Apps -> AppStates] /\ related \subseteq Integrations /\ \A i \in related : i \subseteq Apps
    BY AppsAssumption, Parts DEF JujuTyped
<1>2. CASE AppSettles(a) \/ UnitFails(a) \/ UnitResolved(a)
    <2>1. /\ UNCHANGED <<model, related>>
          /\ \E state \in {"active", "error", "dying"} :
                /\ apps' = [apps EXCEPT ![a] = state]
                /\ state = "dying" => apps[a] = "stuck"
                /\ state # "dying" => apps[a] \in {"deployed", "active", "error"}
        BY <1>2 DEF AppSettles, UnitFails, UnitResolved, SetApp
    <2>2. UNCHANGED LiveApps /\ \A b \in Apps : apps[b] # "absent" => apps'[b] # "absent"
        BY <1>1, <2>1 DEF LiveApps
    <2> QED
        BY <1>1, <2>1, <2>2 DEF Lasts, LiveRelations, LifeInv
<1>3. CASE AppRemoved(a)
    <2>1. /\ UNCHANGED model /\ apps[a] = "dying"
          /\ apps' = [apps EXCEPT ![a] = "absent"]
          /\ related' = {i \in related : a \notin i}
        BY <1>3 DEF AppRemoved
    <2>2. UNCHANGED LiveApps /\ a \notin LiveApps
        BY <1>1, <2>1 DEF LiveApps
    <2>3. UNCHANGED LiveRelations
        BY <2>1, <2>2 DEF LiveRelations
    <2>4. \A i \in related' : \A b \in i : apps'[b] # "absent"
        BY <1>1, <2>1 DEF LifeInv
    <2> QED
        BY <2>1, <2>2, <2>3, <2>4 DEF Lasts
<1>4. CASE CreateApp(a)
    <2>1. /\ UNCHANGED <<model, related, stored, cache, before>> /\ pc = "apps" /\ model = "alive"
          /\ apps[a] = "absent" /\ apps' = [apps EXCEPT ![a] = "deployed"]
        BY <1>4 DEF CreateApp, Call, Answers, InModel, ReplyLost, TryAgain, Goto, Deferred
    <2>2. LiveApps' = LiveApps \cup {a} /\ a \notin LiveApps
        BY <1>1, <2>1 DEF LiveApps
    <2>3. \A i \in related : a \notin i
        BY <2>1 DEF LifeInv
    <2>4. UNCHANGED LiveRelations
        BY <2>1, <2>2, <2>3 DEF LiveRelations
    <2>5. \A i \in related' : \A b \in i : apps'[b] # "absent"
        BY <1>1, <2>1 DEF LifeInv
    <2> QED
        BY <2>1, <2>2, <2>4, <2>5 DEF Builds, BuildSteps
<1>5. CASE DestroyApp(a)
    <2>1. /\ UNCHANGED <<model, related, stored>> /\ pc = "destroyApps"
          /\ \/ UNCHANGED apps
             \/ apps' = [apps EXCEPT ![a] = Doomed(apps[a], InError(a))]
        BY <1>5 DEF DestroyApp, Call
    <2>2. CASE UNCHANGED apps
        BY <2>1, <2>2 DEF Lasts, LiveApps, LiveRelations, LifeInv
    <2>3. CASE apps' = [apps EXCEPT ![a] = Doomed(apps[a], InError(a))]
        <3>1. \A b \in Apps : apps[b] # "absent" => apps'[b] # "absent"
            <4>1. InError(a) \in BOOLEAN
                BY DEF InError
            <4>2. Doomed(apps[a], InError(a)) # "absent" <=> apps[a] # "absent"
                BY <1>1, <4>1, DoomedTyped
            <4> QED
                BY <1>1, <2>3, <4>2
        <3>2. LiveApps' = LiveApps \ {a}
            BY <1>1, <2>3 DEF LiveApps, Doomed, AppStates
        <3>3. LiveRelations' = {i \in LiveRelations : a \notin i}
            BY <2>1, <3>2 DEF LiveRelations
        <3>4. \A i \in related' : \A b \in i : apps'[b] # "absent"
            BY <1>1, <2>1, <3>1 DEF LifeInv
        <3>5. CASE a \in LiveApps
            BY <2>1, <3>2, <3>3, <3>4, <3>5 DEF Destroys, TearSteps
        <3>6. CASE a \notin LiveApps
            <4>1. UNCHANGED LiveApps
                BY <3>2, <3>6
            <4> QED
                BY <2>1, <3>4, <4>1 DEF Lasts, LiveRelations
        <3> QED
            BY <3>5, <3>6
    <2> QED
        BY <2>1, <2>2, <2>3
<1> QED
    BY <1>2, <1>3, <1>4, <1>5

\* What is at work grows by the steps that build and shrinks by those of a teardown,
\* or with the controller.
LEMMA WorkChanges ==
    ASSUME Inv, EmptyInv, LifeInv, [Next]_vars
    PROVE  /\ \A i \in related' : \A b \in i : apps'[b] # "absent"
           /\ \/ Lasts
              \/ pc \in BuildSteps /\ Builds
              \/ (pc \in TearSteps \/ NamespaceTerminates) /\ Destroys
<1> DEFINE Apart == \A i \in related' : \A b \in i : apps'[b] # "absent"
           Changes == \/ Lasts
                      \/ pc \in BuildSteps /\ Builds
                      \/ (pc \in TearSteps \/ NamespaceTerminates) /\ Destroys
<1>1. /\ apps \in [Apps -> AppStates] /\ related \subseteq Integrations
      /\ \A i \in Integrations : i \subseteq Apps /\ i # {}
    BY AppsAssumption, Parts DEF JujuTyped
<1>2. ASSUME UNCHANGED <<model, apps, related>> PROVE Apart /\ Changes
    BY <1>2 DEF Lasts, LiveApps, LiveRelations, LifeInv
<1>3. ASSUME CreateModel PROVE Apart /\ Changes
    <2>1. /\ UNCHANGED <<apps, related, stored, cache>> /\ model # "alive" /\ model' = "alive"
          /\ pc \in BuildSteps
        BY <1>3 DEF CreateModel, Call, BuildSteps
    <2> QED
        BY <2>1 DEF Builds, LiveApps, LiveRelations, LifeInv
<1>4. ASSUME DestroyModel PROVE Apart /\ Changes
    <2>1. /\ UNCHANGED <<apps, related, stored>> /\ model' # "alive" /\ pc \in TearSteps
          /\ \A a \in Apps : apps[a] = "absent"
        BY <1>4 DEF DestroyModel, Call, EmptyInv, TearSteps
    <2>2. NothingLives'
        BY <2>1 DEF NothingLives, LiveApps
    <2> QED
        BY <2>1, <2>2 DEF Destroys, LifeInv
<1>5. ASSUME DestroyController PROVE Apart /\ Changes
    <2>1. /\ UNCHANGED <<related, stored>> /\ model' # "alive" /\ pc \in TearSteps
          /\ apps' = [a \in Apps |-> Doomed(apps[a], FALSE)]
        BY <1>5 DEF DestroyController, Call, TearSteps
    <2>2. NothingLives'
        BY <1>1, <2>1 DEF NothingLives, LiveApps, Doomed
    <2>3. Apart
        BY <1>1, <2>1, DoomedTyped DEF LifeInv
    <2> QED
        BY <2>1, <2>2, <2>3 DEF Destroys
<1>6. ASSUME NamespaceTerminates PROVE Apart /\ Changes
    BY <1>6 DEF NamespaceTerminates, Destroys, NothingLives, LiveApps, object
<1>7. ASSUME ModelRemoved PROVE Apart /\ Changes
    BY <1>7 DEF ModelRemoved, Lasts, LiveApps, LiveRelations, LifeInv
<1>8. ASSUME NEW i \in Integrations, CreateIntegration(i) PROVE Apart /\ Changes
    <2>1. /\ UNCHANGED <<model, apps, stored, cache, before>> /\ pc = "integrations"
          /\ model = "alive" /\ i \notin related /\ related' = related \cup {i}
          /\ \A a \in i : apps[a] \in {"deployed", "active", "error"}
        BY <1>8 DEF CreateIntegration, Call, Answers, InModel, ReplyLost, TryAgain, Goto,
                    Deferred
    <2>2. UNCHANGED LiveApps /\ i \subseteq LiveApps
        BY <1>1, <2>1 DEF LiveApps
    <2>3. LiveRelations' = LiveRelations \cup {i} /\ i \notin LiveRelations
        BY <2>1, <2>2 DEF LiveRelations
    <2> QED
        BY <2>1, <2>2, <2>3 DEF Builds, BuildSteps, LifeInv
<1>9. ASSUME NEW a \in Apps, \/ AppSettles(a) \/ UnitFails(a) \/ UnitResolved(a) \/ AppRemoved(a)
                             \/ CreateApp(a) \/ DestroyApp(a)
      PROVE  Apart /\ Changes
    BY <1>9, AppChanges
<1>10. UNCHANGED juju \/ AddCloud \/ AddCredential \/ SetConstraints \/ Expose
          => UNCHANGED <<model, apps, related>>
    BY DEF AddCloud, AddCredential, SetConstraints, Expose, juju
<1> HIDE DEF Apart, Changes
<1>11. Juju => Apart /\ Changes
    BY <1>7, <1>9 DEF Juju
<1>12. Apart /\ Changes
    BY <1>2, <1>3, <1>4, <1>5, <1>6, <1>8, <1>9, <1>10, <1>11, JujuWriters
<1> QED
    BY <1>12 DEF Apart, Changes

\* Where nothing is at work, only the steps that build change that.
LEMMA NothingComes ==
    ASSUME Inv, EmptyInv, LifeInv, [Next]_vars, NothingLives, pc \notin BuildSteps
    PROVE  NothingLives'
<1>1. CASE Lasts
    BY <1>1 DEF Lasts, NothingLives
<1>2. CASE Destroys
    BY <1>2 DEF Destroys, NothingLives
<1> QED
    BY <1>1, <1>2, WorkChanges

\* The finalizer comes with the update that adds it, and goes with the one that
\* removes it, and so does the object.
LEMMA FinalizerMoves ==
    ASSUME Inv, EditInv, [Next]_vars
    PROVE  /\ "finalizer" \in stored /\ "finalizer" \notin stored' =>
                 pc = "removeFinalizer" /\ stored' = {}
           /\ "finalizer" \notin stored /\ "finalizer" \in stored' => ~Ended(stored')
<1>1. PassInv /\ ObjectsKept
    BY Parts
<1>2. CASE UNCHANGED stored
    BY <1>2
<1>3. CASE AddFinalizer
    BY <1>3 DEF AddFinalizer, Update, Collected, Ended
<1>4. CASE RemoveFinalizer
    BY <1>1, <1>4, Phases DEF RemoveFinalizer, Update, Collected, TearSteps
<1>5. CASE SetEndpoint
    BY <1>1, <1>5, Phases DEF SetEndpoint, Call, Update, Collected, BuildSteps, Building
<1>6. CASE Patch
    BY <1>6 DEF Patch, EditInv
<1>7. CASE SetOwner \/ Delete
    BY <1>7 DEF SetOwner, Delete, Collected
<1> QED
    BY <1>2, <1>3, <1>4, <1>5, <1>6, <1>7, ObjectWriters

LEMMA LifeInit == Init => LifeInv
BY DEF Init, LifeInv, NothingLives, LiveApps

LEMMA LifeNext ==
    ASSUME Inv, EditInv, EmptyInv, LifeInv, [Next]_vars
    PROVE  LifeInv'
<1>1. ASSUME "finalizer" \notin stored' PROVE NothingLives'
    <2>1. NothingLives
        BY <1>1, FinalizerMoves DEF LifeInv
    <2>2. pc \notin BuildSteps
        <3>1. CASE "finalizer" \in stored
            BY <1>1, <3>1, FinalizerMoves DEF BuildSteps
        <3>2. CASE "finalizer" \notin stored
            BY <3>2, Parts, Phases DEF ObjectsKept, Copies, Sound
        <3> QED
            BY <3>1, <3>2
    <2> QED
        BY <2>1, <2>2, NothingComes
<1>2. ASSUME pc' \in {"deleteSetup", "removeFinalizer"} PROVE NothingLives'
    <2>1. CASE DestroyController
        BY <2>1, DoomedTyped DEF DestroyController, NothingLives, LiveApps, Doomed
    <2>2. CASE pc \in {"deleteSetup", "removeFinalizer"}
        BY <2>2, NothingComes DEF LifeInv, BuildSteps
    <2>3. CASE local' # local /\ ~DestroyController
        BY <1>2, <2>2, <2>3, Arriving DEF SkipMissing, DeleteObject
    <2>4. CASE local' = local
        BY <1>2, <2>2, <2>4, Waiting
    <2> QED
        BY <2>1, <2>3, <2>4
<1> QED
    BY <1>1, <1>2, WorkChanges DEF LifeInv

\* The life of a cluster, and where the worker is in it.
LEMMA PhaseIs ==
    ASSUME Inv, EditInv
    PROVE  /\ Phase = "released" <=> stored = {}
           /\ Phase = "waiting" <=> stored # {} /\ "finalizer" \notin stored
           /\ Phase = "building" <=>
                 "finalizer" \in stored /\ (~Ended(cache) \/ Building(before))
           /\ Phase = "closing" <=>
                 "finalizer" \in stored /\ Ended(cache) /\ ~Building(before)
           /\ pc \in BuildSteps => Phase = "building"
<1>1. pc \in BuildSteps => Building(before) /\ "finalizer" \in stored
    BY Parts, Phases DEF ObjectsKept, Copies, Sound
<1> QED
    BY <1>1 DEF Phase

LEMMA PhaseChanges ==
    ASSUME Inv, EditInv, Inv', EditInv', [Next]_vars
    PROVE  /\ Phase = "waiting"  => Phase' \in {"waiting", "building", "released"}
           /\ Phase = "building" => \/ Phase' \in {"building", "closing"}
                                    \/ pc = "removeFinalizer"
           /\ Phase = "closing"  => Phase' \in {"closing", "released"}
           /\ Phase = "released" => Phase' = "released"
           /\ Phase = "building" /\ UNCHANGED <<cache, before>> => Phase' # "closing"
<1>1. /\ Phase' = "released" <=> stored' = {}
      /\ Phase' = "waiting" <=> stored' # {} /\ "finalizer" \notin stored'
      /\ Phase' = "building" <=>
            "finalizer" \in stored' /\ (~Ended(cache') \/ Building(before'))
      /\ Phase' = "closing" <=>
            "finalizer" \in stored' /\ Ended(cache') /\ ~Building(before')
    <2>1. pc' \in BuildSteps => Building(before') /\ "finalizer" \in stored'
        BY Parts, PartsNext, Phases DEF ObjectsKept, Copies, Sound, PassInv, Position
    <2> QED
        BY DEF Phase
<1>2. ~Ended(stored') => ~Ended(cache')
    BY PartsNext DEF ObjectsKept, Copies, Sound, Ended, EditInv
<1>3. Ended(cache) => Ended(stored)
    BY AliveInCopies
<1>4. Ended(cache) => Ended(cache')
    BY <1>3, ObjectGrows DEF Ended
<1>5. Building(before') => Building(before) \/ ~Ended(cache)
    BY ObjectGrows DEF Building, Ended
<1> QED
    BY <1>1, <1>2, <1>4, <1>5, PhaseIs, FinalizerMoves, ObjectGrows

LEMMA EmptyWork ==
    ASSUME Inv, Inv'
    PROVE  /\ NothingLives  => ~(model = "alive")  /\ LiveApps = {}  /\ LiveRelations = {}
           /\ NothingLives' => ~(model' = "alive") /\ LiveApps' = {} /\ LiveRelations' = {}
<1>1. \A i \in related \cup related' : i # {}
    BY AppsAssumption DEF Inv, TypeOK, JujuTyped
<1> QED
    BY <1>1 DEF NothingLives, LiveRelations

LEMMA LifecycleStep ==
    ASSUME Inv, Inv', EditInv, EditInv', FoundInv, EmptyInv, LifeInv, [Next]_vars
    PROVE  Lifecycle!Next \/ UNCHANGED Lifecycle!vars
<1> DEFINE Idle == /\ (model' = "alive") = (model = "alive")
                   /\ UNCHANGED <<LiveApps, LiveRelations>>
<1>1. Lasts => Idle
    BY DEF Lasts
<1>2. NothingLives /\ NothingLives' => Idle
    BY EmptyWork
<1>3. Idle /\ Phase' = Phase => UNCHANGED Lifecycle!vars
    BY DEF Lifecycle!vars
<1>4. Idle /\ NothingLives /\ Phase \in {"waiting", "closing"} /\ Phase' = "released"
         => Lifecycle!Next
    BY EmptyWork DEF Lifecycle!Next, Lifecycle!Release
<1>5. CASE Phase \in {"waiting", "released"}
    <2>1. NothingLives /\ NothingLives'
        BY <1>5, PhaseIs, NothingComes DEF LifeInv
    <2>2. Idle /\ Phase = "waiting" /\ Phase' = "building" => Lifecycle!Next
        BY DEF Lifecycle!Next, Lifecycle!Guard
    <2> QED
        BY <1>2, <1>3, <1>4, <1>5, <2>1, <2>2, PhaseChanges
<1>6. CASE Phase = "building"
    <2>1. pc \notin TearSteps /\ ~NamespaceTerminates
        BY <1>6, PhaseIs, Stands DEF Standing, NamespaceTerminates
    <2>2. Phase' \in {"building", "closing"}
        BY <1>6, <2>1, PhaseChanges DEF TearSteps
    <2>3. Idle /\ Phase' = "closing" => Lifecycle!Next
        BY <1>6 DEF Lifecycle!Next, Lifecycle!Close
    <2>4. ASSUME Builds PROVE Lifecycle!Next
        <3>1. CASE model # "alive" /\ model' = "alive" /\ UNCHANGED <<LiveApps, LiveRelations>>
            <4>1. Lifecycle!CreateModel
                BY <1>6, <2>2, <3>1 DEF Lifecycle!CreateModel
            <4> QED
                BY <4>1 DEF Lifecycle!Next
        <3>2. CASE /\ model = "alive" /\ UNCHANGED <<model, LiveRelations, stored, cache, before>>
                   /\ \E a \in Apps \ LiveApps : LiveApps' = LiveApps \cup {a}
            <4>1. PICK a \in Apps \ LiveApps : LiveApps' = LiveApps \cup {a}
                BY <3>2
            <4>2. UNCHANGED Phase
                BY <3>2 DEF Phase
            <4>3. Lifecycle!Deploy(a)
                BY <1>6, <3>2, <4>1, <4>2 DEF Lifecycle!Deploy
            <4> QED
                BY <4>3 DEF Lifecycle!Next
        <3>3. CASE /\ model = "alive" /\ UNCHANGED <<model, LiveApps, stored, cache, before>>
                   /\ \E i \in Integrations \ LiveRelations :
                         i \subseteq LiveApps /\ LiveRelations' = LiveRelations \cup {i}
            <4>1. PICK i \in Integrations \ LiveRelations :
                         i \subseteq LiveApps /\ LiveRelations' = LiveRelations \cup {i}
                BY <3>3
            <4>2. UNCHANGED Phase
                BY <3>3 DEF Phase
            <4>3. Lifecycle!Relate(i)
                BY <1>6, <3>3, <4>1, <4>2 DEF Lifecycle!Relate
            <4> QED
                BY <4>3 DEF Lifecycle!Next
        <3> QED
            BY <2>4, <3>1, <3>2, <3>3 DEF Builds
    <2> HIDE DEF Idle
    <2> QED
        BY <1>1, <1>3, <1>6, <2>1, <2>2, <2>3, <2>4, WorkChanges
<1>7. CASE Phase = "closing"
    <2>1. Phase' \in {"closing", "released"} /\ pc \notin BuildSteps
        BY <1>7, PhaseIs, PhaseChanges
    <2>2. Phase' = "released" => NothingLives /\ stored' # stored
        <3>1. "finalizer" \in stored /\ (Phase' = "released" => stored' = {})
            BY <1>7, PhaseIs DEF Phase
        <3> QED
            BY <3>1, FinalizerMoves DEF LifeInv
    <2>3. ASSUME Destroys PROVE Lifecycle!Next
        <3>1. UNCHANGED stored /\ Phase' = "closing"
            BY <2>1, <2>2, <2>3 DEF Destroys
        <3>2. CASE NothingLives'
            <4>1. Lifecycle!DestroyAll
                BY <1>7, <3>1, <3>2, EmptyWork DEF Lifecycle!DestroyAll
            <4> QED
                BY <4>1 DEF Lifecycle!Next
        <3>3. CASE /\ UNCHANGED model
                   /\ \E a \in LiveApps : /\ LiveApps' = LiveApps \ {a}
                                          /\ LiveRelations' = {i \in LiveRelations : a \notin i}
            <4>1. PICK a \in LiveApps : /\ LiveApps' = LiveApps \ {a}
                                        /\ LiveRelations' = {i \in LiveRelations : a \notin i}
                BY <3>3
            <4>2. Lifecycle!Destroy(a) /\ a \in Apps
                BY <1>7, <3>1, <3>3, <4>1 DEF Lifecycle!Destroy, LiveApps
            <4> QED
                BY <4>2 DEF Lifecycle!Next
        <3> QED
            BY <2>3, <3>2, <3>3 DEF Destroys
    <2> HIDE DEF Idle
    <2> QED
        BY <1>1, <1>3, <1>4, <1>7, <2>1, <2>2, <2>3, WorkChanges
<1> QED
    BY <1>5, <1>6, <1>7, PhaseIs DEF Phase

\* Whatever fails, is outdated or restarts, the controller builds, then takes down what
\* it has built, and then lets go, although what it does at any step depends on a copy
\* of the object and on what it has found in Juju some steps before.
THEOREM LifecycleImplemented == Spec => ImplementsLifecycle
<1>1. Init => Lifecycle!Init
    <2> SUFFICES ASSUME Init PROVE Lifecycle!Init
        OBVIOUS
    <2>1. Phase = "waiting"
        BY DEF Init, Phase
    <2>2. LiveApps = {} /\ LiveRelations = {} /\ ~(model = "alive")
        BY DEF Init, LiveApps, LiveRelations
    <2> QED
        BY <2>1, <2>2 DEF Lifecycle!Init
<1>2. SafetyInv /\ SafetyInv' /\ LifeInv /\ [Next]_vars
          => LifeInv' /\ [Lifecycle!Next]_(Lifecycle!vars)
    BY LifeNext, LifecycleStep DEF SafetyInv
<1> QED
    BY <1>1, <1>2, LifeInit, SafetyInvariance, PTL DEF Spec, ImplementsLifecycle, Lifecycle!Spec
================================================================================
