# A verification project for cluster-api-provider-juju

The repository is a Cluster API infrastructure provider: a manager process with
two controllers that turn Kubernetes objects into a Juju controller, a model,
applications and machines, and take them down again.  These modules model the
two controllers with everything that may come between two of their requests,
several clusters side by side, the manifests they are given, and both
controllers in one process.  TLC checks them on small instances, and TLAPS
proves their safety properties for every instance.

    tlc -config jm_safety.cfg MCJujuMachine       # a run: <run>.cfg and its module
    tlapm JujuMachineProofs.tla                   # the proofs of a module, without those
                                                  # of the modules that it extends

PROJECT.json lists the runs, the mutations that every property has been tried
against, the source lines of every definition, the hazards and the findings.

## 1. Inventory

| part | state it keeps | operations | status |
|---|---|---|---|
| JujuMachine controller, `controllers/jujumachine_controller.go` | finalizer, `spec.machineID`, `spec.providerID`, `status.ready` of a JujuMachine; nothing in memory between two passes | one `Reconcile` pass: finalizer, request a machine, place units, match the node, set the provider ID, mark ready, delete | modelled: `JujuMachine` |
| JujuCluster controller, `controllers/jujucluster_controller.go` | finalizer, endpoint, `status.ready` of a JujuCluster; the bootstrap objects and the registration secret; no memory either | one `Reconcile` pass: bootstrap, registration string, cloud, credential, model, applications, integrations, endpoint, ready, teardown | modelled: `JujuCluster` (one cluster), `JujuControllers` (several), `Deployment` (any manifest) |
| Juju API wrappers, `juju/*.go` | none: a connection per request | one or two requests each; conversion of options, comparison of endpoints | part of the step that calls them; the conversions in `Deployment` |
| manager, `main.go` | the process | starts both controllers; a panic in either ends it | `Provider`; `Restart` in the others |
| bootstrap job | a pod running a shell script | adds a k8s cloud, bootstraps, stores controller data in a secret | `RunJob` of `JujuCluster` and of `JujuControllers` |
| API types, CRDs, RBAC, templates, `actions.go`, test harness | data, or never called | | not modelled |

How they interact.  Both controllers read Kubernetes objects from informer
caches that lag behind the API server, and write to the API server directly.
Work arrives in a queue: from watch events (for a JujuCluster only those that
change the generation, and those of the registration secret), from requeues
that a pass asks for, from the start of the process and from the resync.  The
controllers talk to Juju in one request at a time, and Juju acts on its own:
units settle or fail, units asked to go take their time, a machine goes with its
last unit.  The two controllers never call each other.  They meet in Kubernetes,
where a JujuMachine waits for what the JujuCluster is and has made and Cluster API
deletes one after the other; in Juju, where machines and units live in the model and
belong to the applications that the JujuCluster controller makes and destroys; and in
the process, which a panic in either ends.  Several JujuClusters meet in names that
carry no namespace: the cluster role binding's and that of the Kubernetes namespace
of a Juju controller.

What is hard.  There is no memory between passes, so each pass decides from
what it reads, and everything may have changed between the read and the write:
a cached object may be outdated, a list of units is read one by one.  A request
may fail before or after it took effect.  A series of creations or deletions may
stop in the middle.  The process may die at any point.  Whether an object is
ever looked at again depends on the value a pass returns.

What makes each part correct:

  - JujuMachine: at most one unit of an application per machine; a machine is
    requested only under the finalizer, and no machine outlives its object; the
    provider IDs of the object and of its node are the same; ready comes after
    everything it stands for; no pass dies; every object gets ready, and every
    deleted one goes away.
  - JujuCluster: nothing is made in Juju but under the finalizer; nothing is
    left when the object is gone; applications go before the model, and the
    model before the controller; one Juju controller; the registration string is
    the last one issued; ready comes after everything; no pass dies, no object
    is forgotten, every one gets ready and every deleted one goes away.
  - Several JujuClusters: none reads another's controller data, none uses another's
    rights, none takes another's controller away; one with a name of its own is
    served and torn down whatever the others do.
  - A manifest: what a pass goes on with is deployed, exposed and related as the
    manifest asks; one bad application does not keep a good one away; what makes a
    pass die is known.
  - Both controllers: what one works with, the other takes away only after it; no
    machine is left in Juju when the cluster is gone.

## 2. Modules

`JujuMachine.tla` - the controller, one step per request.  `pc` names what
the worker sends next, `cur` the object of the pass, `before` the object as read
(which the patch helper keeps), `mem` the copy the pass edits, `requeue` its
result, `pass` its other local variables.  `stored` is the API server, `cache`
the informer, `queue` the work queue.  `mstate` and `units` are Juju's machines
and the unit of every application on them, `node` the nodes of the workload
cluster.  `creator` and `dup` are history.  Every `return` of `Reconcile` is
`Return`: the deferred patch follows, first metadata and spec (`PatchSpec`),
then the status (`PatchStatus`), each sent only if it changed; its error is
dropped, as the code assigns it after the result has been decided.  `Collected`
is the API server's rule that a deleted object goes with its last finalizer.
What is external: users and Cluster API (`Delete`, `SetOwner`, `Provide`,
`DataSecretNamed`), Juju (`MachineStarts`, `UnitSettles`, `UnitFails`,
`UnitRemoved`, ...), the kubelet and a cloud provider (`NodeRegisters`,
`CloudSetsProviderID`).

`MachineOwnership.tla` - the abstract specification: an object is guarded,
acquires at most one machine while it is, and is released only when that machine
is gone.  `JujuMachine!ImplementsOwnership` is the refinement (guarded: carries
the finalizer; issued: the machines created on its behalf).

`JujuCluster.tla` - the same for the JujuCluster.  Objects are sets of facts:
`stored`, `cache`, `before` and `mem` hold what is true of the JujuCluster,
`kube` and `seen` what is true of all other Kubernetes objects and what the
informers know of them.  `Generation` is the part of an object that counts for
the event filter.  `added`, `model`, `apps`, `exposed`, `related` are Juju;
`valid` says whether the stored registration string is the last one issued.
`TryAgain` is the difference that the deferred status patch makes: after the
model is found, every return, errors included, patches the status and asks for
another pass; before that, an error asks for one.  `DestroyController` and
`NamespaceTerminates` are Juju and Kubernetes taking everything along.
Reads, or a read and the write it decides on, may share a step; two writes never do.
So `CreateApp` deploys and `Expose` exposes (`pass.bare` is the application between the
two), `CreateModel` creates and `SetConstraints` constrains, and a restart, a lost
answer or a failed request may come between the halves, after which later passes take
the creation for done.
An application is `deployed`, `active` or in `error` as its units are; one in
`UnitApps` is deployed with units of its own.

`ControllerLifecycle.tla` - the abstract specification: a JujuCluster's object waits,
builds, closes and is released; things come only while it builds, go only while it
closes, and the model and its applications are out of use when it is released.
`JujuCluster!ImplementsLifecycle` is the refinement.  `Phase` is read off the stored
object and the copies that a pass or the informer holds of it (`Building`, `Ended`):
an object whose user has asked for its deletion still builds as long as some pass
works from a copy without it.  What is on its way out is not at work (`LiveApps`,
`LiveRelations`).

`JujuControllers.tla` - several JujuClusters in one worker.  What `JujuCluster`
shows step by step is shortened: everything between the finalizer and the deletion
is one state in which the controller serves (`Serve`), and destroying applications,
model and controller one step (`DestroyController`).  In full are the creation of the
bootstrap objects, their deletion and the deletion of the namespaces, one request
each, because these touch what clusters share: `binding` (for whom the cluster role
binding of a name is), `tenant` (whose job has bootstrapped the controller of a name)
and `terminating` (namespaces on their way out).  `Found` says which namespaces the
search by a part of a name turns up.  The script of the job goes on after a failed
bootstrap, so that `RunJob` of a second cluster of one name stores controller data
that cannot be split, and the pass that reads them panics (`ConfigMalformed`).

`Deployment.tla` - `createApplicationsIfNeeded`, `createIntegrationsIfNeeded` and the
wrappers they call, for one model and any manifest that the API server lets through.
`manifest` is chosen at the start; `todo` and `place` are where the pass stands,
`deployed`, `exposed` and `related` are Juju.  `Converted` is `ConfigEntryToString`
with what `CreateApplication` makes of it, `Key` and `Listed` are the comparison of
integration keys in both orders, `Turn` is the list of the default applications
followed by the others in the order of a map.

`Provider.tla` - `JujuCluster`, step by step, and `JujuMachine` as an instance beside
it, with its variables prefixed by m.  What `JujuMachine` calls the prerequisites is no
variable of its own here but `Provided`, what the JujuCluster and its model are at that
moment.  `Refused` is where Juju turns a JujuMachine's request away because the model
or the application is gone or going, `Unknown` where a request about an application
that is gone is answered without data, which `ReadApplication` dereferences: the process
dies (`JujuMachine` takes every application of the bootstrap data to be in the model).  `UnitFollows`, `MachineFollows` and
`ControllerGone` are what goes along when an application, a model or the controller
goes; `AppRemovedLast` and `ModelRemovedLast` are Juju's waiting for it.
`DeleteCluster` is Cluster API, which deletes the JujuCluster after the last machine,
or a user, who does not wait (`early`).  `RestartBoth` is the one process.

`MCJujuMachine.tla`, `MCJujuCluster.tla`, `MCJujuControllers.tla`,
`MCDeployment.tla`, `MCProvider.tla` - budgets of faults and other values for the
runs.

Theorems, each module on top of the one before: `JujuMachineProofs.tla`,
`JujuMachineCopies.tla` and `JujuMachineSafety.tla` about `JujuMachine`;
`JujuClusterProofs.tla` and `JujuClusterSafety.tla` about `JujuCluster`;
`ProviderProofs.tla` about `Provider`, on top of both; `JujuControllersProofs.tla` and
`DeploymentProofs.tla` about the other two (section 4).

Mutations stand beside the definitions they change, marked as such: plausible
bugs (a guard dropped, a requeue forgotten, an order swapped) that no
specification uses and that each property has to notice.

### Faults

A fault is a step that spends one unit of its kind in `budget`, which starts as
`FaultBudget`: a request to Juju fails (`call`) or is done and its answer lost
(`reply`), a patch is lost, a pass starts from an outdated cache (`stale`), the
process restarts (`crash`), an update is refused (`conflict`), a Kubernetes
request fails, done or not (`api`), and so on.  The budget bounds every run and
lets a property say which fault it does not survive: `Spared(kinds)` holds as
long as none of those kinds has happened.  A property without `Spared` holds
whatever fails.  `OnceAtMost(kind)` allows one fault of the kind.

`JujuControllers` and `Deployment` have one kind of fault, a request that fails, and
a single counter.  `Provider` leaves every fault but the crash to the two modules it
composes.

What fails without a budget is not a fault: a request without a model UUID, to a
controller that is gone, an update of an object somebody else has changed.

## 3. Runs

| run | question | instance |
|---|---|---|
| `jm_safety` | which promises survive every fault, and which need which fault to stay away | 1 object, 2 applications, 2 machine numbers, each of 8 faults once; machines and applications are symmetric; 1.5 million states |
| `jm_ownership` | does the controller implement `MachineOwnership` as long as nothing comes between a request for a machine and its record | 2 objects (one with a cloud provider), 2 machine numbers; failing requests, lost machines |
| `jm_live` | are objects provisioned and deleted in the end | 1 object, 3 machine numbers, prerequisites and bootstrap data late or not, a lost patch, a crash and a failing unit |
| `jc_safety` | as `jm_safety`, for the JujuCluster; and how much a fault in the middle of a creation can cost | 2 applications, both exposed, 1 integration, a cloud with credentials, each of 10 faults once and at most three in a behaviour (`FewFaults`); 0.96 million states |
| `jc_live` | does a JujuCluster become ready, and does a deleted one go away | 3 applications (one without units), failing requests, lost answers, a lost patch |
| `jc_early_delete` | violated: an object that is gone has left nothing | no fault |
| `jc_dying_model` | violated: the controller outlives the model | no fault |
| `jc_forced` | violated: force is used only against units in error | no fault |
| `ctl_neighbours` | what do JujuClusters do to each other through the names they share | 3 JujuClusters: `a`, `ab` and another `ab` in a second namespace; the first is created twice; one fault; 0.3 million states |
| `ctl_substring` | violated: only its own teardown takes a serving Juju controller away | the same, no fault |
| `deployment` | what becomes of a manifest, right or wrong | 2 default and 2 additional applications, one default integration, 1494 manifests that differ from a good one in at most two places; one failing request; 0.15 million states |
| `provider` | do the two controllers stay out of each other's way, and is all taken down in the end | 1 JujuMachine, 1 JujuCluster with 2 applications, 2 machine numbers, one crash; 0.3 million states |

What the passing safety runs show, with the faults each property needs to stay
away:

| property | says | not if |
|---|---|---|
| `OneUnitPerApp` | no second unit on a machine, though asking and adding are two requests | - |
| `AcquiresUnderFinalizer` | a machine is requested only for an object that has its finalizer in the API server at that moment | - |
| `FinalizerGuards` | an object goes only after its machine | stale |
| `NoOrphan` | a machine in the model is named by an object under the finalizer, or held by the pass about to record it | reply, patch, crash, stale |
| `ProviderIDsMatch` | the object's provider ID is its node's | conflict, more than one stale |
| `ReadyHasProviderID` | ready comes after the provider ID | patch |
| `ReadyWhenServing` | at the moment an object becomes ready all its units serve | unitError, machineLost, more than one stale |
| `NoPanic` (JujuMachine) | no pass reads a machine that is gone | machineLost |
| `BuildsUnderFinalizer` | nothing is made in Juju but under the finalizer | - |
| `ReadyWhenComplete` | ready comes after every application, integration and the endpoint | - |
| `ReleasesAll` | the finalizer goes after all bootstrap objects | stale |
| `RegistrationValid` | the stored string is the last one issued | stale |
| `EmptiedFirst` | the model is destroyed only when empty | call |
| `AsSpecified` | a ready cluster lacks no more exposures and constraints than there were failed requests, lost answers and restarts | - |
| `NeverForgotten` | no pass leaves an unfinished object out of the queue | stale, crash, api; a manifest with the endpoint written out, empty |
| `OneController`, `NoPanic` (JujuCluster) | an absent job means an absent controller; the config secret has data | everything but Juju's own faults |
| `ImplementsLifecycle` | while any pass may build nothing is taken away; later nothing is built; at the release nothing is at work | - |
| `BindingOfItsOwn` | a job works with the rights given to its own cluster, until that one is deleted | - |
| `NeverShared` | no JujuCluster reads the data of a controller that another's job has bootstrapped | - |
| `SparesOthers` | a serving controller goes only by a teardown that finds its name | - |
| `NoPanic` (JujuControllers) | no controller data that cannot be split | a name used twice, any fault |
| `NoPanic` (Deployment) | no pass dies | an optional section missing, an unusable credential, an option that is null or nested, an integration without two colons |
| `SettledAsAsked` | a pass that goes on has made what the manifest asks for | - (exposure: a failed request) |
| `PanicsOnlyIfEarly` | neither controller dies | the JujuCluster deleted before its JujuMachines |
| `AsksInTime` | machines and units are asked for in a model, and of an application, that lives | the same |
| `MachinesGoneFirst` | the model is asked to go when its machines have gone | the same, crash |

The condition in the last column is needed in every row: without it TLC finds a
behaviour, of a few dozen steps and of about a hundred in `provider`.  (For the outdated
passes it takes a budget of three of them, and for the written endpoint a cfg with
`EndpointWritten = TRUE`, which no run has.)  Those behaviours, besides the violation
runs:

  - the update of a node is refused: the deferred patch stores the provider ID all
    the same (line 331 sets it in the copy before the update), later passes find it
    set and never update the node (`ProviderIDsMatch`; the comment at line 328 says
    that the two will need to match);
  - the creation of a bootstrap object fails after another was made: every later
    pass finds no job, starts over and stops at the first object, which exists
    already (line 636; `Provisioned` of `JujuCluster`, with `api` in its budget);
  - a deletion fails between the config secret's, the second, and the job's, the
    fifth: later passes find the job succeeded, no config secret, and return the nil
    error of that read without a requeue (line 175; `NeverForgotten` and
    `DeletionCompletes` of `JujuCluster`);
  - a manifest writes out the empty control plane endpoint: the update that adds the
    finalizer leaves the generation as it was, and the object waits for the resync
    (lines 197 to 202 and 552, `NeverForgotten`);
  - a lost answer, patch or a crash after `AddMachine` leaves a machine that no
    object names, and the next pass requests another (`NoOrphan`);
  - a machine that leaves the model by another hand makes the next pass, and
    every pass after a restart, dereference nil at line 263 (`NoPanic`);
  - a credential secret that cannot be parsed, or controller data left by a
    failed bootstrap, does the same in the JujuCluster controller (lines 380 and
    769), and one controller's panic ends the process of both;
  - a refused or interrupted removal of the JujuCluster's finalizer finds no job
    in the next pass and bootstraps again, for a deleted object (`OneController`);
  - a failed query of `ModelExists` during teardown is taken for an absent model
    and skips the applications (`EmptiedFirst`);
  - a failed request, a lost answer or a restart between the deployment and the
    exposure of an application, or between the creation of a model and its constraints,
    is never made up for: later passes find the one and skip the other
    (`applications.go` 270 and 289, `models.go` 177 and 196).  `AsSpecified` therefore
    counts: each of these faults costs at most one half, and without any a ready
    cluster has them all;
  - an outdated cache without the registration secret makes the stored string
    worthless (`RegistrationValid`);
  - a JujuCluster deleted before its JujuMachines: its teardown counts applications,
    destroys the model and the controller, a JujuMachine's pass finds no machine and
    dereferences nil, and both controllers end, again with every restart until the
    namespace is gone; so does one that asks for an application that has gone before the
    model (`applications.go` 377; `PanicsOnlyIfEarly`);
  - a JujuCluster created again while the namespace of its former controller
    terminates, or beside a namesake: its job stores controller data without data
    (`NoPanic` of `JujuControllers`).

Why the bounds are enough.  A pass handles one object and shares no state with
another's, so one object and two machine numbers (one for the object, one for a
request made twice) show what a pass can do wrong; `jm_ownership` has two
objects so that the refinement's "a machine belongs to one object" can fail.
Two applications are the least for which "all units" and "one by one" differ;
for the JujuCluster they are the two the code asks for by name, with the
integration between them.  `jm_live` has as many machine numbers as its faults
can waste, plus one.  One fault of each kind lets any two different faults meet
in one behaviour; two of the same kind are left to the proofs, which hold for every
budget.  `jc_safety` stops at three
faults in a behaviour: more of them, ten kinds being possible, take the run from two
minutes to more than five and add no kind of step.  Three is also as many as the kinds
that interrupt a creation, and as the halves of creations there are to lose: two
exposures and the constraints.

`JujuControllers` has one pair of names of which one is a part of the other and one
pair of namesakes, all that names can do to each other; the short one is created twice so
that a controller's namespace may still be going when the next bootstrap comes.
`Deployment` has one option for each application, of every kind of JSON value, and
two default and two additional applications, so that one of each may be bad; three bad places add nothing,
as the first one found ends the pass.  `Provider` has one JujuMachine, since passes over two
share nothing; two machine numbers, for the one request that a crash can repeat,
handed out in order as Juju does; the two applications that a machine's units and the
JujuCluster's own need, one of them standing for both that the code asks for by name.
Its crash comes while there is a machine in the model, since before that only the
JujuCluster has anything to lose, and before the teardown of the JujuCluster, which any
crash may break off for good (`jc_safety` shows both), and a user's early deletion does not
come after a crash.

Deadlock is not checked: a system whose objects are all deleted, or whose object
waits for a user, stops.

### Fairness

`Worker` is weakly fair: the worker carries every pass through, as each request
ends with an answer or an error.  `Begin` is strongly fair: the queue is first in
first out, but an outdated cache may make it wait.  A panicked process is
restarted by its Deployment.  Informers deliver every event in the end.  Cluster
API sets owners and prerequisites appear; Juju starts machines, settles units and
removes what was asked to go; the job runs.  Not assumed: that anybody deletes
an object, resolves the error of a unit, or that a fault happens or ends - a
fault's budget ends it.  The resync, every ten hours by default, is fair only
where a property says so: `Provisioned` and `DeletionCompletes` of JujuMachine
hold without it as long as the controller is told of everything (`Told`), and
with it in any case.

`DeletionCompletes` of JujuMachine asks for a unit on the machine or for no
machine at all: removing units is all the controller does to a machine, so an
object deleted before its machine got a unit polls for ever.  And it allows for a
unit that errs between the listing of the units and its end: asked to go without
force and skipped afterwards, it holds its machine until somebody resolves the
error.

`JujuControllers`: every JujuCluster in the queue has its turn.  `Served` and
`TornDown` end with a panic: a namesake's controller data may make the process die
in every pass, and how often the others get a turn between two restarts is up to the
Deployment's back-off.  `Deployment`: each pass is followed by another, and the order
of a map is random, so every additional application that is missing has its turn
(a strong fairness of `AppMissing`).  `Provider`: each worker goes on whatever the
other does, a queued object is taken in the end, and Juju and Kubernetes act as in the
two modules, Juju as one actor (`InJuju`).

## 4. Proofs

All theorems hold for every value of the constants that meets the named
assumptions of the component's module; three, the refinement of `MachineOwnership` and
two about `Provider`, have a hypothesis on the budget of their own.  A safety property
with a condition on faults (the last column of the table in section 3) is proved with
that condition, and for every budget.

| module | theorem | states |
|---|---|---|
| `JujuMachineProofs` | `TypeCorrect`, `NoSecondUnit` | `TypeOK`, `OneUnitPerApp` |
| `JujuMachineCopies` | `CopiesInvariance`, `AcquiredUnderFinalizer` | the invariant on copies, `AcquiresUnderFinalizer` |
| `JujuMachineSafety` | `ReadyAfterProviderID`, `NoMachineOrphaned`, `NeverPanics`, `ProvidersMatch`, `FinalizerOutlivesMachine`, `ServesWhenReady`, `OwnershipImplemented` | `ReadyHasProviderID`, `NoOrphan`, `NoPanic`, `ProviderIDsMatch`, `FinalizerGuards`, `ReadyWhenServing`, `ImplementsOwnership` |
| `JujuClusterProofs` | `TypeCorrect`, `GuardedBuilding` | `TypeOK`, `BuildsUnderFinalizer` |
| `JujuClusterSafety` | `RegistrationGood`, `SpecifiedWhenReady`, `NeverPanics`, `NobodyForgotten`, `CompleteWhenReady`, `EverythingReleased`, `EmptiedBeforeDestroyed`, `OneControllerAtATime`, `LifecycleImplemented` | `RegistrationValid`, `AsSpecified`, `NoPanic`, `NeverForgotten`, `ReadyWhenComplete`, `ReleasesAll`, `EmptiedFirst`, `OneController`, `ImplementsLifecycle` |
| `JujuControllersProofs` | `ControllersTyped`, `BindingsOwn`, `ControllersNotShared`, `TeardownSparesOthers`, `NeverPanicsUndisturbed` | `TypeOK`, `BindingOfItsOwn`, `NeverShared`, `SparesOthers`, `NoPanic` |
| `ProviderProofs` | `ProviderTyped`, `AsksOnlyInTime`, `PanicsOnlyWhenEarly`, `MachinesGoBeforeModel` | the types, `AsksInTime`, `PanicsOnlyIfEarly`, `MachinesGoneFirst` |
| `DeploymentProofs` | `DeploymentTyped`, `SettledDeployment`, `NeverPanicsOverManifest` | `TypeOK`, `SettledAsAsked`, `NoPanic` |

So every invariant and every action property of the passing runs is proved, together
with both refinements.

### JujuMachine

*Types and units* (`JujuMachineProofs`).  Neither formula is inductive: `TypeOK` does
not tell that the pass works on a machine number when it needs one, and
`OneUnitPerApp` does not tell that the unit which `AddUnit` adds is still missing.
The invariant adds: at the steps that use `cur`, there is an object (`HasObject`); at
those that use a machine, `mem.machineID` is one (`HasMachine`); and at `addUnit` the
application is the one a request has just found without a unit on that machine
(`AddsMissing`), which no other step changes, for units are only ever placed by the
worker.  Lemmas on single fields of an object keep records folded, so that the
provers see one field at a time.

*Copies* (`JujuMachineCopies`).  The worker decides from `before`, a copy of `cache`,
which is a copy of `stored`, and both may be outdated.  `Older` says what an earlier
copy of an object may lack, and that as long as the object exists nothing is taken
back; `Guarded`, that an object of which a copy shows the finalizer and no deletion
still exists: its finalizer goes only in a pass that has read of the deletion, from
an informer that has it, too.  `Position` and `Edits` tie the worker's place and its
edits to what it has read.  That a machine is requested only under the finalizer
follows at `AddMachine`, whatever fails.

*Safety* (`JujuMachineSafety`).  Each part of `SafetyInv` is conditioned by the faults
that it does not survive, so that one invariant serves all budgets; `Within` says that
a spent unit never comes back.
  - `RecordInv`: a machine is recorded, in the hands of the pass about to record it, or
    has gone with its object.
  - `AliveInv`: a machine that leaves the model by the controller's doing belongs to an
    object whose deletion the informer has seen, and the pass too, if it is at that
    object.  Hence no pass looks for such a machine on the way without a nil test.
  - `MatchInv`: a node only ever gets the one provider ID that its machine and its
    owner allow (`ProviderOf`), and the object gets its node's.
  - `ReleaseInv`, `ReadyInv`, `ServingInv`: what a pass about to release the object or
    to make it ready has found, and why it is still so when the patch is sent.
  - `StaleInv`: what an outdated copy may get wrong about its machine, `PlacedInv`:
    units and machines end in order.

The attempt to prove `ProviderIDsMatch` and `ReadyWhenServing` for every budget failed,
with a reason.  Three passes from outdated copies break both: the first does not know of
the recorded machine and records another in its place; a later one still knows only
the first machine, places units on it and stores its provider ID beside the number of
the second.  With at most one outdated pass both hold (`OnceAtMost`), and that is what
the properties now say; TLC finds no violation with two either.

*Refinement* (`JujuMachineSafety`).  `OwnershipImplemented` needs the hypothesis
`NothingIsLost`: no lost answer, no lost patch, no restart, no outdated pass in the
budget; failing requests, erring units, lost machines and refused node updates are
unlimited.  Each of the four would leave a machine that no object names, which
`MachineOwnership` does not allow.  Every step maps to one of the abstract
specification's or to a stutter, with `NoOrphan`'s invariant telling that a released
object has no machine left and that a machine is acquired once.

### JujuCluster

*Building* (`JujuClusterProofs`).  `BuildsUnderFinalizer` speaks of the object in the
API server, the worker only knows a copy (`before`) of the informer's copy (`cache`).
The invariant says what a copy proves (`Sound`): one with the finalizer and without a
deletion, that the object has its finalizer now; one with a deletion, that the
object is being deleted or gone.  The first holds because only `RemoveFinalizer`
takes a finalizer away, and it works on a copy that shows the deletion; `Copies`
adds that once the pass has read of the deletion, the informer's copy shows it, too
(or nothing at all), so that no other copy claims the finalizer that is about to go.
`Position` ties the worker's place to its copy: at the steps that build, the copy has
the finalizer and no deletion; at those that tear down, both.

*Safety* (`JujuClusterSafety`).
  - Readiness, whatever fails: `FoundInv` says that nothing is on its way out before a
    pass has read of the deletion, so that what the pass has found, application by
    application, is there to its end; `HostInv`, that what a model or a controller holds
    goes along with it; `EditInv`, that the pass sets the endpoint or `ready`, never
    both, and `ready` only over an endpoint that is stored.
  - `HalvesInv`: the exposures missing from applications that are there, and the
    constraints missing from a model that is, are no more than the interruptions so far,
    not counting the one half that the pass is about to make up for.  The first half
    of a creation is missing its second only while the pass stands between the two
    (`FirstHalves`), and what makes it leave without the second is a fault that counts
    (`HalfInterrupted`).  At ready all applications and the model are there, and no
    pass is between two halves, so that this is `AsSpecified`; a cardinality, so the
    applications have to be finitely many.
  - `RegistrationInv`: with fresh caches a password is reset only while there is no
    secret.
  - `EmptyInv`: a teardown looks into a model that stays alive, knows of every
    application in it, and passes it by only when a query has failed.
  - `ReleaseInv`: what the series of deletions has come past is gone, and so is all of
    it at `removeFinalizer`.
  - `QueueInv`: the job's data and the config secret, which the next pass needs, are
    there together but in the middle of a teardown; an idle worker has the object in
    its queue, or an event under way that the filter lets through.
  - `BootInv`: as long as nothing fails but requests to Juju and units, the data are
    good (`DataGood`), no job runs beside a controller (`JobAlone`), a controller without
    its job is on its way out to the very end (`JobLast`), and nobody changes the object
    during its teardown (`Undisturbed`).  `NoPanic` and `OneController` need all of it:
    the one step that could start a second bootstrap is a pass after the job's deletion.

*Refinement* (`JujuClusterSafety`).  `LifecycleImplemented` has no hypothesis: what
`ControllerLifecycle` promises survives every fault of every budget.  Three facts carry
it.  While any pass may build, nothing is on its way out (`FoundInv` with `Position`);
once none may, none ever does again, as no copy loses its deletion (`Sound`, `Copies`);
and `LifeInv`: from the request to destroy the controller on, and when the finalizer has
gone, nothing is at work any more - even where an outdated cache hides a bootstrap
object, or a failed query was taken for the absence of the model, for the controller
then takes the model along.  `WorkChanges` says which steps change what is at work,
`PhaseChanges` which change the phase, and the abstract step of each is one of the four
or a stutter.

Here, too, a failed attempt was a finding: `NeverForgotten` holds only for a manifest
that leaves the control plane endpoint out.  One that writes it, empty, makes the update
that adds the finalizer change nothing in the spec; its event is filtered out, the pass
has asked for no other (line 202), and the object waits for the resync.  The property
now says so.  `AppsAssumption` is used by `HalvesInv` (the applications are finitely many, the exposed
ones among them) and by the refinement (an integration is of at least one of them, and
goes with it); the rest needs the assumption on the budget alone.

### JujuControllers and Deployment

`JujuControllersProofs` proves for any JujuClusters, names, namespaces found by a search
and number of failing requests what the run shows for three.  `BindingOfItsOwn` and
`NeverShared` each need what the other says, and where the pass is: a pass that creates
found no job (`Creating`), and made the binding before the job; one that tears down has
read a deletion that nobody takes back, takes the data first and the job last
(`TearingDown`).  So whoever has controller data (`Data`) has the binding of its name,
and a name has one binding.  For `NoPanic` there is `RunOnce`: with names used once and
nothing failed, a cluster that has a controller keeps its finished job until its own
teardown, so that no second job finds the controller there; `Known` says that nothing
is known of what has not been created.  `TypeOK` of `JujuControllers` is left to its
theorem (`ControllersTyped`); no run repeats it.

`DeploymentProofs` proves `SettledAsAsked` and `NoPanic` for all manifests, applications
and integration lists: what is deployed is what
the manifest means (`Meant`), what is out of `todo` is deployed (`AppsInv`), what is
before `place` is related (`RelatedInv`), and as long as nothing has failed what is deployed is
exposed (`ExposedInv`).  The proof named what it takes of the code's own data:
there is at least one default integration, all of them have two named endpoints, of
default applications (`DefaultsAssumption`); no endpoint is on both sides of a relation
(`RolesAssumption`); the mark for no application is none (`AppsAssumption`).

### Provider

`ProviderProofs` puts the two arguments together without repeating them.  It extends
`JujuClusterSafety` and instantiates `JujuMachineSafety` (`MS`) with the variables of
`Provider`; `MachineConstants` shows that what the theorems there assume of the
constants holds here, from `MachinesAssumption`, and `Same...` that the actions
which `Provider` takes from its own instance of `JujuMachine` are those of `MS`.  A step
of `Provider` is one of seven kinds (`StepKinds`): one of either half that leaves the
other's variables alone, and those that join them - a user's or Cluster API's deletion
of the JujuCluster, a refused request, a restart, and what Juju takes along with a
controller, a model or an application.  The steps of a half keep its invariants by its
own lemmas (`ClusterNext`, `MachineBase`) and, but for the three cases below, the other
half's by leaving them alone (`MachineFrame`).

The argument is Cluster API's order.  `TimelyInv` says what holds as long as it is kept
(`~early`), and no invariant of one controller alone implies it:
  - `OrderInv`: a JujuCluster that is deleted has no JujuMachines any more, one that
    Cluster API has seen ready still is, and a pass that speaks to the model has seen it.
    Only a deletion ends a JujuCluster (`StaysAlive`), and no JujuMachine comes back
    (`NoneReturns`).
  - `HeldInv`: a pass that works under the finalizer works for an object that is there,
    and whoever knows an object with a machine knows its finalizer.  `JujuMachine` alone
    does not need this; here it ties a pass to a JujuMachine, and so to the JujuCluster.
  - So at any request of the JujuMachine controller the JujuCluster is there and has been
    ready, and by `FoundInv` and `HostInv` the model, the applications and the controller
    stand: `NeverRefused`, which is `AsksInTime`, and no request meets an application
    that is not there.
  - Juju takes a machine or a unit along only when something of the JujuCluster is on its
    way out, and then no JujuMachine is left (`FateAfterEnd`), so that `AliveInv`, which
    says why no pass looks for a machine in vain, survives it (`FatedMachine`).

`AsksInTime` so holds whatever fails in the JujuCluster's half.  `PanicsOnlyIfEarly` and
`MachinesGoneFirst` have the hypothesis `CrashesOnly`: failing requests to Juju, lost
answers, erring units and restarts are unlimited, but Kubernetes does not fail, caches
are fresh where a pass starts, and the bootstrap leaves controller data, without which
the JujuCluster controller panics by itself.  `NoPanic` of `JujuCluster` excludes the
restart, too; here its invariant had to survive one.  It does, because `RestartBoth`
comes before the teardown, when nothing of the bootstrap is half taken down (`DataKept`).
The record of every machine (`RecordInv`) is taken over with the same restart as its
condition, and gives `MachinesGoneFirst`: when the model is asked to go the JujuCluster
has been deleted, the JujuMachines are gone, and their machines with them.

`MachinesAssumption`, that machine numbers are natural numbers and `None` is none of
the values it stands beside, is what `JujuMachine` assumes as well.

### Only model-checked

  - Liveness (`Provisioned`, `DeletionCompletes`, `Served`, `TornDown`,
    `SoundOnesDeployed`, `Settles`, `NothingLeftInJuju`): fairness and ENABLED are out of
    the prover's reach.
  - The properties of the runs that expect a violation, which do not hold.

## 5. What is not modelled

Of the wrappers: what nothing calls (`juju/actions.go` and single functions of the
others), the resolution of charm URLs, series and architectures, resources that a
failed `CreateApplication` leaves pending, `parseApplications`, whose result is only
logged, and `splitCommaDelimitedList`, which only sees the empty string; the
encoding and padding of the registration string.  The contents of constraints and
addresses.  Requeue delays and rate limits: a requeued object may be taken at once
or arbitrarily late.  Finalizers of others on a JujuCluster, and with
them the deletion stamp without this controller's (lines 335 to 339).  Two workers:
the manager runs one per controller (`MaxConcurrentReconciles` is not set).  The
branch at lines 303 to 306 of the JujuCluster controller, which needs a model that is
alive and destroying at once.  Leader election, metrics and probes of the manager.

Of the composed models: in `JujuControllers` outdated caches (in `JujuCluster`), two
JujuClusters with one owner Cluster, which share the config secret, and one that is
created again during a pass over its predecessor; in `Provider` every fault but
the crash, integrations, credentials, and what becomes of a cloud's machine when the
Juju controller that has started it goes.

Data without behaviour of their own: CRDs, RBAC, templates, the generated copies
of the API types.  The test harness holds no test of a controller.

## 6. Plan

 1. `JujuMachine`, `MachineOwnership`: done, with the first two theorems.
 2. `JujuCluster`: done, with its type invariant and `BuildsUnderFinalizer` proved.
 3. `JujuControllers`, several JujuClusters and the names they share: done.
 4. `Deployment`, manifests, configuration entries and integration keys: done.
 5. `Provider`, both controllers in one process: done.
 6. Theorems about every invariant and action property of the runs, and the refinement
    of `MachineOwnership`: done.
 7. Theorems about `Provider`, with the invariants of `JujuMachineSafety` and
    `JujuClusterSafety` taken over: done.
 8. `ControllerLifecycle`, what the JujuCluster controller promises about what it makes
    in Juju, as an abstract specification, and the refinement: done.
