------------------------------ MODULE JujuCluster ------------------------------
(***************************************************************************)
(* The JujuCluster controller (controllers/jujucluster_controller.go): it  *)
(* bootstraps a Juju controller with a Kubernetes job, sets up a cloud, a  *)
(* credential, a model, the applications and their integrations in it, and *)
(* takes all of that down again when the JujuCluster is deleted.           *)
(*                                                                         *)
(* One JujuCluster is modelled.  A pass of Reconcile is a chain of steps,  *)
(* one per request; the API server, the informers, Juju, users and the     *)
(* death of the process come in between.  Every Get is answered by an      *)
(* informer's cache, which lags behind.                                    *)
(*                                                                         *)
(* Simplifications:                                                        *)
(*   - requeue delays are not modelled; applications and integrations are  *)
(*     visited in any order, which includes the order of the code;         *)
(*   - manifests have an additionalApplications section, as every template *)
(*     has: without one the API server refuses the Go zero value;          *)
(*   - nobody else holds the JujuCluster with a finalizer, so that a deleted *)
(*     one without this controller's is gone;                              *)
(*   - two reads of Juju that nothing can come between to any effect, and  *)
(*     a read and the write it decides on, are one step; two writes never; *)
(*   - the namespace is looked for when its deletion is due, and not in a  *)
(*     list made before the other deletions: nobody makes it in between.   *)
(***************************************************************************)
EXTENDS Naturals, Sequences, FiniteSets

CONSTANTS
    Apps,             \* applications: the default and the additional ones
    UnitApps,         \* those that are deployed with units of their own
    ExposedApps,      \* those whose configuration says expose
    CertApp,          \* easyrsa
    BalancerApp,      \* kubeapi-load-balancer
    Integrations,     \* sets of two applications to be related
    NeedsCredential,  \* the cloud has authentication types
    EndpointWritten,  \* the manifest has an (empty) control plane endpoint
    FaultBudget       \* how often each kind of fault may happen

FaultKinds == {"call",      \* a request to Juju fails and changes nothing
               "reply",     \* a request to Juju is done, its answer lost
               "api",       \* a create, update or delete fails, done or not
               "conflict",  \* another writer's change refuses an update
               "patch",     \* the patch of the JujuCluster is lost
               "stale",     \* a Get is answered from an outdated cache
               "crash",     \* the manager process restarts
               "unitError", \* the unit of an application enters the error state
               "bootstrap", \* juju bootstrap fails inside the job
               "badSecret"} \* the credential secret cannot be parsed

ASSUME AppsAssumption ==
    /\ IsFiniteSet(Apps)
    /\ UnitApps \subseteq Apps /\ ExposedApps \subseteq Apps
    /\ CertApp \in UnitApps /\ BalancerApp \in UnitApps
    /\ Integrations \subseteq (SUBSET Apps) \ {{}}
ASSUME FlagsAssumption == NeedsCredential \in BOOLEAN /\ EndpointWritten \in BOOLEAN
ASSUME BudgetAssumption == FaultBudget \in [FaultKinds -> Nat]

VARIABLES
    stored,  \* what holds of the JujuCluster in the API server
    cache,   \* what the informer knows of it
    queued,  \* it is in the work queue
    kube,    \* what holds of the other Kubernetes objects
    seen,    \* what the informers know of them
    pc,      \* what the worker does next
    before,  \* the JujuCluster as the pass read it
    mem,     \* the JujuCluster as the pass has edited it
    pass,    \* the other local variables of the pass
    added,   \* the cloud, credential and model constraints Juju knows
    model,   \* the life of the model
    apps,    \* the state of every application in it
    exposed, \* the applications that are exposed
    related, \* the integrations in the model
    valid,   \* the stored registration string is the last one Juju issued
    budget   \* faults that may still happen

object == <<stored, cache, queued>>
local  == <<pc, before, mem, pass>>
juju   == <<added, model, apps, exposed, related>>
vars   == <<stored, cache, queued, kube, seen, pc, before, mem, pass, added,
            model, apps, exposed, related, valid, budget>>

\* "endpoint": the control plane endpoint has a host.  "written": its field is
\* in the stored spec at all.
ObjectFacts == {"present", "owned", "deleted", "finalizer", "written",
                "endpoint", "ready"}
\* A change of the spec and a deletion raise the generation.
Generation(o) == o \cap {"present", "deleted", "written", "endpoint"}

SetupOrder == <<"serviceAccount", "roleBinding", "tokenSecret", "job">>
\* Mutation: the config secret is forgotten.
TeardownOrderWithoutConfig == <<"tokenSecret", "roleBinding", "serviceAccount",
                                "job", "namespace">>

TeardownOrder == <<"tokenSecret", "config", "roleBinding", "serviceAccount",
                   "job", "namespace">>
SetupObjects == {"serviceAccount", "roleBinding", "tokenSecret", "job", "config"}
KubeFacts == SetupObjects \cup
    {"succeeded",     \* the job has
     "malformed",     \* the config secret has no controller data in it
     "namespace", "terminating", \* of the Juju controller
     "registration",  \* the secret with the registration string
     "credential", "unparsable"} \* the user's secret

AppStates == {"absent", "deployed", "active", "error",
              "dying",
              "stuck"} \* dying without force, with a unit in error

Pass == [step : 1..6, todo : SUBSET (Apps \cup Integrations),
         alive : SUBSET Apps, any : BOOLEAN, unparsable : BOOLEAN,
         bare : SUBSET Apps] \* just deployed, and not exposed yet
NoPass == [step |-> 1, todo |-> {}, alive |-> {}, any |-> FALSE, unparsable |-> FALSE,
           bare |-> {}]

\* The steps that come after the status patch has been deferred.
Deferred == {"apps", "expose", "integrations", "certificates", "balancer", "endpoint"}
JujuCalls == Deferred \cup {"getModel", "listApps", "destroyApps",
                            "destroyController", "register", "cloud",
                            "credential", "model", "constrain"}
\* Requests to the model itself.
InModel == Deferred \cup {"constrain"}
Steps == JujuCalls \cup {"idle", "prerequisites", "createSetup", "branch",
                         "modelExists", "deleteSetup", "removeFinalizer",
                         "storeString", "patch", "panicked"}

Init ==
    /\ stored = {"present"} \cup IF EndpointWritten THEN {"written"} ELSE {}
    /\ cache = stored /\ queued = TRUE
    /\ kube = {} /\ seen = {}
    /\ pc = "idle" /\ before = {} /\ mem = {} /\ pass = NoPass
    /\ added = {} /\ model = "absent" /\ exposed = {} /\ related = {}
    /\ apps = [a \in Apps |-> "absent"]
    /\ valid = FALSE
    /\ budget = FaultBudget

--------------------------------------------------------------------------------
(* Starting and ending a pass                                              *)

Spend(kind) == /\ budget[kind] > 0
               /\ budget' = [budget EXCEPT ![kind] = @ - 1]
SpendIf(condition, kind) == IF condition THEN Spend(kind) ELSE UNCHANGED budget

\* A Get of some objects from the cache.
LookAt(facts) == SpendIf(seen \cap facts # kube \cap facts, "stale")

EndPass(again) ==
    /\ pc' = "idle" /\ before' = {} /\ mem' = {} /\ pass' = NoPass
    /\ queued' = (queued \/ again)

Goto(step) == pc' = step /\ UNCHANGED <<before, mem, pass, queued>>

\* Past the defer, every return patches the status and asks for another pass
\* after thirty seconds.  Before it, an error or a requeue asks for one.
TryAgain == IF pc \in Deferred THEN Goto("patch") ELSE EndPass(TRUE)

Begin ==
    /\ pc = "idle" /\ queued /\ "present" \in cache
    /\ SpendIf(cache # stored, "stale")
    /\ queued' = FALSE /\ pc' = "prerequisites" /\ before' = cache /\ mem' = cache
    /\ UNCHANGED <<stored, cache, kube, seen, pass, juju, valid>>

\* The object is gone: nothing to do.
Forget ==
    /\ pc = "idle" /\ queued /\ "present" \notin cache
    /\ queued' = FALSE
    /\ UNCHANGED <<stored, cache, kube, seen, local, juju, valid, budget>>

Prerequisites == /\ "owned" \in before
                 /\ NeedsCredential => "credential" \in seen
ReadAtStart == LookAt({"credential", "unparsable", "job", "succeeded", "config",
                       "malformed"})

\* No owner Cluster, or no credential secret for a cloud that asks for one.
WaitForPrerequisites ==
    /\ pc = "prerequisites" /\ ~Prerequisites
    /\ ReadAtStart /\ EndPass(TRUE)
    /\ UNCHANGED <<stored, cache, kube, seen, juju, valid>>

StartBootstrap ==
    /\ pc = "prerequisites" /\ Prerequisites /\ "job" \notin seen
    /\ ReadAtStart /\ Goto("createSetup")
    /\ UNCHANGED <<stored, cache, kube, seen, juju, valid>>

\* Mutation: the result does not ask for another pass.
WaitForJobEvent ==
    /\ pc = "prerequisites" /\ Prerequisites /\ "job" \in seen /\ "succeeded" \notin seen
    /\ ReadAtStart /\ EndPass(FALSE)
    /\ UNCHANGED <<stored, cache, kube, seen, juju, valid>>

WaitForJob ==
    /\ pc = "prerequisites" /\ Prerequisites /\ "job" \in seen /\ "succeeded" \notin seen
    /\ ReadAtStart /\ EndPass(TRUE)
    /\ UNCHANGED <<stored, cache, kube, seen, juju, valid>>

\* A missing secret is reported with the nil error of the read.
ConfigMissing ==
    /\ pc = "prerequisites" /\ Prerequisites
    /\ {"job", "succeeded"} \subseteq seen /\ "config" \notin seen
    /\ ReadAtStart /\ EndPass(FALSE)
    /\ UNCHANGED <<stored, cache, kube, seen, juju, valid>>

\* split[1] of data without ":\n" is out of range.
ConfigMalformed ==
    /\ pc = "prerequisites" /\ Prerequisites
    /\ {"job", "succeeded", "config", "malformed"} \subseteq seen
    /\ ReadAtStart /\ Goto("panicked")
    /\ UNCHANGED <<stored, cache, kube, seen, juju, valid>>

Connect ==
    /\ pc = "prerequisites" /\ Prerequisites
    /\ {"job", "succeeded", "config"} \subseteq seen /\ "malformed" \notin seen
    /\ ReadAtStart
    /\ pc' = "branch" /\ pass' = [pass EXCEPT !.unparsable = "unparsable" \in seen]
    /\ UNCHANGED <<object, kube, seen, before, mem, juju, valid>>

--------------------------------------------------------------------------------
(* The objects the bootstrap needs, and the finalizer                      *)

\* createJujuControllerResources: four creations in a row.
CreateObject ==
    /\ pc = "createSetup" /\ SetupOrder[pass.step] \notin kube
    /\ kube' = kube \cup {SetupOrder[pass.step]}
    /\ \/ /\ pass.step < Len(SetupOrder)
          /\ pass' = [pass EXCEPT !.step = @ + 1]
          /\ UNCHANGED <<pc, before, mem, queued, budget>>
       \/ pass.step = Len(SetupOrder) /\ EndPass(TRUE) /\ UNCHANGED budget
       \/ Spend("api") /\ EndPass(TRUE)
    /\ UNCHANGED <<stored, cache, seen, juju, valid>>

\* The request fails, or the object exists already.
CreateRefused ==
    /\ pc = "createSetup"
    /\ SpendIf(SetupOrder[pass.step] \notin kube, "api")
    /\ EndPass(TRUE)
    /\ UNCHANGED <<stored, cache, kube, seen, juju, valid>>

\* The API server removes a deleted object with its last finalizer.
Collected(o) == IF "deleted" \in o /\ "finalizer" \notin o THEN {} ELSE o

\* r.Update: refused unless nobody has changed the object since it was read.
Update(o) == stored = before /\ stored' = Collected(o)

\* Mutation: a patch of the finalizer alone leaves the generation as it is.
AddFinalizerAlone ==
    /\ pc = "branch" /\ "deleted" \notin before /\ "finalizer" \notin before
    /\ Update(before \cup {"finalizer"})
    /\ \/ EndPass(FALSE) /\ UNCHANGED budget
       \/ EndPass(TRUE) /\ Spend("api")
    /\ UNCHANGED <<cache, kube, seen, juju, valid>>

\* The update sends the whole spec, the empty endpoint included.
AddFinalizer ==
    /\ pc = "branch" /\ "deleted" \notin before /\ "finalizer" \notin before
    /\ Update(before \cup {"finalizer", "written"})
    /\ \/ EndPass(FALSE) /\ UNCHANGED budget
       \/ EndPass(TRUE) /\ Spend("api")
    /\ UNCHANGED <<cache, kube, seen, juju, valid>>

UpdateRefused ==
    /\ \/ pc = "branch" /\ "deleted" \notin before /\ "finalizer" \notin before
       \/ pc = "removeFinalizer"
    /\ SpendIf(stored = before, "conflict")
    /\ EndPass(TRUE)
    /\ UNCHANGED <<stored, cache, kube, seen, juju, valid>>

StartTeardown ==
    /\ pc = "branch" /\ {"deleted", "finalizer"} \subseteq before
    /\ Goto("modelExists")
    /\ UNCHANGED <<stored, cache, kube, seen, juju, valid, budget>>

\* Mutation: the finalizer is not waited for.
StartSetupEarly ==
    /\ pc = "branch" /\ "deleted" \notin before
    /\ Goto("register")
    /\ UNCHANGED <<stored, cache, kube, seen, juju, valid, budget>>

StartSetup ==
    /\ pc = "branch" /\ "deleted" \notin before /\ "finalizer" \in before
    /\ Goto("register")
    /\ UNCHANGED <<stored, cache, kube, seen, juju, valid, budget>>

--------------------------------------------------------------------------------
(* Requests to Juju                                                        *)

Reachable == "namespace" \in kube /\ "terminating" \notin kube
Answers == Reachable /\ (pc \in InModel => model = "alive")

\* The step is over without another request.
NoRequest == \/ pc = "register" /\ "registration" \in seen
             \/ pc = "credential" /\ pass.unparsable
             \/ pc = "destroyApps" /\ pass.todo = {} /\ pass.any
             \/ pc \in {"apps", "integrations"} /\ pass.todo = {}
             \/ pc = "endpoint" /\ "endpoint" \in before

\* A request fails: as a fault, or because nobody is there to answer it.
CallFails ==
    /\ pc \in JujuCalls /\ ~NoRequest
    /\ SpendIf(Answers, "call")
    /\ TryAgain
    /\ UNCHANGED <<stored, cache, kube, seen, juju, valid>>

Call(step) == pc = step /\ Answers
ReplyLost == Spend("reply") /\ TryAgain

--------------------------------------------------------------------------------
(* Teardown                                                                *)

\* Mutation: after an error of ModelExists the controller counts as gone, too.
ModelQueryFailsForGood ==
    /\ pc = "modelExists" /\ SpendIf(Reachable, "call")
    /\ Goto("deleteSetup")
    /\ UNCHANGED <<stored, cache, kube, seen, juju, valid>>

\* An error of ModelExists is logged, and the model taken for absent.
ModelQueryFails ==
    /\ pc = "modelExists" /\ SpendIf(Reachable, "call")
    /\ Goto("destroyController")
    /\ UNCHANGED <<stored, cache, kube, seen, juju, valid>>

ModelQueried ==
    /\ Call("modelExists")
    /\ Goto(IF model = "absent" THEN "destroyController" ELSE "getModel")
    /\ UNCHANGED <<stored, cache, kube, seen, juju, valid, budget>>

\* Only a model that is alive is looked into; one that is dying is passed over.
ModelRead ==
    /\ Call("getModel")
    /\ CASE model = "alive"  -> Goto("listApps")
         [] model = "dying"  -> Goto("destroyController")
         [] model = "absent" -> TryAgain
    /\ UNCHANGED <<stored, cache, kube, seen, juju, valid, budget>>

ListApps ==
    /\ Call("listApps")
    /\ pc' = "destroyApps"
    /\ pass' = [pass EXCEPT
          !.todo = {a \in Apps : apps[a] # "absent"},
          !.alive = {a \in Apps : apps[a] \in {"deployed", "active", "error"}}]
    /\ UNCHANGED <<object, kube, seen, before, mem, juju, valid, budget>>

\* AreApplicationUnitsInError: a unit whose agent is NOT in error counts, too.
InError(a) == a \in UnitApps

Doomed(state, force) == CASE state \in {"deployed", "active"} -> "dying"
                          [] state = "error" -> IF force THEN "dying" ELSE "stuck"
                          [] OTHER -> state

\* Mutation: an application that is dying already does not count.
DestroyAppOnly(a) ==
    /\ Call("destroyApps") /\ a \in pass.todo
    /\ apps' = IF a \in pass.alive
               THEN [apps EXCEPT ![a] = Doomed(@, InError(a))] ELSE apps
    /\ \/ /\ pass' = [pass EXCEPT !.todo = @ \ {a}, !.any = (@ \/ a \in pass.alive)]
          /\ UNCHANGED <<pc, before, mem, queued, budget>>
       \/ a \in pass.alive /\ ReplyLost
    /\ UNCHANGED <<stored, cache, kube, seen, added, model, exposed, related, valid>>

\* ApplicationExists, AreApplicationUnitsInError and DestroyApplication for one
\* of the applications listed.
DestroyApp(a) ==
    /\ Call("destroyApps") /\ a \in pass.todo
    /\ apps' = IF a \in pass.alive
               THEN [apps EXCEPT ![a] = Doomed(@, InError(a))] ELSE apps
    /\ \/ /\ pass' = [pass EXCEPT !.todo = @ \ {a}, !.any = (@ \/ apps[a] # "absent")]
          /\ UNCHANGED <<pc, before, mem, queued, budget>>
       \/ a \in pass.alive /\ ReplyLost
    /\ UNCHANGED <<stored, cache, kube, seen, added, model, exposed, related, valid>>

\* Mutation: the result does not ask for another pass.
AppsRemainUnattended ==
    /\ pc = "destroyApps" /\ pass.todo = {} /\ pass.any
    /\ EndPass(FALSE)
    /\ UNCHANGED <<stored, cache, kube, seen, juju, valid, budget>>

AppsRemain ==
    /\ pc = "destroyApps" /\ pass.todo = {} /\ pass.any
    /\ EndPass(TRUE)
    /\ UNCHANGED <<stored, cache, kube, seen, juju, valid, budget>>

DestroyModel ==
    /\ Call("destroyApps") /\ pass.todo = {} /\ ~pass.any
    /\ model' = "dying"
    /\ EndPass(TRUE)
    /\ UNCHANGED <<stored, cache, kube, seen, added, apps, exposed, related, valid,
                   budget>>

\* DestroyController takes the models along, but not by force.
DestroyController ==
    /\ Call("destroyController")
    /\ model' = IF model = "alive" THEN "dying" ELSE model
    /\ apps' = [a \in Apps |-> Doomed(apps[a], FALSE)]
    /\ \/ Goto("deleteSetup") /\ UNCHANGED budget
       \/ ReplyLost
    /\ UNCHANGED <<stored, cache, kube, seen, added, exposed, related, valid>>

\* Mutation: one deletion too many.
NextDeletionTooFar ==
    /\ pass' = [pass EXCEPT !.step = @ + 1]
    /\ pc' = IF pass.step <= Len(TeardownOrder) THEN pc ELSE "removeFinalizer"
    /\ UNCHANGED <<before, mem, queued>>

\* Mutation: the finalizer is left to the next pass.
NextDeletionThenRequeue ==
    IF pass.step < Len(TeardownOrder)
    THEN /\ pass' = [pass EXCEPT !.step = @ + 1]
         /\ UNCHANGED <<pc, before, mem, queued>>
    ELSE EndPass(TRUE)

\* deleteJujuControllerResources: the next object of the list, or the finalizer.
NextDeletion ==
    /\ pass' = [pass EXCEPT !.step = IF @ < Len(TeardownOrder) THEN @ + 1 ELSE @]
    /\ pc' = IF pass.step < Len(TeardownOrder) THEN pc ELSE "removeFinalizer"
    /\ UNCHANGED <<before, mem, queued>>

SkipMissing ==
    /\ pc = "deleteSetup" /\ TeardownOrder[pass.step] \notin seen
    /\ LookAt({TeardownOrder[pass.step]}) /\ NextDeletion
    /\ UNCHANGED <<stored, cache, kube, seen, juju, valid>>

\* A namespace lingers until all its contents are gone.
Without(fact) == CASE fact = "job"       -> kube \ {"job", "succeeded"}
                   [] fact = "config"    -> kube \ {"config", "malformed"}
                   [] fact = "namespace" -> kube \cup {"terminating"}
                   [] OTHER              -> kube \ {fact}

DeleteObject ==
    /\ pc = "deleteSetup" /\ TeardownOrder[pass.step] \in seen \cap kube
    /\ kube' = Without(TeardownOrder[pass.step])
    /\ \/ NextDeletion /\ UNCHANGED budget
       \/ EndPass(TRUE) /\ Spend("api")
    /\ UNCHANGED <<stored, cache, seen, juju, valid>>

\* The request fails, or the object is gone since the cache was filled.
DeleteRefused ==
    /\ pc = "deleteSetup" /\ TeardownOrder[pass.step] \in seen
    /\ Spend(IF TeardownOrder[pass.step] \in kube THEN "api" ELSE "stale")
    /\ EndPass(TRUE)
    /\ UNCHANGED <<stored, cache, kube, seen, juju, valid>>

RemoveFinalizer ==
    /\ pc = "removeFinalizer"
    /\ Update(before \ {"finalizer"})
    /\ \/ EndPass(FALSE) /\ UNCHANGED budget
       \/ EndPass(TRUE) /\ Spend("api")
    /\ UNCHANGED <<cache, kube, seen, juju, valid>>

--------------------------------------------------------------------------------
(* Setup of the registration string, the cloud, the credential, the model  *)

RegistrationFound ==
    /\ pc = "register" /\ "registration" \in seen
    /\ LookAt({"registration"}) /\ Goto("cloud")
    /\ UNCHANGED <<stored, cache, kube, seen, juju, valid>>

\* Mutation: the secret is not looked for.
ResetPasswordAlways ==
    /\ Call("register")
    /\ valid' = FALSE
    /\ Goto("storeString") /\ UNCHANGED budget
    /\ UNCHANGED <<stored, cache, kube, seen, juju>>

\* Every reset makes the string issued before it worthless.
ResetPassword ==
    /\ Call("register") /\ "registration" \notin seen
    /\ valid' = FALSE
    /\ \/ LookAt({"registration"}) /\ Goto("storeString")
       \/ "registration" \notin kube /\ ReplyLost
    /\ UNCHANGED <<stored, cache, kube, seen, juju>>

StoreString ==
    /\ pc = "storeString" /\ "registration" \notin kube
    /\ kube' = kube \cup {"registration"} /\ valid' = TRUE
    /\ \/ Goto("cloud") /\ UNCHANGED budget
       \/ EndPass(TRUE) /\ Spend("api")
    /\ UNCHANGED <<stored, cache, seen, juju>>

StoreRefused ==
    /\ pc = "storeString"
    /\ SpendIf("registration" \notin kube, "api")
    /\ EndPass(TRUE)
    /\ UNCHANGED <<stored, cache, kube, seen, juju, valid>>

CloudFound ==
    /\ Call("cloud") /\ "cloud" \in added
    /\ Goto(IF NeedsCredential THEN "credential" ELSE "model")
    /\ UNCHANGED <<stored, cache, kube, seen, juju, valid, budget>>

AddCloud ==
    /\ Call("cloud") /\ "cloud" \notin added
    /\ added' = added \cup {"cloud"}
    /\ TryAgain /\ UNCHANGED budget
    /\ UNCHANGED <<stored, cache, kube, seen, model, apps, exposed, related, valid>>

\* A parse error is only logged, and the nil result dereferenced.
CredentialUnparsed ==
    /\ pc = "credential" /\ pass.unparsable
    /\ Goto("panicked")
    /\ UNCHANGED <<stored, cache, kube, seen, juju, valid, budget>>

CredentialFound ==
    /\ Call("credential") /\ ~pass.unparsable /\ "credential" \in added
    /\ Goto("model")
    /\ UNCHANGED <<stored, cache, kube, seen, juju, valid, budget>>

AddCredential ==
    /\ Call("credential") /\ ~pass.unparsable /\ "credential" \notin added
    /\ added' = added \cup {"credential"}
    /\ TryAgain
    /\ UNCHANGED <<stored, cache, kube, seen, model, apps, exposed, related, valid,
                   budget>>

CreateModel ==
    /\ Call("model") /\ model = "absent"
    /\ model' = "alive"
    /\ \/ Goto("constrain") /\ UNCHANGED budget
       \/ ReplyLost
    /\ UNCHANGED <<stored, cache, kube, seen, added, apps, exposed, related, valid>>

\* A request of its own, on a connection to the new model.
SetConstraints ==
    /\ Call("constrain")
    /\ added' = added \cup {"constraints"}
    /\ TryAgain
    /\ UNCHANGED <<stored, cache, kube, seen, model, apps, exposed, related, valid,
                   budget>>

\* The model's UUID; from here on the status patch is deferred.
ModelFound ==
    /\ Call("model") /\ model # "absent"
    /\ pc' = "apps" /\ pass' = [pass EXCEPT !.todo = Apps]
    /\ UNCHANGED <<object, kube, seen, before, mem, juju, valid, budget>>

--------------------------------------------------------------------------------
(* Applications, integrations, the endpoint, and readiness                 *)

AppFound(a) ==
    /\ Call("apps") /\ a \in pass.todo /\ apps[a] # "absent"
    /\ pass' = [pass EXCEPT !.todo = @ \ {a}]
    /\ UNCHANGED <<object, kube, seen, pc, before, mem, juju, valid, budget>>

\* Mutation: an application is deployed and not exposed.
CreateAppHidden(a) ==
    /\ Call("apps") /\ a \in pass.todo /\ apps[a] = "absent"
    /\ apps' = [apps EXCEPT ![a] = "deployed"]
    /\ pass' = [pass EXCEPT !.todo = @ \ {a}, !.any = TRUE]
    /\ UNCHANGED <<object, kube, seen, pc, before, mem, added, model, exposed,
                   related, valid, budget>>

\* CreateApplication up to the deployment.
CreateApp(a) ==
    /\ Call("apps") /\ a \in pass.todo /\ apps[a] = "absent"
    /\ apps' = [apps EXCEPT ![a] = "deployed"]
    /\ \/ /\ pass' = [pass EXCEPT !.todo = @ \ {a}, !.any = TRUE,
                                  !.bare = {a} \cap ExposedApps]
          /\ pc' = IF a \in ExposedApps THEN "expose" ELSE "apps"
          /\ UNCHANGED <<before, mem, queued, budget>>
       \/ ReplyLost
    /\ UNCHANGED <<stored, cache, kube, seen, added, model, exposed, related, valid>>

\* processExpose: the same, with a request of its own.
Expose ==
    /\ Call("expose")
    /\ exposed' = exposed \cup pass.bare
    /\ \/ /\ pass' = [pass EXCEPT !.bare = {}] /\ pc' = "apps"
          /\ UNCHANGED <<before, mem, queued, budget>>
       \/ ReplyLost
    /\ UNCHANGED <<stored, cache, kube, seen, added, model, apps, related, valid>>

AppsChecked ==
    /\ pc = "apps" /\ pass.todo = {}
    /\ IF pass.any THEN Goto("patch")
       ELSE /\ pc' = "integrations" /\ pass' = [pass EXCEPT !.todo = Integrations]
            /\ UNCHANGED <<before, mem, queued>>
    /\ UNCHANGED <<stored, cache, kube, seen, juju, valid, budget>>

IntegrationFound(i) ==
    /\ Call("integrations") /\ i \in pass.todo /\ i \in related
    /\ pass' = [pass EXCEPT !.todo = @ \ {i}]
    /\ UNCHANGED <<object, kube, seen, pc, before, mem, juju, valid, budget>>

\* AddRelation, whose answer is followed by another status request.
CreateIntegration(i) ==
    /\ Call("integrations") /\ i \in pass.todo \ related
    /\ \A a \in i : apps[a] \in {"deployed", "active", "error"}
    /\ related' = related \cup {i}
    /\ \/ /\ pass' = [pass EXCEPT !.todo = @ \ {i}, !.any = TRUE]
          /\ UNCHANGED <<pc, before, mem, queued, budget>>
       \/ ReplyLost
    /\ UNCHANGED <<stored, cache, kube, seen, added, model, apps, exposed, valid>>

IntegrationsChecked ==
    /\ pc = "integrations" /\ pass.todo = {}
    /\ Goto(IF pass.any THEN "patch" ELSE "certificates")
    /\ UNCHANGED <<stored, cache, kube, seen, juju, valid, budget>>

\* AreApplicationUnitsActiveIdle, of easyrsa and then of the load balancer.
UnitsChecked ==
    /\ \/ Call("certificates") /\ Goto(IF apps[CertApp] = "active"
                                       THEN "balancer" ELSE "patch")
       \/ Call("balancer") /\ Goto(IF apps[BalancerApp] = "active"
                                   THEN "endpoint" ELSE "patch")
    /\ UNCHANGED <<stored, cache, kube, seen, juju, valid, budget>>

\* The leader's address becomes the control plane endpoint.
SetEndpoint ==
    /\ Call("endpoint") /\ "endpoint" \notin before
    /\ Update(before \cup {"endpoint", "written"})
    /\ mem' = before \cup {"endpoint", "written"}
    /\ pc' = "patch"
    /\ UNCHANGED <<cache, queued, kube, seen, before, pass, juju, valid, budget>>

\* The update is refused, but the deferred patch sends the endpoint after all.
EndpointRefused ==
    /\ Call("endpoint") /\ "endpoint" \notin before
    /\ SpendIf(stored = before, "conflict")
    /\ mem' = before \cup {"endpoint", "written"}
    /\ pc' = "patch"
    /\ UNCHANGED <<object, kube, seen, before, pass, juju, valid>>

\* Mutation: ready without an endpoint.
MarkReadyAtOnce ==
    /\ pc = "endpoint"
    /\ mem' = mem \cup {"ready"}
    /\ pc' = "patch"
    /\ UNCHANGED <<object, kube, seen, before, pass, juju, valid, budget>>

MarkReady ==
    /\ pc = "endpoint" /\ "endpoint" \in before
    /\ mem' = mem \cup {"ready"}
    /\ pc' = "patch"
    /\ UNCHANGED <<object, kube, seen, before, pass, juju, valid, budget>>

\* A merge patch of what the pass changed, without a look at the version.
Patch ==
    /\ pc = "patch" /\ "present" \in stored
    /\ stored' = stored \cup (mem \ before)
    /\ EndPass(TRUE)
    /\ UNCHANGED <<cache, kube, seen, juju, valid, budget>>

PatchFails ==
    /\ pc = "patch"
    /\ SpendIf("present" \in stored, "patch")
    /\ EndPass(TRUE)
    /\ UNCHANGED <<stored, cache, kube, seen, juju, valid>>

\* The process dies, by itself or by a panic, and starts again with fresh
\* caches and every JujuCluster in the queue.
Restart ==
    /\ SpendIf(pc # "panicked", "crash")
    /\ pc' = "idle" /\ before' = {} /\ mem' = {} /\ pass' = NoPass
    /\ cache' = stored /\ seen' = kube
    /\ queued' = ("present" \in stored)
    /\ UNCHANGED <<stored, kube, juju, valid>>

--------------------------------------------------------------------------------
(* The informers, users, Cluster API and the bootstrap job                 *)

\* An update event that does not change the generation is filtered out.
Observe ==
    /\ cache # stored
    /\ cache' = stored
    /\ queued' = (queued \/ Generation(cache) # Generation(stored))
    /\ UNCHANGED <<stored, kube, seen, local, juju, valid, budget>>

\* Of the other objects only the registration secret is watched.
ObserveOthers ==
    /\ seen # kube
    /\ seen' = kube
    /\ queued' = (queued \/ ("registration" \in seen) # ("registration" \in kube))
    /\ UNCHANGED <<stored, cache, kube, local, juju, valid, budget>>

SetOwner ==
    /\ "present" \in stored /\ "owned" \notin stored
    /\ stored' = stored \cup {"owned"}
    /\ UNCHANGED <<cache, queued, kube, seen, local, juju, valid, budget>>

Delete ==
    /\ "present" \in stored /\ "deleted" \notin stored
    /\ stored' = Collected(stored \cup {"deleted"})
    /\ UNCHANGED <<cache, queued, kube, seen, local, juju, valid, budget>>

ProvideCredential ==
    /\ NeedsCredential /\ "credential" \notin kube
    /\ \/ kube' = kube \cup {"credential"} /\ UNCHANGED budget
       \/ kube' = kube \cup {"credential", "unparsable"} /\ Spend("badSecret")
    /\ UNCHANGED <<object, seen, local, juju, valid>>

\* The job's shell script goes on after a failed command, so that a failed
\* bootstrap, like one that finds a controller of that name, ends in a secret
\* without controller data.  An existing secret fails the job.
RunJob ==
    /\ "job" \in kube /\ "succeeded" \notin kube /\ "config" \notin kube
    /\ \/ /\ "namespace" \notin kube
          /\ kube' = kube \cup {"succeeded", "config", "namespace"}
          /\ UNCHANGED budget
       \/ /\ SpendIf("namespace" \notin kube, "bootstrap")
          /\ kube' = kube \cup {"succeeded", "config", "malformed"}
    /\ UNCHANGED <<object, seen, local, juju, valid>>

NamespaceTerminates ==
    /\ "terminating" \in kube
    /\ kube' = kube \ {"namespace", "terminating"}
    /\ added' = {} /\ model' = "absent" /\ exposed' = {} /\ related' = {}
    /\ apps' = [a \in Apps |-> "absent"]
    /\ UNCHANGED <<object, seen, local, valid, budget>>

\* Garbage collection by the owner reference.
CollectRegistration ==
    /\ "present" \notin stored /\ "registration" \in kube
    /\ kube' = kube \ {"registration"}
    /\ UNCHANGED <<object, seen, local, juju, valid, budget>>

--------------------------------------------------------------------------------
(* Juju                                                                    *)

SetApp(a, state) ==
    /\ apps' = [apps EXCEPT ![a] = state]
    /\ UNCHANGED <<object, kube, seen, local, added, model, exposed, related, valid>>

AppSettles(a) ==
    /\ Reachable /\ a \in UnitApps /\ apps[a] = "deployed"
    /\ SetApp(a, "active") /\ UNCHANGED budget

UnitFails(a) ==
    /\ a \in UnitApps /\ apps[a] \in {"deployed", "active"}
    /\ SetApp(a, "error") /\ Spend("unitError")

UnitResolved(a) ==
    /\ apps[a] \in {"error", "stuck"}
    /\ SetApp(a, IF apps[a] = "error" THEN "active" ELSE "dying") /\ UNCHANGED budget

AppRemoved(a) ==
    /\ Reachable /\ apps[a] = "dying"
    /\ apps' = [apps EXCEPT ![a] = "absent"]
    /\ exposed' = exposed \ {a} /\ related' = {i \in related : a \notin i}
    /\ UNCHANGED <<object, kube, seen, local, added, model, valid, budget>>

ModelRemoved ==
    /\ Reachable /\ model = "dying" /\ \A a \in Apps : apps[a] = "absent"
    /\ model' = "absent" /\ added' = added \ {"constraints"}
    /\ UNCHANGED <<object, kube, seen, local, apps, exposed, related, valid, budget>>
--------------------------------------------------------------------------------
(* The specification                                                       *)

Worker ==
    \/ Forget \/ WaitForPrerequisites \/ StartBootstrap \/ WaitForJob
    \/ ConfigMissing \/ ConfigMalformed \/ Connect \/ CreateObject \/ CreateRefused
    \/ AddFinalizer \/ UpdateRefused \/ StartTeardown
    \/ StartSetup \/ CallFails
    \/ ModelQueryFails \/ ModelQueried \/ ModelRead \/ ListApps \/ AppsRemain
    \/ DestroyModel \/ DestroyController \/ SkipMissing \/ DeleteObject
    \/ DeleteRefused \/ RemoveFinalizer
    \/ RegistrationFound \/ ResetPassword \/ StoreString \/ StoreRefused
    \/ CloudFound \/ AddCloud \/ CredentialUnparsed \/ CredentialFound
    \/ AddCredential \/ CreateModel \/ SetConstraints \/ ModelFound \/ Expose \/ AppsChecked
    \/ IntegrationsChecked \/ UnitsChecked \/ SetEndpoint \/ EndpointRefused
    \/ MarkReady \/ Patch \/ PatchFails
    \/ \E a \in Apps : DestroyApp(a) \/ AppFound(a) \/ CreateApp(a)
    \/ \E i \in Integrations : IntegrationFound(i) \/ CreateIntegration(i)

Kubernetes ==
    \/ Observe \/ ObserveOthers \/ SetOwner \/ Delete \/ ProvideCredential
    \/ RunJob \/ NamespaceTerminates \/ CollectRegistration

Juju ==
    \/ ModelRemoved
    \/ \E a \in Apps : \/ AppSettles(a) \/ UnitFails(a) \/ UnitResolved(a)
                        \/ AppRemoved(a)

Next == Begin \/ Worker \/ Restart \/ Kubernetes \/ Juju

Spec == Init /\ [][Next]_vars

\* The worker takes a queued object in the end and carries its pass through, the
\* Deployment restarts a panicked process, the informers catch up, and users,
\* Cluster API, the job and Juju do their part.  Nobody has to delete the object
\* or to resolve an error.
Fairness ==
    /\ WF_vars(Worker) /\ SF_vars(Begin)
    /\ WF_vars(pc = "panicked" /\ Restart)
    /\ WF_vars(Observe) /\ WF_vars(ObserveOthers)
    /\ WF_vars(SetOwner) /\ WF_vars(ProvideCredential) /\ WF_vars(RunJob)
    /\ WF_vars(NamespaceTerminates) /\ WF_vars(ModelRemoved)
    /\ \A a \in Apps : WF_vars(AppSettles(a)) /\ WF_vars(AppRemoved(a))

FairSpec == Spec /\ Fairness

--------------------------------------------------------------------------------
(* Properties                                                              *)

ObjectTyped ==
    /\ stored \subseteq ObjectFacts /\ cache \subseteq ObjectFacts
    /\ queued \in BOOLEAN
    /\ kube \subseteq KubeFacts /\ seen \subseteq KubeFacts

PassTyped ==
    /\ pc \in Steps
    /\ before \subseteq ObjectFacts /\ mem \subseteq ObjectFacts
    /\ pass \in Pass

JujuTyped ==
    /\ added \subseteq {"cloud", "credential", "constraints"}
    /\ model \in {"absent", "alive", "dying"}
    /\ apps \in [Apps -> AppStates]
    /\ exposed \subseteq Apps /\ related \subseteq Integrations
    /\ valid \in BOOLEAN

\* Every variable has its type.
TypeOK == ObjectTyped /\ PassTyped /\ JujuTyped /\ budget \in [FaultKinds -> Nat]

\* No fault of these kinds has happened so far.
Spared(kinds) == \A k \in kinds : budget[k] = FaultBudget[k]

Rising(a) == apps[a] = "absent" /\ apps'[a] # "absent"

\* Nothing is made in Juju, and no registration string is handed out, but for an
\* object that carries the finalizer in the API server at that moment: whatever
\* the caches say, its deletion has to come back here.
BuildsUnderFinalizer ==
    [][\/ ~(added' \subseteq added) \/ ~(related' \subseteq related)
       \/ model = "absent" /\ model' = "alive"
       \/ "registration" \in kube' \ kube \/ \E a \in Apps : Rising(a)
       => {"present", "finalizer"} \subseteq stored]_vars

\* An object becomes ready only when, at that moment, all its applications and
\* integrations exist in a model that is alive and its endpoint is stored,
\* although all of them were looked at one by one in earlier steps.
ReadyWhenComplete ==
    []["ready" \in stored' \ stored =>
          /\ model = "alive" /\ Integrations \subseteq related
          /\ \A a \in Apps : apps[a] # "absent"
          /\ "endpoint" \in stored]_vars

\* The finalizer goes only after everything the controller has created in
\* Kubernetes ("deleting juju controller resources"): the bootstrap objects and
\* the config secret are gone, and the Juju controller's namespace terminates.
\* Only an outdated cache makes it skip an object.
ReleasesAll ==
    [][/\ {"present", "finalizer"} \subseteq stored /\ "present" \notin stored'
       /\ Spared({"stale"})
       => /\ kube \cap SetupObjects = {}
          /\ "namespace" \in kube => "terminating" \in kube]_vars

\* The registration string in the secret is the one Juju issued last, so that
\* "juju register" accepts it, whatever fails between the reset and the secret.
\* A cache that does not show the secret yet makes a pass reset it once more.
RegistrationValid ==
    "registration" \in kube /\ "present" \in stored /\ Spared({"stale"}) => valid

\* The model is asked to go only once all its applications have gone: with the
\* last of them still there, the pass ends before DestroyModel.  But a failed
\* query for the model is taken for its absence.
EmptiedFirst ==
    [][model = "alive" /\ model' = "dying" /\ Spared({"call"})
       => \A a \in Apps : apps[a] = "absent"]_vars

OtherThanJuju == FaultKinds \ {"call", "reply", "unitError"}

\* A bootstrap job is created only while there is no Juju controller: as long as
\* only Juju fails, an absent job stands for an absent controller.
OneController ==
    [][Spared(OtherThanJuju) =>
          ("job" \in kube' \ kube => "namespace" \notin kube)]_vars

\* No pass panics as long as only Juju fails: the job then always leaves a config
\* secret with controller data in it.
NoPanic == Spared(OtherThanJuju) => pc # "panicked"

\* Between passes an object that the informer shows as it is and that is not
\* done with is in the queue: no return without a requeue leaves it behind.  Only
\* an interrupted deletion of the bootstrap objects, or a pass that starts from
\* an outdated cache, ends in one that does; and the update that adds the
\* finalizer comes back only because it adds the endpoint to a spec without one.
NeverForgotten ==
    /\ pc = "idle" /\ "present" \in stored /\ cache = stored
    /\ Spared({"stale", "crash", "api"}) /\ ~EndpointWritten
    => queued

\* The faults that can come between the two requests of a creation, as often as they
\* have happened.
Interruptions == LET spent(k) == FaultBudget[k] - budget[k]
                 IN  spent("call") + spent("reply") + spent("crash")
Unconstrained == IF "constraints" \in added THEN 0 ELSE 1

\* A creation that is cut off between its two requests, which later passes take for
\* done, is the only way to a ready cluster that is not as specified: not more
\* applications lack their exposure, or the model its constraints, than there were
\* failed requests, lost answers and restarts.
AsSpecified ==
    "ready" \in stored /\ "deleted" \notin stored =>
        Cardinality(ExposedApps \ exposed) + Unconstrained <= Interruptions

Ended(o)    == o = {} \/ "deleted" \in o
Building(o) == "finalizer" \in o /\ "deleted" \notin o

\* What is at work in Juju, and not on its way out.
LiveApps      == {a \in Apps : apps[a] \in {"deployed", "active", "error"}}
LiveRelations == {i \in related : i \subseteq LiveApps}

\* A cluster is being built as long as a pass may begin, or goes on, that has not read
\* of the deletion.
Phase == IF stored = {} THEN "released"
         ELSE IF "finalizer" \notin stored THEN "waiting"
         ELSE IF ~Ended(cache) \/ Building(before) THEN "building" ELSE "closing"

Lifecycle == INSTANCE ControllerLifecycle WITH
    phase <- Phase, model <- (model = "alive"),
    apps <- LiveApps, relations <- LiveRelations

\* Whatever fails, is outdated or restarts, and although every pass knows no more than
\* a copy of the object: nothing is taken away until no pass builds any more, nothing
\* is built from then on, and the finalizer goes only when nothing is left at work.
ImplementsLifecycle == Lifecycle!Spec

\* The Juju controller's namespace is deleted only after the model is gone
\* ("model is being destroyed, requeueing").
ModelGoneFirst ==
    []["terminating" \in kube' \ kube => model = "absent"]_vars

\* An application is removed by force only if one of its units is in error
\* ("was in error state, will be using forced removal").
ForcedOnlyInError ==
    [][\A a \in LiveApps : pc = "destroyApps" /\ apps'[a] = "dying" /\ InError(a)
          => apps[a] = "error"]_vars

\* A JujuCluster that is gone has left nothing behind ("the controller will
\* clean up after itself and remove the resource dependencies it created").
NothingLeft == "present" \notin stored => kube \cap SetupObjects = {}

\* "Eventually it should create a model, deploy charms, and create integrations.
\* Once the necessary charms have come up, the cluster will be marked as ready."
Provisioned == <>("ready" \in stored \/ "deleted" \in stored
                  \/ "present" \notin stored)

\* A deleted object goes away in the end.
DeletionCompletes == "deleted" \in stored ~> "present" \notin stored

================================================================================
