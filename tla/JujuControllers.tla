---------------------------- MODULE JujuControllers ----------------------------
(***************************************************************************)
(* Several JujuClusters side by side (controllers/jujucluster_controller.go). *)
(* Each is bootstrapped with Kubernetes objects of its own and a Juju      *)
(* controller of its own, but they share one worker and two kinds of names *)
(* that carry no namespace: that of the cluster role binding, and that of  *)
(* the Juju controller's Kubernetes namespace, which teardown finds by a   *)
(* part of it.                                                             *)
(*                                                                         *)
(* JujuCluster has the whole pass over one object; here is what one pass   *)
(* may do to another's objects.  Simplifications:                          *)
(*   - what is set up in Juju once the finalizer is there is one step, and *)
(*     so is what empties and destroys the Juju controller;                *)
(*   - caches are fresh, owners and credentials are there, and the reads   *)
(*     at the start of a pass are one step;                                *)
(*   - an owner Cluster has one JujuCluster, as Cluster API demands, so    *)
(*     that no two read the same config secret;                            *)
(*   - no JujuCluster is created again during a pass over its predecessor. *)
(***************************************************************************)
EXTENDS Naturals, Sequences

CONSTANTS
    Clusters,     \* JujuClusters, each with a namespace and a name
    Names,        \* names of JujuClusters
    Name,         \* the name of each
    Found,        \* Found[n]: the names m with "controller-n" in the name of the
                  \* Kubernetes namespace of m's Juju controller
    Nobody,       \* instead of a JujuCluster
    MaxCreations, \* bound: how often each is created
    MaxFaults     \* bound: failed requests, failed bootstraps and crashes

ASSUME NamesAssumption ==
    /\ Name \in [Clusters -> Names]
    /\ Found \in [Names -> SUBSET Names] /\ \A n \in Names : n \in Found[n]
ASSUME NobodyAssumption == Nobody \notin Clusters
ASSUME BoundsAssumption == MaxCreations \in [Clusters -> Nat] /\ MaxFaults \in Nat

VARIABLES
    facts,       \* what holds of each JujuCluster in the API server
    queued,      \* JujuClusters in the work queue
    kube,        \* the objects in its namespace that belong to each
    binding,     \* whom the cluster role binding of that name is for
    tenant,      \* whose job has bootstrapped the Juju controller of that name
    terminating, \* names of controllers whose namespace is going away
    pc,          \* what the worker does next
    cur,         \* the JujuCluster of the pass
    before,      \* what the pass has read of it
    step,        \* place in the list of objects to create or delete
    doomed,      \* controller namespaces that the pass has yet to delete
    created,     \* how often each JujuCluster has been created
    faults       \* how many faults there were

shared == <<binding, tenant, terminating>>
pass   == <<pc, cur, before, step, doomed>>
vars   == <<facts, queued, kube, binding, tenant, terminating, pc, cur, before,
            step, doomed, created, faults>>

SetupOrder    == <<"serviceAccount", "roleBinding", "tokenSecret", "job">>
TeardownOrder == <<"tokenSecret", "config", "roleBinding", "serviceAccount", "job">>

ObjectFacts == {"present", "deleted", "finalizer"}
KubeFacts == {"serviceAccount", "tokenSecret", "job", "config",
              "succeeded",  \* the job has
              "malformed"}  \* the config secret has no controller data in it

Init ==
    /\ facts = [c \in Clusters |-> {}] /\ queued = {}
    /\ kube = [c \in Clusters |-> {}]
    /\ binding = [n \in Names |-> Nobody] /\ tenant = [n \in Names |-> Nobody]
    /\ terminating = {}
    /\ pc = "idle" /\ cur = Nobody /\ before = {} /\ step = 1 /\ doomed = {}
    /\ created = [c \in Clusters |-> 0] /\ faults = 0

--------------------------------------------------------------------------------
(* Starting and ending a pass                                              *)

Fault == faults < MaxFaults /\ faults' = faults + 1

EndPass(again) ==
    /\ pc' = "idle" /\ cur' = Nobody /\ before' = {} /\ step' = 1 /\ doomed' = {}
    /\ queued' = IF again THEN queued \cup {cur} ELSE queued

Begin(c, next) ==
    /\ pc = "idle" /\ c \in queued /\ "present" \in facts[c]
    /\ queued' = queued \ {c}
    /\ pc' = next /\ cur' = c /\ before' = facts[c]
    /\ UNCHANGED <<facts, kube, shared, step, doomed, created, faults>>

\* Without a new pass: the object is gone, or the config secret is missing and
\* that is reported with the nil error of the read.
Drop(c) ==
    /\ pc = "idle" /\ c \in queued
    /\ \/ "present" \notin facts[c]
       \/ {"job", "succeeded"} \subseteq kube[c] /\ "config" \notin kube[c]
    /\ queued' = queued \ {c}
    /\ UNCHANGED <<facts, kube, shared, pass, created, faults>>

StartBootstrap(c) == "job" \notin kube[c] /\ Begin(c, "create")

\* Mutation: the result does not ask for another pass.
WaitForJobEvent(c) ==
    /\ pc = "idle" /\ c \in queued /\ "present" \in facts[c]
    /\ "job" \in kube[c] /\ "succeeded" \notin kube[c]
    /\ queued' = queued \ {c}
    /\ UNCHANGED <<facts, kube, shared, pass, created, faults>>

\* While the job runs, and while the finalizer is there and no deletion, each pass
\* asks for the next and changes nothing here.
WaitForJob(c) ==
    /\ pc = "idle" /\ c \in queued /\ "present" \in facts[c]
    /\ "job" \in kube[c] /\ "succeeded" \notin kube[c]
    /\ UNCHANGED vars

Serve(c) ==
    /\ pc = "idle" /\ c \in queued /\ {"present", "finalizer"} \subseteq facts[c]
    /\ "deleted" \notin facts[c]
    /\ {"job", "succeeded", "config"} \subseteq kube[c] /\ "malformed" \notin kube[c]
    /\ UNCHANGED vars

\* split[1] of data without ":\n" is out of range.
ConfigMalformed(c) ==
    {"job", "succeeded", "config", "malformed"} \subseteq kube[c] /\ Begin(c, "panicked")

Connect(c) ==
    /\ {"job", "succeeded", "config"} \subseteq kube[c] /\ "malformed" \notin kube[c]
    /\ \/ "finalizer" \notin facts[c] /\ Begin(c, "addFinalizer")
       \/ {"deleted", "finalizer"} \subseteq facts[c] /\ Begin(c, "destroy")

--------------------------------------------------------------------------------
(* createJujuControllerResources, deleteJujuControllerResources            *)

Exists(kind, c) == IF kind = "roleBinding" THEN binding[Name[c]] # Nobody
                                           ELSE kind \in kube[c]

\* Mutation: a binding that exists already is taken over.
CreateOrAdopt ==
    /\ pc = "create"
    /\ IF SetupOrder[step] = "roleBinding"
       THEN binding' = [binding EXCEPT ![Name[cur]] = cur] /\ UNCHANGED kube
       ELSE kube' = [kube EXCEPT ![cur] = @ \cup {SetupOrder[step]}] /\ UNCHANGED binding
    /\ IF step < Len(SetupOrder)
       THEN step' = step + 1 /\ UNCHANGED <<pc, cur, before, doomed, queued>>
       ELSE EndPass(TRUE)
    /\ UNCHANGED <<facts, tenant, terminating, created, faults>>

CreateObject ==
    /\ pc = "create" /\ ~Exists(SetupOrder[step], cur)
    /\ IF SetupOrder[step] = "roleBinding"
       THEN binding' = [binding EXCEPT ![Name[cur]] = cur] /\ UNCHANGED kube
       ELSE kube' = [kube EXCEPT ![cur] = @ \cup {SetupOrder[step]}] /\ UNCHANGED binding
    /\ IF step < Len(SetupOrder)
       THEN step' = step + 1 /\ UNCHANGED <<pc, cur, before, doomed, queued>>
       ELSE EndPass(TRUE)
    /\ UNCHANGED <<facts, tenant, terminating, created, faults>>

\* An object that exists already is an error like any other.
CreateRefused ==
    /\ pc = "create" /\ Exists(SetupOrder[step], cur) /\ EndPass(TRUE)
    /\ UNCHANGED <<facts, kube, shared, created, faults>>

\* The API server removes a deleted object with its last finalizer.
Collected(o) == IF "deleted" \in o /\ "finalizer" \notin o THEN {} ELSE o

\* r.Update, whose event brings the object back; as an error does if somebody has
\* changed the object in the meantime.
Update(o) ==
    /\ facts' = IF facts[cur] = before THEN [facts EXCEPT ![cur] = Collected(o)]
                                       ELSE facts
    /\ EndPass(TRUE)
    /\ UNCHANGED <<kube, shared, created, faults>>

AddFinalizer    == pc = "addFinalizer" /\ Update(before \cup {"finalizer"})
\* Mutation: the finalizer is left to the next pass.
RemoveFinalizerLater ==
    pc = "release" /\ EndPass(TRUE) /\ UNCHANGED <<facts, kube, shared, created, faults>>
RemoveFinalizer == pc = "release" /\ Update(before \ {"finalizer"})

\* The Juju controller that c has had bootstrapped answers it.
Serving(c) ==
    /\ "config" \in kube[c] /\ "malformed" \notin kube[c]
    /\ tenant[Name[c]] = c /\ Name[c] \notin terminating

\* Mutation: the controller's namespace is found by any part of any name.
ListEveryNamespace ==
    /\ pc = "destroy" /\ Serving(cur)
    /\ pc' = "delete"
    /\ doomed' = {n \in Names : tenant[n] # Nobody}
    /\ UNCHANGED <<facts, queued, kube, shared, cur, before, step, created, faults>>

\* The Juju controller is destroyed, and then every namespace listed whose name
\* contains the name looked for.
DestroyController ==
    /\ pc = "destroy" /\ Serving(cur)
    /\ pc' = "delete"
    /\ doomed' = {n \in Found[Name[cur]] : tenant[n] # Nobody}
    /\ UNCHANGED <<facts, queued, kube, shared, cur, before, step, created, faults>>

DestroyFails ==
    /\ pc = "destroy" /\ ~Serving(cur) /\ EndPass(TRUE)
    /\ UNCHANGED <<facts, kube, shared, created, faults>>

Without(kind, o) == CASE kind = "job"    -> o \ {"job", "succeeded"}
                      [] kind = "config" -> o \ {"config", "malformed"}
                      [] OTHER           -> o \ {kind}

\* The next object of the list, if it is there.
DeleteObject ==
    /\ pc = "delete" /\ step <= Len(TeardownOrder)
    /\ IF TeardownOrder[step] = "roleBinding"
       THEN binding' = [binding EXCEPT ![Name[cur]] = Nobody] /\ UNCHANGED kube
       ELSE /\ kube' = [kube EXCEPT ![cur] = Without(TeardownOrder[step], @)]
            /\ UNCHANGED binding
    /\ step' = step + 1
    /\ UNCHANGED <<facts, queued, tenant, terminating, pc, cur, before, doomed,
                   created, faults>>

\* The namespaces come last.  Each lingers until its contents are gone.
DeleteNamespace(n) ==
    /\ pc = "delete" /\ step > Len(TeardownOrder) /\ n \in doomed
    /\ terminating' = IF tenant[n] # Nobody THEN terminating \cup {n} ELSE terminating
    /\ doomed' = doomed \ {n}
    /\ UNCHANGED <<facts, queued, kube, binding, tenant, pc, cur, before, step,
                   created, faults>>

AllDeleted ==
    /\ pc = "delete" /\ step > Len(TeardownOrder) /\ doomed = {}
    /\ pc' = "release"
    /\ UNCHANGED <<facts, queued, kube, shared, cur, before, step, doomed, created,
                   faults>>

\* A request fails and has changed nothing.  One that is done although its answer
\* is lost is done first and fails with the next.
RequestFails ==
    /\ pc \in {"create", "addFinalizer", "destroy", "delete", "release"}
    /\ Fault /\ EndPass(TRUE)
    /\ UNCHANGED <<facts, kube, shared, created>>

\* The process dies, by itself or by a panic, and starts again with every
\* JujuCluster in the queue.
Restart ==
    /\ \/ pc = "panicked" /\ UNCHANGED faults
       \/ pc \notin {"idle", "panicked"} /\ Fault
    /\ pc' = "idle" /\ cur' = Nobody /\ before' = {} /\ step' = 1 /\ doomed' = {}
    /\ queued' = {c \in Clusters : "present" \in facts[c]}
    /\ UNCHANGED <<facts, kube, shared, created>>

--------------------------------------------------------------------------------
(* Users, the bootstrap jobs, Kubernetes                                   *)

\* For the first time, or once more after its deletion.
Create(c) ==
    /\ facts[c] = {} /\ c # cur /\ created[c] < MaxCreations[c]
    /\ facts' = [facts EXCEPT ![c] = {"present"}]
    /\ created' = [created EXCEPT ![c] = @ + 1]
    /\ queued' = queued \cup {c}
    /\ UNCHANGED <<kube, shared, pass, faults>>

Delete(c) ==
    /\ "present" \in facts[c] /\ "deleted" \notin facts[c]
    /\ facts' = [facts EXCEPT ![c] = Collected(@ \cup {"deleted"})]
    /\ queued' = queued \cup {c}
    /\ UNCHANGED <<kube, shared, pass, created, faults>>

\* Mutation: the job makes do with a controller of that name.
RunJobAnyway(c) ==
    /\ {"job", "serviceAccount"} \subseteq kube[c] /\ binding[Name[c]] = c
    /\ kube[c] \cap {"succeeded", "config"} = {}
    /\ kube' = [kube EXCEPT ![c] = @ \cup {"succeeded", "config"}]
    /\ tenant' = [tenant EXCEPT ![Name[c]] = IF @ = Nobody THEN c ELSE @]
    /\ UNCHANGED <<facts, queued, binding, terminating, pass, created, faults>>

\* The script of the job goes on after a failed command: without a bootstrap, for
\* there is a controller of that name, it stores a secret without data.  It needs
\* the rights that the binding gives to the service account.
RunJob(c) ==
    /\ {"job", "serviceAccount"} \subseteq kube[c] /\ binding[Name[c]] = c
    /\ kube[c] \cap {"succeeded", "config"} = {}
    /\ \/ /\ tenant[Name[c]] = Nobody
          /\ kube' = [kube EXCEPT ![c] = @ \cup {"succeeded", "config"}]
          /\ tenant' = [tenant EXCEPT ![Name[c]] = c]
          /\ UNCHANGED faults
       \/ /\ IF tenant[Name[c]] = Nobody THEN Fault ELSE UNCHANGED faults
          /\ kube' = [kube EXCEPT ![c] = @ \cup {"succeeded", "config", "malformed"}]
          /\ UNCHANGED tenant
    /\ UNCHANGED <<facts, queued, binding, terminating, pass, created>>

NamespaceTerminates(n) ==
    /\ n \in terminating
    /\ terminating' = terminating \ {n} /\ tenant' = [tenant EXCEPT ![n] = Nobody]
    /\ UNCHANGED <<facts, queued, kube, binding, pass, created, faults>>

--------------------------------------------------------------------------------
(* The specification                                                       *)

Starts(c) == \/ StartBootstrap(c) \/ WaitForJob(c) \/ ConfigMalformed(c)
             \/ Connect(c) \/ Serve(c) \/ Drop(c)

Worker == \/ CreateObject \/ CreateRefused \/ AddFinalizer
          \/ DestroyController \/ DestroyFails \/ DeleteObject \/ AllDeleted
          \/ RemoveFinalizer
          \/ \E n \in Names : DeleteNamespace(n)

Next == \/ Worker \/ RequestFails \/ Restart
        \/ \E c \in Clusters : Starts(c) \/ Create(c) \/ Delete(c) \/ RunJob(c)
        \/ \E n \in Names : NamespaceTerminates(n)

Spec == Init /\ [][Next]_vars

\* The queue is first in, first out; jobs and terminations come to an end.  A
\* panicked process is started again.
Fairness ==
    /\ WF_vars(Worker) /\ WF_vars(pc = "panicked" /\ Restart)
    /\ \A c \in Clusters : SF_vars(Starts(c)) /\ WF_vars(RunJob(c))
    /\ \A n \in Names : WF_vars(NamespaceTerminates(n))

FairSpec == Spec /\ Fairness

--------------------------------------------------------------------------------
(* Properties                                                              *)

\* Every variable has its type.
TypeOK ==
    /\ facts \in [Clusters -> SUBSET ObjectFacts] /\ queued \subseteq Clusters
    /\ kube \in [Clusters -> SUBSET KubeFacts]
    /\ binding \in [Names -> Clusters \cup {Nobody}]
    /\ tenant \in [Names -> Clusters \cup {Nobody}] /\ terminating \subseteq Names
    /\ pc \in {"idle", "create", "addFinalizer", "destroy", "delete", "release",
               "panicked"}
    /\ cur \in Clusters \cup {Nobody} /\ before \subseteq ObjectFacts
    /\ step \in 1..6 /\ (pc = "create" => step \in DOMAIN SetupOrder) /\ doomed \subseteq Names
    /\ created \in [Clusters -> Nat] /\ faults \in 0..MaxFaults

\* Nobody else may find c's Juju controller by its name.
Apart(c) == \A d \in Clusters \ {c} : Name[c] \notin Found[Name[d]]

\* The binding that gives the bootstrap job its rights is the one made for the
\* job's own cluster, although its name carries no namespace: until the teardown
\* of that cluster has begun, no namesake creates or removes it, wherever a
\* series of creations or deletions has been cut off.
BindingOfItsOwn ==
    \A c \in Clusters : "job" \in kube[c] /\ ~("deleted" \in facts[c])
                           => binding[Name[c]] = c

\* The controller data that a JujuCluster reads are never those of a controller
\* that another one has had bootstrapped, in a namespace of the same name.
NeverShared ==
    \A c \in Clusters : "config" \in kube[c] /\ "malformed" \notin kube[c]
                           => tenant[Name[c]] \in {c, Nobody}

\* A Juju controller at the service of a JujuCluster goes away only by the
\* teardown of that one, or of one whose name is found in its namespace's.
SparesOthers ==
    [][\A c \in Clusters : Serving(c) /\ ~Serving(c)' =>
          \E d \in Clusters : /\ {"deleted", "finalizer"} \subseteq facts[d]
                              /\ Name[c] \in Found[Name[d]]]_vars

\* A Juju controller at the service of a JujuCluster goes away only by the
\* teardown of that one ("the controller will clean up after itself and remove
\* the resource dependencies it created").
OnlyItsOwn ==
    [][\A c \in Clusters : Serving(c) /\ ~Serving(c)' => "deleted" \in facts[c]]_vars

\* No pass panics as long as nothing fails and no name is used twice: a job that
\* finds a controller of its name stores controller data that cannot be split.
NoPanic ==
    /\ faults = 0
    /\ \A c, d \in Clusters : created[c] > 0 /\ created[d] > 0 /\ Name[c] = Name[d]
                                 => c = d /\ created[c] = 1
    => pc # "panicked"

\* Whatever happens to the others, a JujuCluster with a name of its own is served
\* by its controller in the end, unless it is deleted or created twice, something
\* fails, or a panic of another's pass takes the worker away.
Served ==
    \A c \in Clusters : Apart(c) =>
        ("present" \in facts[c] ~>
            \/ Serving(c) /\ "finalizer" \in facts[c]
            \/ "deleted" \in facts[c] \/ "present" \notin facts[c]
            \/ created[c] > 1 \/ faults > 0 \/ pc = "panicked")

\* Whatever happens to the others, a deleted JujuCluster with the finalizer and a
\* name of its own goes away in the end, unless something fails or a panic of
\* another's pass takes the worker away.
TornDown ==
    \A c \in Clusters : Apart(c) =>
        ({"deleted", "finalizer"} \subseteq facts[c] ~>
            "present" \notin facts[c] \/ faults > 0 \/ pc = "panicked")

================================================================================
