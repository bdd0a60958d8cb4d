------------------------- MODULE JujuControllersProofs -------------------------
(***************************************************************************)
(* Theorems about JujuControllers, for any number of JujuClusters, however *)
(* they share their names, and any number of faults.                       *)
(***************************************************************************)
EXTENDS JujuControllers, TLAPS

(***************************************************************************)
(* The inductive invariant.  A name has one cluster role binding, and the  *)
(* rights that it gives are what it takes to bootstrap a Juju controller:  *)
(* as long as a JujuCluster has controller data, the binding is its own.   *)
(***************************************************************************)
\* The place in a list of objects is looked at by two kinds of pass only.
Places == /\ pc \notin {"create", "delete", "release"} => step = 1
          /\ pc # "idle" => cur \in Clusters

\* The controller data are there only while the job that stored them is.
Stored == \A c \in Clusters : /\ "config" \in kube[c] => "succeeded" \in kube[c]
                              /\ "succeeded" \in kube[c] => "job" \in kube[c]

\* Where a binding is known to be the cluster's own.
Data(c) == "config" \in kube[c] /\ "malformed" \notin kube[c]
Bound == /\ \A c \in Clusters : Data(c) => binding[Name[c]] = c
         /\ pc = "create" /\ step > 2 => binding[Name[cur]] = cur
         /\ pc = "delete" /\ step <= 3 => binding[Name[cur]] = cur

\* A pass that creates found no job; one that tears down has read a deletion that
\* nobody takes back, takes the data first and the job last, and finds its own
\* namespaces only.
Creating == pc = "create" => "job" \notin kube[cur]
TearingDown ==
    /\ pc = "addFinalizer" => "present" \in before /\ "finalizer" \notin before
    /\ pc \in {"destroy", "delete", "release"} =>
          /\ facts[cur] = before /\ {"deleted", "finalizer"} \subseteq before
    /\ pc = "delete" /\ step <= 5 => {"job", "succeeded"} \subseteq kube[cur]
    /\ pc = "delete" /\ step > 2 => "config" \notin kube[cur]
    /\ (pc = "delete" /\ step > 5) \/ pc = "release" => "job" \notin kube[cur]
    /\ pc = "delete" => doomed \subseteq Found[Name[cur]]
Collecting == \A c \in Clusters : "deleted" \in facts[c] => "finalizer" \in facts[c]

OwnInv == /\ TypeOK /\ Places /\ Stored /\ Bound /\ Creating /\ TearingDown
          /\ Collecting /\ BindingOfItsOwn /\ NeverShared

\* Nothing is known of a JujuCluster that has not been created, and a controller is
\* called as the cluster it was bootstrapped for.
Known == /\ \A c \in Clusters : created[c] = 0 =>
               /\ facts[c] = {} /\ kube[c] = {} /\ cur # c
               /\ \A n \in Names : tenant[n] # c
         /\ \A n \in Names : tenant[n] # Nobody => Name[tenant[n]] = n

\* No name is used twice, and nothing has failed.
Undisturbed ==
    /\ faults = 0
    /\ \A c, d \in Clusters : created[c] > 0 /\ created[d] > 0 /\ Name[c] = Name[d]
                                 => c = d /\ created[c] = 1

\* The job of a cluster with a controller is not run once more.
RunOnce == Undisturbed =>
    /\ pc # "panicked"
    /\ \A c \in Clusters :
          /\ "malformed" \notin kube[c]
          /\ tenant[Name[c]] = c =>
                \/ "succeeded" \in kube[c]
                \/ "job" \notin kube[c] /\ facts[c] = {}
                \/ "job" \notin kube[c] /\ cur = c /\ pc \in {"delete", "release"}
          /\ pc = "create" /\ cur = c => tenant[Name[c]] # c

--------------------------------------------------------------------------------
(* Facts about the operators, and the types.                               *)

\* What is created and deleted, in this order.
LEMMA Orders ==
    /\ DOMAIN SetupOrder = 1..4 /\ Len(SetupOrder) = 4
    /\ SetupOrder[1] = "serviceAccount" /\ SetupOrder[2] = "roleBinding"
    /\ SetupOrder[3] = "tokenSecret" /\ SetupOrder[4] = "job"
    /\ Len(TeardownOrder) = 5
    /\ TeardownOrder[1] = "tokenSecret" /\ TeardownOrder[2] = "config"
    /\ TeardownOrder[3] = "roleBinding" /\ TeardownOrder[4] = "serviceAccount"
    /\ TeardownOrder[5] = "job"
BY DEF SetupOrder, TeardownOrder

\* What a deletion leaves of the objects of a cluster.
LEMMA Deletions ==
    ASSUME NEW o, NEW kind \in {"tokenSecret", "config", "serviceAccount", "job"}
    PROVE  /\ Without(kind, o) \subseteq o
           /\ kind = "config" => "config" \notin Without(kind, o)
           /\ kind = "job" => "job" \notin Without(kind, o) /\ "succeeded" \notin Without(kind, o)
           /\ kind # "job" => \A f \in {"job", "succeeded"} : f \in Without(kind, o) <=> f \in o
           /\ kind # "config" => \A f \in {"config", "malformed"} :
                                    f \in Without(kind, o) <=> f \in o
BY DEF Without

LEMMA EndPassTyped ==
    ASSUME TypeOK, Places, pc # "idle", EndPass(TRUE),
           facts' \in [Clusters -> SUBSET ObjectFacts], kube' \in [Clusters -> SUBSET KubeFacts],
           binding' \in [Names -> Clusters \cup {Nobody}],
           UNCHANGED <<tenant, terminating, created>>, faults' \in 0..MaxFaults
    PROVE  TypeOK' /\ Places'
BY DEF TypeOK, Places, EndPass

LEMMA BeginTyped ==
    ASSUME TypeOK, Places, NEW c \in Clusters, NEW next, Begin(c, next),
           next \in {"create", "addFinalizer", "destroy", "panicked"}
    PROVE  TypeOK' /\ Places'
BY Orders DEF TypeOK, Places, Begin, shared

\* Every variable keeps its type.
LEMMA TypeNext == TypeOK /\ Places /\ [Next]_vars => TypeOK' /\ Places'
<1> SUFFICES ASSUME TypeOK, Places, [Next]_vars PROVE TypeOK' /\ Places'
    OBVIOUS
<1> USE NamesAssumption, BoundsAssumption
<1>1. CASE CreateObject
    <2>1. /\ pc = "create" /\ step \in 1..4 /\ cur \in Clusters /\ Name[cur] \in Names
          /\ SetupOrder[step] # "roleBinding" => SetupOrder[step] \in KubeFacts
        BY <1>1, Orders DEF CreateObject, TypeOK, Places, KubeFacts
    <2>2. /\ binding' \in [Names -> Clusters \cup {Nobody}]
          /\ kube' \in [Clusters -> SUBSET KubeFacts]
        <3>1. CASE SetupOrder[step] = "roleBinding"
            BY <1>1, <2>1, <3>1 DEF CreateObject, TypeOK
        <3>2. CASE SetupOrder[step] # "roleBinding"
            <4>1. kube[cur] \cup {SetupOrder[step]} \in SUBSET KubeFacts
                BY <2>1, <3>2 DEF TypeOK
            <4>2. /\ kube' = [kube EXCEPT ![cur] = kube[cur] \cup {SetupOrder[step]}]
                  /\ UNCHANGED binding
                BY <1>1, <3>2 DEF CreateObject
            <4> QED
                BY <4>1, <4>2 DEF TypeOK
        <3> QED
            BY <3>1, <3>2
    <2>3. CASE step < Len(SetupOrder)
        BY <1>1, <2>1, <2>2, <2>3, Orders DEF CreateObject, TypeOK, Places
    <2>4. CASE ~(step < Len(SetupOrder))
        BY <1>1, <2>1, <2>2, <2>4, EndPassTyped DEF CreateObject, TypeOK
    <2> QED
        BY <2>3, <2>4
<1>2. CASE CreateRefused \/ DestroyFails
    BY <1>2, EndPassTyped DEF CreateRefused, DestroyFails, TypeOK, shared
<1>3. CASE AddFinalizer \/ RemoveFinalizer
    <2>1. PICK o \in SUBSET ObjectFacts : Update(o) /\ pc # "idle"
        BY <1>3 DEF AddFinalizer, RemoveFinalizer, TypeOK, ObjectFacts
    <2>2. facts' \in [Clusters -> SUBSET ObjectFacts]
        BY <2>1 DEF Update, TypeOK, Collected
    <2> QED
        BY <2>1, <2>2, EndPassTyped DEF Update, TypeOK, shared
<1>4. CASE DestroyController
    BY <1>4 DEF DestroyController, TypeOK, Places, shared
<1>5. CASE DeleteObject
    <2>1. /\ pc = "delete" /\ step \in 1..5 /\ cur \in Clusters /\ Name[cur] \in Names
        BY <1>5, Orders DEF DeleteObject, TypeOK, Places
    <2>2. TeardownOrder[step] # "roleBinding" =>
              Without(TeardownOrder[step], kube[cur]) \in SUBSET KubeFacts
        <3>1. kube[cur] \in SUBSET KubeFacts
            BY <2>1 DEF TypeOK
        <3>2. TeardownOrder[step] \in {"tokenSecret", "config", "roleBinding",
                                       "serviceAccount", "job"}
            BY <2>1, Orders
        <3> QED
            BY <3>1, <3>2, Deletions
    <2>3. /\ binding' \in [Names -> Clusters \cup {Nobody}]
          /\ kube' \in [Clusters -> SUBSET KubeFacts]
        BY <1>5, <2>1, <2>2 DEF DeleteObject, TypeOK
    <2> QED
        BY <1>5, <2>1, <2>3 DEF DeleteObject, TypeOK, Places
<1>6. CASE AllDeleted \/ \E n \in Names : DeleteNamespace(n)
    BY <1>6 DEF AllDeleted, DeleteNamespace, TypeOK, Places, shared
<1>7. CASE RequestFails
    BY <1>7, EndPassTyped DEF RequestFails, TypeOK, shared, Fault
<1>8. CASE Restart
    BY <1>8 DEF Restart, TypeOK, Places, shared, Fault
<1>9. ASSUME NEW c \in Clusters, Starts(c)
      PROVE  TypeOK' /\ Places'
    <2>1. CASE StartBootstrap(c) \/ ConfigMalformed(c) \/ Connect(c)
        BY <2>1, BeginTyped DEF StartBootstrap, ConfigMalformed, Connect
    <2>2. CASE WaitForJob(c) \/ Serve(c)
        BY <2>2 DEF WaitForJob, Serve, vars, TypeOK, Places
    <2>3. CASE Drop(c)
        BY <2>3 DEF Drop, TypeOK, Places, shared, pass
    <2> QED
        BY <1>9, <2>1, <2>2, <2>3 DEF Starts
<1>10. ASSUME NEW c \in Clusters, Create(c) \/ Delete(c)
       PROVE  TypeOK' /\ Places'
    <2>1. facts' \in [Clusters -> SUBSET ObjectFacts] /\ created' \in [Clusters -> Nat]
        BY <1>10 DEF Create, Delete, Collected, TypeOK, ObjectFacts
    <2> QED
        BY <1>10, <2>1 DEF Create, Delete, TypeOK, Places, shared, pass
<1>11. ASSUME NEW c \in Clusters, RunJob(c)
       PROVE  TypeOK' /\ Places'
    <2>1. /\ kube' \in [Clusters -> SUBSET KubeFacts] /\ faults' \in 0..MaxFaults
          /\ tenant' \in [Names -> Clusters \cup {Nobody}]
        BY <1>11 DEF RunJob, TypeOK, KubeFacts, Fault
    <2> QED
        BY <1>11, <2>1 DEF RunJob, TypeOK, Places, pass
<1>12. ASSUME NEW n \in Names, NamespaceTerminates(n)
       PROVE  TypeOK' /\ Places'
    BY <1>12 DEF NamespaceTerminates, TypeOK, Places, pass
<1>13. CASE UNCHANGED vars
    BY <1>13 DEF vars, TypeOK, Places
<1> QED
    BY <1>1, <1>2, <1>3, <1>4, <1>5, <1>6, <1>7, <1>8, <1>9, <1>10, <1>11, <1>12, <1>13
    DEF Next, Worker

--------------------------------------------------------------------------------
(* What the steps do to a cluster's objects.                               *)

\* One creation: the binding is the second.
LEMMA Creation ==
    ASSUME TypeOK, Places, CreateObject
    PROVE  /\ pc = "create" /\ step \in 1..4 /\ cur \in Clusters /\ Name[cur] \in Names
           /\ UNCHANGED <<facts, tenant, terminating, created, faults>>
           /\ step = 2 => /\ binding[Name[cur]] = Nobody /\ UNCHANGED kube
                          /\ binding' = [binding EXCEPT ![Name[cur]] = cur]
           /\ step # 2 => /\ UNCHANGED binding /\ SetupOrder[step] \notin kube[cur]
                          /\ kube' = [kube EXCEPT ![cur] = @ \cup {SetupOrder[step]}]
           /\ step < 4 => step' = step + 1 /\ UNCHANGED <<pc, cur, before, doomed>>
           /\ step = 4 => pc' = "idle"
<1>1. pc = "create" /\ step \in 1..4 /\ cur \in Clusters /\ Name[cur] \in Names
    BY NamesAssumption, Orders DEF CreateObject, TypeOK, Places
<1>2. step = 2 <=> SetupOrder[step] = "roleBinding"
    BY <1>1, Orders
<1>3. Exists(SetupOrder[step], cur) = IF step = 2 THEN binding[Name[cur]] # Nobody
                                                  ELSE SetupOrder[step] \in kube[cur]
    BY <1>2 DEF Exists
<1>4. step < Len(SetupOrder) <=> step < 4
    BY <1>1, Orders
<1>5. step = 2 => /\ binding[Name[cur]] = Nobody /\ UNCHANGED kube
                  /\ binding' = [binding EXCEPT ![Name[cur]] = cur]
    BY <1>2, <1>3 DEF CreateObject
<1>6. step # 2 => /\ UNCHANGED binding /\ SetupOrder[step] \notin kube[cur]
                  /\ kube' = [kube EXCEPT ![cur] = @ \cup {SetupOrder[step]}]
    BY <1>2, <1>3 DEF CreateObject
<1>7. /\ step < 4 => step' = step + 1 /\ UNCHANGED <<pc, cur, before, doomed>>
      /\ step = 4 => pc' = "idle"
    BY <1>1, <1>4 DEF CreateObject, EndPass
<1> QED
    BY <1>1, <1>5, <1>6, <1>7 DEF CreateObject

\* One deletion: the binding is the third.
LEMMA Deletion ==
    ASSUME TypeOK, Places, DeleteObject
    PROVE  /\ pc = "delete" /\ step \in 1..5 /\ cur \in Clusters /\ Name[cur] \in Names
           /\ UNCHANGED <<facts, tenant, terminating, created, faults, pc, cur, before, doomed>>
           /\ step' = step + 1
           /\ step = 3 => UNCHANGED kube /\ binding' = [binding EXCEPT ![Name[cur]] = Nobody]
           /\ step # 3 => /\ UNCHANGED binding
                          /\ \A c \in Clusters \ {cur} : kube'[c] = kube[c]
                          /\ kube'[cur] \subseteq kube[cur]
           /\ step = 2 => "config" \notin kube'[cur]
           /\ step = 5 => "job" \notin kube'[cur] /\ "succeeded" \notin kube'[cur]
           /\ step # 5 => \A f \in {"job", "succeeded"} : f \in kube'[cur] <=> f \in kube[cur]
           /\ step # 2 => \A f \in {"config", "malformed"} : f \in kube'[cur] <=> f \in kube[cur]
<1>1. pc = "delete" /\ step \in 1..5 /\ cur \in Clusters /\ Name[cur] \in Names
    BY NamesAssumption, Orders DEF DeleteObject, TypeOK, Places
<1>2. step = 3 <=> TeardownOrder[step] = "roleBinding"
    BY <1>1, Orders
<1>3. CASE step = 3
    BY <1>1, <1>2, <1>3 DEF DeleteObject
<1>4. CASE step # 3
    <2>1. /\ kube' = [kube EXCEPT ![cur] = Without(TeardownOrder[step], @)] /\ UNCHANGED binding
          /\ kube \in [Clusters -> SUBSET KubeFacts]
        BY <1>2, <1>4 DEF DeleteObject, TypeOK
    <2>2. /\ kube'[cur] = Without(TeardownOrder[step], kube[cur])
          /\ \A c \in Clusters \ {cur} : kube'[c] = kube[c]
        BY <1>1, <2>1
    <2>3. /\ TeardownOrder[step] \in {"tokenSecret", "config", "serviceAccount", "job"}
          /\ step = 2 <=> TeardownOrder[step] = "config"
          /\ step = 5 <=> TeardownOrder[step] = "job"
        BY <1>1, <1>4, Orders
    <2>4. /\ kube'[cur] \subseteq kube[cur]
          /\ step = 2 => "config" \notin kube'[cur]
          /\ step = 5 => "job" \notin kube'[cur] /\ "succeeded" \notin kube'[cur]
          /\ step # 5 => \A f \in {"job", "succeeded"} : f \in kube'[cur] <=> f \in kube[cur]
          /\ step # 2 => \A f \in {"config", "malformed"} : f \in kube'[cur] <=> f \in kube[cur]
        BY <2>2, <2>3, Deletions
    <2> QED
        BY <1>1, <1>4, <2>1, <2>2, <2>4 DEF DeleteObject
<1> QED
    BY <1>3, <1>4

\* The job runs once: with the rights of the binding, and to the end.
LEMMA Job ==
    ASSUME TypeOK, NEW c \in Clusters, RunJob(c)
    PROVE  /\ "job" \in kube[c] /\ binding[Name[c]] = c
           /\ "succeeded" \notin kube[c] /\ "config" \notin kube[c]
           /\ {"job", "succeeded"} \subseteq kube'[c] /\ kube[c] \subseteq kube'[c]
           /\ \A d \in Clusters \ {c} : kube'[d] = kube[d]
           /\ \/ /\ tenant[Name[c]] = Nobody /\ tenant' = [tenant EXCEPT ![Name[c]] = c]
                 /\ "malformed" \in kube'[c] <=> "malformed" \in kube[c]
                 /\ UNCHANGED faults
              \/ /\ UNCHANGED tenant /\ "malformed" \in kube'[c]
                 /\ tenant[Name[c]] = Nobody => faults' > 0
           /\ UNCHANGED <<facts, queued, binding, terminating, pc, cur, before, step, doomed,
                          created>>
<1>1. kube \in [Clusters -> SUBSET KubeFacts] /\ faults \in Nat
    BY BoundsAssumption DEF TypeOK
<1> QED
    BY <1>1 DEF RunJob, pass, Fault

\* Nothing else changes the objects, the bindings or the controllers.
LEMMA KubeKept ==
    ASSUME [Next]_vars, ~CreateObject, ~DeleteObject
    PROVE  /\ UNCHANGED binding
           /\ (\A c \in Clusters : ~RunJob(c)) => UNCHANGED kube
           /\ \/ UNCHANGED tenant
              \/ \E c \in Clusters : RunJob(c)
              \/ \E n \in Names : NamespaceTerminates(n)
BY DEF Next, Worker, CreateRefused, AddFinalizer, DestroyController, DestroyFails, AllDeleted,
       RemoveFinalizer, DeleteNamespace, RequestFails, Restart, Starts, StartBootstrap,
       WaitForJob, ConfigMalformed, Connect, Serve, Drop, Create, Delete, RunJob,
       NamespaceTerminates, Begin, Update, shared, vars

\* What happens to the facts of a cluster, and what to the pass.
LEMMA FactsChange ==
    ASSUME TypeOK, Places, [Next]_vars, NEW c \in Clusters
    PROVE  \/ facts'[c] = facts[c]
           \/ facts[c] = {} /\ c # cur /\ facts'[c] = {"present"} /\ created'[c] = created[c] + 1
           \/ /\ "present" \in facts[c] /\ "deleted" \notin facts[c]
              /\ facts'[c] = Collected(facts[c] \cup {"deleted"})
           \/ /\ c = cur /\ facts[c] = before /\ pc = "addFinalizer" /\ pc' = "idle"
              /\ facts'[c] = Collected(before \cup {"finalizer"})
           \/ /\ c = cur /\ facts[c] = before /\ pc = "release" /\ pc' = "idle"
              /\ facts'[c] = Collected(before \ {"finalizer"})
<1>1. facts \in [Clusters -> SUBSET ObjectFacts] /\ created \in [Clusters -> Nat]
    BY DEF TypeOK
<1>2. CASE AddFinalizer \/ RemoveFinalizer
    BY <1>1, <1>2 DEF AddFinalizer, RemoveFinalizer, Update, EndPass, Places
<1>3. CASE \E d \in Clusters : Create(d) \/ Delete(d)
    BY <1>1, <1>3 DEF Create, Delete
<1>4. CASE /\ ~AddFinalizer /\ ~RemoveFinalizer
           /\ \A d \in Clusters : ~Create(d) /\ ~Delete(d)
    <2>1. UNCHANGED facts
        BY <1>4 DEF Next, Worker, CreateObject, CreateRefused, DestroyController,
            DestroyFails, DeleteObject, AllDeleted, DeleteNamespace, RequestFails, Restart,
            Starts, StartBootstrap, WaitForJob, ConfigMalformed, Connect, Serve, Drop,
            RunJob, NamespaceTerminates, Begin, vars
    <2> QED
        BY <2>1
<1> QED
    BY <1>2, <1>3, <1>4

\* What happens to the pass.
LEMMA PassChange ==
    ASSUME TypeOK, Places, [Next]_vars, pc' # "idle", ~CreateObject, ~DeleteObject
    PROVE  \/ UNCHANGED <<pc, cur, before, step, doomed>>
           \/ /\ pc = "idle" /\ cur' \in Clusters /\ before' = facts[cur'] /\ step' = 1
              /\ UNCHANGED <<facts, kube, tenant, created, faults>>
              /\ "present" \in facts[cur']
              /\ \/ pc' = "create" /\ "job" \notin kube[cur']
                 \/ /\ pc' = "panicked" /\ "malformed" \in kube[cur']
                 \/ pc' = "addFinalizer" /\ "finalizer" \notin facts[cur']
                 \/ /\ pc' = "destroy" /\ {"deleted", "finalizer"} \subseteq facts[cur']
           \/ /\ pc = "destroy" /\ pc' = "delete" /\ Serving(cur) /\ step = 1
              /\ UNCHANGED <<cur, before, facts, kube, step>>
              /\ doomed' \subseteq Found[Name[cur]]
           \/ /\ pc = "delete" /\ pc' = "delete" /\ step = 6
              /\ UNCHANGED <<cur, before, step, facts, kube>> /\ doomed' \subseteq doomed
           \/ /\ pc = "delete" /\ pc' = "release" /\ step = 6
              /\ UNCHANGED <<cur, before, step, facts, kube>>
<1>0. step \in 1..6 /\ Len(TeardownOrder) = 5
    BY Orders DEF TypeOK
<1>1. CASE DestroyController
    BY <1>1 DEF DestroyController, Places
<1>2. CASE AllDeleted \/ \E n \in Names : DeleteNamespace(n)
    BY <1>0, <1>2 DEF AllDeleted, DeleteNamespace
<1>3. ASSUME NEW c \in Clusters, Starts(c)
      PROVE  \/ UNCHANGED <<pc, cur, before, step, doomed>>
             \/ /\ pc = "idle" /\ cur' \in Clusters /\ before' = facts[cur'] /\ step' = 1
                /\ UNCHANGED <<facts, kube, tenant, created, faults>>
                /\ "present" \in facts[cur']
                /\ \/ pc' = "create" /\ "job" \notin kube[cur']
                   \/ /\ pc' = "panicked" /\ "malformed" \in kube[cur']
                   \/ pc' = "addFinalizer" /\ "finalizer" \notin facts[cur']
                   \/ /\ pc' = "destroy" /\ {"deleted", "finalizer"} \subseteq facts[cur']
    BY <1>3 DEF Starts, StartBootstrap, WaitForJob, ConfigMalformed, Connect, Serve, Drop,
        Begin, Places, vars, pass, shared
<1>4. (\E c \in Clusters : Create(c) \/ Delete(c) \/ RunJob(c))
          \/ (\E n \in Names : NamespaceTerminates(n)) \/ UNCHANGED vars
              => UNCHANGED <<pc, cur, before, step, doomed>>
    BY DEF Create, Delete, RunJob, NamespaceTerminates, pass, vars
<1>5. CreateRefused \/ AddFinalizer \/ DestroyFails \/ RemoveFinalizer \/ RequestFails
          \/ Restart => pc' = "idle"
    BY DEF CreateRefused, AddFinalizer, DestroyFails, RemoveFinalizer, RequestFails, Restart,
        Update, EndPass
<1> QED
    BY <1>1, <1>2, <1>3, <1>4, <1>5 DEF Next, Worker

--------------------------------------------------------------------------------
(* A binding serves its own cluster, and controller data are its own.      *)

\* Creations add neither controller data nor a finished job.
LEMMA CreationAdds ==
    ASSUME TypeOK, Places, CreateObject, NEW c \in Clusters
    PROVE  /\ \A f \in {"config", "malformed", "succeeded"} : f \in kube'[c] <=> f \in kube[c]
           /\ "job" \in kube[c] => "job" \in kube'[c]
           /\ "job" \in kube'[c] /\ "job" \notin kube[c] => c = cur /\ step = 4
<1>1. kube \in [Clusters -> SUBSET KubeFacts]
    BY DEF TypeOK
<1>2. CASE step = 2 \/ c # cur
    BY <1>1, <1>2, Creation
<1>3. CASE step # 2 /\ c = cur
    <2>1. kube'[c] = kube[c] \cup {SetupOrder[step]}
        BY <1>1, <1>3, Creation
    <2>2. /\ SetupOrder[step] \notin {"config", "malformed", "succeeded"}
          /\ SetupOrder[step] = "job" => step = 4
        BY <1>3, Creation, Orders
    <2> QED
        BY <1>3, <2>1, <2>2
<1> QED
    BY <1>2, <1>3

LEMMA StoredNext == OwnInv /\ [Next]_vars => Stored'
<1> SUFFICES ASSUME OwnInv, [Next]_vars, NEW c \in Clusters
             PROVE  /\ "config" \in kube'[c] => "succeeded" \in kube'[c]
                    /\ "succeeded" \in kube'[c] => "job" \in kube'[c]
    BY DEF Stored
<1>1. /\ TypeOK /\ Places /\ TearingDown
      /\ "config" \in kube[c] => "succeeded" \in kube[c]
      /\ "succeeded" \in kube[c] => "job" \in kube[c]
    BY DEF OwnInv, Stored
<1>2. CASE CreateObject
    BY <1>1, <1>2, CreationAdds
<1>3. CASE DeleteObject
    BY <1>1, <1>3, Deletion DEF TearingDown
<1>4. ASSUME NEW d \in Clusters, RunJob(d)
      PROVE  /\ "config" \in kube'[c] => "succeeded" \in kube'[c]
             /\ "succeeded" \in kube'[c] => "job" \in kube'[c]
    BY <1>1, <1>4, Job
<1> QED
    BY <1>1, <1>2, <1>3, <1>4, KubeKept

LEMMA CreatingNext == OwnInv /\ [Next]_vars => Creating'
<1> SUFFICES ASSUME OwnInv, [Next]_vars, pc' = "create"
             PROVE  "job" \notin kube'[cur']
    BY DEF Creating
<1>1. TypeOK /\ Places /\ Creating
    BY DEF OwnInv
<1>2. CASE CreateObject
    BY <1>1, <1>2, Creation, CreationAdds DEF Creating
<1>3. ~DeleteObject
    BY <1>1, Deletion
<1>4. CASE ~CreateObject
    <2>1. \/ UNCHANGED <<pc, cur>>
          \/ UNCHANGED kube /\ "job" \notin kube[cur']
        BY <1>1, <1>3, <1>4, PassChange
    <2>2. CASE UNCHANGED <<pc, cur>>
        <3>1. "job" \notin kube[cur] /\ cur \in Clusters
            BY <1>1, <2>2 DEF Creating, Places
        <3>2. \A c \in Clusters : RunJob(c) => kube'[cur] = kube[cur]
            BY <1>1, <3>1, Job
        <3> QED
            BY <1>3, <1>4, <2>2, <3>1, <3>2, KubeKept
    <2> QED
        BY <2>1, <2>2
<1> QED
    BY <1>2, <1>4

LEMMA CollectingNext == OwnInv /\ [Next]_vars => Collecting'
<1> SUFFICES ASSUME OwnInv, [Next]_vars, NEW c \in Clusters, "deleted" \in facts'[c]
             PROVE  "finalizer" \in facts'[c]
    BY DEF Collecting
<1>1. TypeOK /\ Places /\ ("deleted" \in facts[c] => "finalizer" \in facts[c])
    BY DEF OwnInv, Collecting
<1> QED
    BY <1>1, FactsChange DEF Collected

\* What a pass that tears down has read of its cluster stays true.
LEMMA TearingDownNext == OwnInv /\ [Next]_vars => TearingDown'
<1> SUFFICES ASSUME OwnInv, [Next]_vars PROVE TearingDown'
    OBVIOUS
<1>1. TypeOK /\ Places /\ TearingDown /\ Stored /\ kube \in [Clusters -> SUBSET KubeFacts]
    BY DEF OwnInv, TypeOK
<1>2. CASE pc' = "idle"
    BY <1>2 DEF TearingDown
<1>3. CASE CreateObject
    BY <1>1, <1>3, Creation DEF TearingDown
<1>4. CASE DeleteObject
    <2>1. /\ pc = "delete" /\ step \in 1..5 /\ step' = step + 1
          /\ UNCHANGED <<facts, pc, cur, before, doomed>>
        BY <1>1, <1>4, Deletion
    <2>2. step' <= 5 => {"job", "succeeded"} \subseteq kube'[cur]
        BY <1>1, <1>4, <2>1, Deletion DEF TearingDown
    <2>3. step' > 2 => "config" \notin kube'[cur]
        BY <1>1, <1>4, <2>1, Deletion DEF TearingDown
    <2>4. step' > 5 => "job" \notin kube'[cur]
        BY <1>1, <1>4, <2>1, Deletion
    <2> QED
        BY <1>1, <2>1, <2>2, <2>3, <2>4 DEF TearingDown
<1>5. CASE pc' # "idle" /\ ~CreateObject /\ ~DeleteObject
    <2>1. CASE UNCHANGED <<pc, cur, before, step, doomed>>
        <3>1. cur \in Clusters
            BY <1>1, <1>5, <2>1 DEF Places
        <3>2. pc \in {"destroy", "delete", "release"} => facts'[cur] = facts[cur]
            BY <1>1, <1>5, <2>1, <3>1, FactsChange DEF TearingDown
        <3>3. pc \in {"delete", "release"} =>
                  \A f \in {"job", "succeeded", "config"} : f \in kube'[cur] <=> f \in kube[cur]
            <4> SUFFICES ASSUME pc \in {"delete", "release"}
                         PROVE  \A f \in {"job", "succeeded", "config"} :
                                    f \in kube'[cur] <=> f \in kube[cur]
                OBVIOUS
            <4>1. \A c \in Clusters : RunJob(c) => c # cur
                <5>1. step \in 1..6
                    BY <1>1 DEF TypeOK
                <5>2. "job" \notin kube[cur] \/ "succeeded" \in kube[cur]
                    BY <1>1, <5>1 DEF TearingDown
                <5> QED
                    BY <1>1, <5>2, Job
            <4> QED
                BY <1>1, <1>5, <3>1, <4>1, KubeKept, Job
        <3> QED
            BY <1>1, <2>1, <3>2, <3>3 DEF TearingDown
    <2>2. CASE ~UNCHANGED <<pc, cur, before, step, doomed>>
        <3>1. /\ pc' = "delete" /\ pc = "destroy" => "config" \in kube[cur]
              /\ pc = "destroy" => cur \in Clusters
            BY <1>1, <1>5, <2>2, PassChange DEF Serving, Places
        <3>2. pc' = "delete" /\ pc = "destroy" => {"job", "succeeded"} \subseteq kube[cur]
            BY <1>1, <3>1 DEF Stored
        <3> QED
            BY <1>1, <1>5, <2>2, <3>2, PassChange DEF TearingDown
    <2> QED
        BY <2>1, <2>2
<1> QED
    BY <1>2, <1>3, <1>4, <1>5

LEMMA BoundNext == OwnInv /\ [Next]_vars => Bound'
<1> SUFFICES ASSUME OwnInv, [Next]_vars PROVE Bound'
    OBVIOUS
<1>1. /\ TypeOK /\ Places /\ TearingDown /\ Bound /\ Stored /\ Creating
      /\ binding \in [Names -> Clusters \cup {Nobody}] /\ step \in 1..6
      /\ \A c \in Clusters : Name[c] \in Names
    BY NamesAssumption DEF OwnInv, TypeOK
<1>2. ASSUME NEW c \in Clusters, Data(c)'
      PROVE  binding'[Name[c]] = c
    <2>1. CASE CreateObject
        <3>1. binding[Name[c]] = c
            BY <1>1, <1>2, <2>1, CreationAdds DEF Data, Bound
        <3> QED
            BY <1>1, <2>1, <3>1, NobodyAssumption, Creation
    <2>2. CASE DeleteObject
        <3>1. binding[Name[c]] = c
            BY <1>1, <1>2, <2>2, Deletion DEF Data, Bound
        <3>2. step = 3 => c # cur
            BY <1>1, <1>2, <2>2, Deletion DEF TearingDown, Data
        <3>3. step = 3 => binding[Name[cur]] = cur
            BY <1>1, <2>2, Deletion DEF Bound
        <3>4. CASE step = 3
            <4>1. binding' = [binding EXCEPT ![Name[cur]] = Nobody] /\ Name[c] # Name[cur]
                BY <1>1, <2>2, <3>1, <3>2, <3>3, <3>4, Deletion
            <4> QED
                BY <1>1, <3>1, <4>1
        <3>5. CASE step # 3
            BY <1>1, <2>2, <3>1, <3>5, Deletion
        <3> QED
            BY <3>4, <3>5
    <2>3. ASSUME NEW d \in Clusters, RunJob(d)
          PROVE  binding'[Name[c]] = c
        <3>1. CASE c = d
            BY <1>1, <2>3, <3>1, Job
        <3>2. CASE c # d
            BY <1>1, <1>2, <2>3, <3>2, Job DEF Data, Bound
        <3> QED
            BY <3>1, <3>2
    <2>4. CASE UNCHANGED <<kube, binding>>
        BY <1>1, <1>2, <2>4 DEF Data, Bound
    <2> QED
        BY <2>1, <2>2, <2>3, <2>4, KubeKept
<1>3. ASSUME \/ pc' = "create" /\ step' > 2
             \/ pc' = "delete" /\ step' <= 3
      PROVE  binding'[Name[cur']] = cur'
    <2>1. CASE CreateObject
        BY <1>1, <1>3, <2>1, Creation DEF Bound
    <2>2. CASE DeleteObject
        BY <1>1, <1>3, <2>2, Deletion DEF Bound
    <2>3. CASE ~CreateObject /\ ~DeleteObject
        <3>1. UNCHANGED binding
            BY <2>3, KubeKept
        <3>2. \/ UNCHANGED <<pc, cur, step>>
              \/ pc = "destroy" /\ pc' = "delete" /\ Serving(cur) /\ UNCHANGED cur
            BY <1>1, <1>3, <2>3, PassChange
        <3>3. Serving(cur) /\ cur \in Clusters => binding[Name[cur]] = cur
            BY <1>1 DEF Serving, Bound, Data
        <3> QED
            BY <1>1, <1>3, <3>1, <3>2, <3>3 DEF Bound, Places
    <2> QED
        BY <2>1, <2>2, <2>3
<1> QED
    BY <1>2, <1>3 DEF Bound

\* Until its teardown a cluster with a job keeps its binding.
LEMMA BindingNext == OwnInv /\ [Next]_vars => BindingOfItsOwn'
<1> SUFFICES ASSUME OwnInv, [Next]_vars, NEW c \in Clusters, "job" \in kube'[c],
                    "deleted" \notin facts'[c]
             PROVE  binding'[Name[c]] = c
    BY DEF BindingOfItsOwn
<1>1. /\ TypeOK /\ Places /\ TearingDown /\ Bound /\ Stored /\ Creating /\ BindingOfItsOwn
      /\ binding \in [Names -> Clusters \cup {Nobody}] /\ step \in 1..6
      /\ \A d \in Clusters : Name[d] \in Names
    BY NamesAssumption DEF OwnInv, TypeOK
<1>2. CASE CreateObject
    <2>1. CASE "job" \in kube[c]
        <3>1. binding[Name[c]] = c
            BY <1>1, <1>2, <2>1, Creation DEF BindingOfItsOwn
        <3> QED
            BY <1>1, <1>2, <3>1, NobodyAssumption, Creation
    <2>2. CASE "job" \notin kube[c]
        BY <1>1, <1>2, <2>2, Creation, CreationAdds DEF Bound
    <2> QED
        BY <2>1, <2>2
<1>3. CASE DeleteObject
    <2>1. "job" \in kube[c] /\ "deleted" \notin facts[c]
        BY <1>1, <1>3, Deletion
    <2>2. c # cur /\ binding[Name[c]] = c
        BY <1>1, <1>3, <2>1, Deletion DEF TearingDown, BindingOfItsOwn
    <2>3. step = 3 => binding[Name[cur]] = cur
        BY <1>1, <1>3, Deletion DEF Bound
    <2>4. CASE step = 3
        <3>1. binding' = [binding EXCEPT ![Name[cur]] = Nobody] /\ Name[c] # Name[cur]
            BY <1>1, <1>3, <2>2, <2>3, <2>4, Deletion
        <3> QED
            BY <1>1, <2>2, <3>1
    <2>5. CASE step # 3
        BY <1>1, <1>3, <2>2, <2>5, Deletion
    <2> QED
        BY <2>4, <2>5
<1>4. CASE ~CreateObject /\ ~DeleteObject
    <2>1. UNCHANGED binding
        BY <1>4, KubeKept
    <2>2. \A d \in Clusters : RunJob(d) /\ c = d => binding[Name[c]] = c
        BY <1>1, Job
    <2>3. CASE \A d \in Clusters : RunJob(d) => c # d
        <3>1. "job" \in kube[c]
            BY <1>1, <1>4, <2>3, KubeKept, Job
        <3>2. CASE "deleted" \notin facts[c]
            BY <1>1, <2>1, <3>1, <3>2 DEF BindingOfItsOwn
        <3>3. CASE "deleted" \in facts[c]
            <4>1. c = cur /\ facts[c] = before /\ pc \in {"addFinalizer", "release"}
                BY <1>1, <3>3, FactsChange
            <4>2. pc = "addFinalizer" => "finalizer" \notin facts[c]
                BY <1>1, <4>1 DEF TearingDown
            <4>3. "finalizer" \in facts[c]
                BY <3>3 DEF OwnInv, Collecting
            <4> QED
                BY <1>1, <3>1, <4>1, <4>2, <4>3 DEF TearingDown
        <3> QED
            BY <3>2, <3>3
    <2> QED
        BY <2>1, <2>2, <2>3
<1> QED
    BY <1>2, <1>3, <1>4

\* No other cluster's controller is called like the one that the data are of.
LEMMA NeverSharedNext == OwnInv /\ [Next]_vars => NeverShared'
<1> SUFFICES ASSUME OwnInv, [Next]_vars, NEW c \in Clusters, Data(c)'
             PROVE  tenant'[Name[c]] \in {c, Nobody}
    BY DEF NeverShared, Data
<1>1. /\ TypeOK /\ Places /\ Bound /\ tenant \in [Names -> Clusters \cup {Nobody}]
      /\ \A d \in Clusters : Name[d] \in Names
    BY NamesAssumption DEF OwnInv, TypeOK
<1>2. Data(c) => tenant[Name[c]] \in {c, Nobody} /\ binding[Name[c]] = c
    BY DEF OwnInv, NeverShared, Data, Bound
<1>3. CASE CreateObject
    BY <1>1, <1>2, <1>3, CreationAdds, Creation DEF Data
<1>4. CASE DeleteObject
    BY <1>1, <1>2, <1>4, Deletion DEF Data
<1>5. ASSUME NEW d \in Clusters, RunJob(d)
      PROVE  tenant'[Name[c]] \in {c, Nobody}
    <2>1. CASE c = d
        BY <1>1, <1>5, <2>1, Job DEF Data
    <2>2. CASE c # d
        <3>1. Data(c) /\ binding[Name[d]] = d
            BY <1>1, <1>5, <2>2, Job DEF Data
        <3>2. Name[c] # Name[d]
            BY <1>2, <2>2, <3>1
        <3> QED
            BY <1>1, <1>2, <1>5, <3>1, <3>2, Job
    <2> QED
        BY <2>1, <2>2
<1>6. CASE /\ ~CreateObject /\ ~DeleteObject /\ \A d \in Clusters : ~RunJob(d)
    <2>1. Data(c)
        BY <1>6, KubeKept DEF Data
    <2>2. \/ UNCHANGED tenant
          \/ \E n \in Names : tenant' = [tenant EXCEPT ![n] = Nobody]
        BY <1>6, KubeKept DEF NamespaceTerminates
    <2> QED
        BY <1>1, <1>2, <2>1, <2>2
<1> QED
    BY <1>3, <1>4, <1>5, <1>6

LEMMA OwnInit == Init => OwnInv
BY NamesAssumption, NobodyAssumption, BoundsAssumption
DEF Init, OwnInv, TypeOK, Places, Stored, Bound, Data, Creating, TearingDown, Collecting,
    BindingOfItsOwn, NeverShared

LEMMA OwnNext == OwnInv /\ [Next]_vars => OwnInv'
BY TypeNext, StoredNext, BoundNext, CreatingNext, TearingDownNext, CollectingNext,
   BindingNext, NeverSharedNext DEF OwnInv

\* The invariant, and with it the types.
THEOREM OwnInvariance == Spec => []OwnInv
BY OwnInit, OwnNext, PTL DEF Spec

THEOREM ControllersTyped == Spec => []TypeOK
<1>1. OwnInv => TypeOK
    BY DEF OwnInv
<1> QED
    BY <1>1, OwnInvariance, PTL

\* The rights of a bootstrap job come from a binding made for its own cluster.
THEOREM BindingsOwn == Spec => []BindingOfItsOwn
<1>1. OwnInv => BindingOfItsOwn
    BY DEF OwnInv
<1> QED
    BY <1>1, OwnInvariance, PTL

\* Controller data are those of the cluster's own controller.
THEOREM ControllersNotShared == Spec => []NeverShared
<1>1. OwnInv => NeverShared
    BY DEF OwnInv
<1> QED
    BY <1>1, OwnInvariance, PTL

--------------------------------------------------------------------------------
(* Whom a teardown takes along.                                            *)

\* A controller in service is taken away by a pass over a deleted cluster whose
\* name is found in its namespace's.
LEMMA SparesNext ==
    ASSUME OwnInv, [Next]_vars, NEW c \in Clusters, Serving(c), ~Serving(c)'
    PROVE  \E d \in Clusters : /\ {"deleted", "finalizer"} \subseteq facts[d]
                               /\ Name[c] \in Found[Name[d]]
<1>1. /\ TypeOK /\ Places /\ TearingDown /\ Data(c) /\ tenant[Name[c]] = c
      /\ Name[c] \notin terminating /\ Name[c] \in Names /\ Name[c] \in Found[Name[c]]
      /\ tenant \in [Names -> Clusters \cup {Nobody}]
    BY NamesAssumption DEF OwnInv, TypeOK, Serving, Data
<1>2. ~Data(c)' \/ tenant'[Name[c]] # c \/ Name[c] \in terminating'
    BY DEF Serving, Data
<1>3. CASE CreateObject
    BY <1>1, <1>2, <1>3, Creation, CreationAdds DEF Data
<1>4. CASE DeleteObject
    <2>1. c = cur /\ pc = "delete"
        BY <1>1, <1>2, <1>4, Deletion DEF Data
    <2> QED
        BY <1>1, <2>1 DEF TearingDown
<1>5. ASSUME NEW d \in Clusters, RunJob(d)
      PROVE  FALSE
    <2>1. c # d
        BY <1>1, <1>5, Job DEF Data
    <2> QED
        BY <1>1, <1>2, <1>5, <2>1, NobodyAssumption, Job DEF Data
<1>6. ASSUME NEW n \in Names, NamespaceTerminates(n)
      PROVE  FALSE
    BY <1>1, <1>2, <1>6 DEF NamespaceTerminates, Data
<1>7. ASSUME NEW n \in Names, DeleteNamespace(n)
      PROVE  \E d \in Clusters : /\ {"deleted", "finalizer"} \subseteq facts[d]
                                 /\ Name[c] \in Found[Name[d]]
    <2>1. n = Name[c] /\ n \in doomed /\ pc = "delete"
        BY <1>1, <1>2, <1>7 DEF DeleteNamespace, Data
    <2>2. cur \in Clusters /\ n \in Found[Name[cur]] /\ {"deleted", "finalizer"} \subseteq facts[cur]
        BY <1>1, <2>1 DEF TearingDown, Places
    <2> QED
        BY <2>1, <2>2
<1>8. CASE /\ ~CreateObject /\ ~DeleteObject /\ \A d \in Clusters : ~RunJob(d)
           /\ \A n \in Names : ~NamespaceTerminates(n) /\ ~DeleteNamespace(n)
    <2>1. UNCHANGED <<kube, tenant>>
        BY <1>8, KubeKept
    <2>2. UNCHANGED terminating
        BY <1>8 DEF Next, Worker, CreateRefused, AddFinalizer, DestroyController,
            DestroyFails, AllDeleted, RemoveFinalizer, RequestFails, Restart, Starts,
            StartBootstrap, WaitForJob, ConfigMalformed, Connect, Serve, Drop, Create,
            Delete, Begin, Update, shared, vars
    <2> QED
        BY <1>1, <1>2, <2>1, <2>2 DEF Data
<1> QED
    BY <1>3, <1>4, <1>5, <1>6, <1>7, <1>8

\* Only teardowns that find a controller's namespace by name take it away.
THEOREM TeardownSparesOthers == Spec => SparesOthers
<1>1. OwnInv /\ [Next]_vars =>
          [\A c \in Clusters : Serving(c) /\ ~Serving(c)' =>
              \E d \in Clusters : /\ {"deleted", "finalizer"} \subseteq facts[d]
                                  /\ Name[c] \in Found[Name[d]]]_vars
    BY SparesNext
<1> QED
    BY <1>1, OwnInvariance, PTL DEF Spec, SparesOthers

--------------------------------------------------------------------------------
(* No panic as long as nothing fails and no name is used twice.            *)

\* Faults and creations are counted, never forgotten.
LEMMA CountsGrow ==
    ASSUME TypeOK, [Next]_vars
    PROVE  /\ faults' >= faults /\ faults \in Nat /\ faults' \in Nat
           /\ \A c \in Clusters : /\ created[c] \in Nat
                                  /\ created'[c] = created[c] \/ Create(c)
                                  /\ created'[c] \in Nat /\ created'[c] >= created[c]
<1>1. faults \in Nat /\ created \in [Clusters -> Nat]
    BY BoundsAssumption DEF TypeOK
<1>2. faults' = faults \/ faults' = faults + 1
    BY DEF Next, Worker, CreateObject, CreateRefused, AddFinalizer, DestroyController,
        DestroyFails, DeleteObject, AllDeleted, DeleteNamespace, RemoveFinalizer,
        RequestFails, Restart, Starts, StartBootstrap, WaitForJob, ConfigMalformed, Connect,
        Serve, Drop, Create, Delete, RunJob, NamespaceTerminates, Begin, Update, Fault, vars
<1>3. ASSUME \A c \in Clusters : ~Create(c)
      PROVE  created' = created
    BY <1>3 DEF Next, Worker, CreateObject, CreateRefused, AddFinalizer, DestroyController,
        DestroyFails, DeleteObject, AllDeleted, DeleteNamespace, RemoveFinalizer,
        RequestFails, Restart, Starts, StartBootstrap, WaitForJob, ConfigMalformed, Connect,
        Serve, Drop, Delete, RunJob, NamespaceTerminates, Begin, Update, vars
<1>4. ASSUME NEW c \in Clusters, NEW d \in Clusters, Create(d)
      PROVE  created'[c] = IF c = d THEN created[c] + 1 ELSE created[c]
    BY <1>1, <1>4 DEF Create
<1> QED
    BY <1>1, <1>2, <1>3, <1>4

LEMMA UndisturbedBefore == TypeOK /\ [Next]_vars /\ Undisturbed' => Undisturbed
BY CountsGrow DEF Undisturbed

LEMMA KnownNext == OwnInv /\ Known /\ [Next]_vars => Known'
<1> SUFFICES ASSUME OwnInv, Known, [Next]_vars PROVE Known'
    OBVIOUS
<1>1. /\ TypeOK /\ Places /\ tenant \in [Names -> Clusters \cup {Nobody}]
      /\ \A d \in Clusters : Name[d] \in Names
      /\ TypeOK' /\ Places'
    BY NamesAssumption, TypeNext DEF OwnInv, TypeOK
<1>2. ASSUME NEW n \in Names, tenant'[n] # tenant[n], tenant'[n] # Nobody
      PROVE  \E d \in Clusters : RunJob(d) /\ n = Name[d] /\ tenant'[n] = d
    <2>1. CreateObject \/ DeleteObject => UNCHANGED tenant
        BY <1>1, Creation, Deletion
    <2>2. PICK d \in Clusters : RunJob(d)
        BY <1>1, <1>2, <2>1, KubeKept DEF NamespaceTerminates
    <2> QED
        BY <1>1, <1>2, <2>2, Job
<1>3. ASSUME NEW n \in Names, tenant'[n] # Nobody
      PROVE  Name[tenant'[n]] = n
    BY <1>2, <1>3 DEF Known
<1>4. ASSUME NEW c \in Clusters, created'[c] = 0
      PROVE  /\ facts'[c] = {} /\ kube'[c] = {} /\ cur' # c
             /\ \A n \in Names : tenant'[n] # c
    <2>1. created[c] = 0 /\ ~Create(c)
        <3>1. created[c] \in Nat /\ created'[c] >= created[c]
            BY <1>1, CountsGrow
        <3>2. Create(c) => created'[c] = created[c] + 1
            BY <1>1 DEF Create, TypeOK
        <3> QED
            BY <1>4, <3>1, <3>2
    <2>2. facts[c] = {} /\ kube[c] = {} /\ cur # c /\ \A n \in Names : tenant[n] # c
        BY <2>1 DEF Known
    <2>3. facts'[c] = {}
        <3>1. ~("present" \in facts[c]) /\ c # cur /\ created'[c] # created[c] + 1
            BY <1>4, <2>1, <2>2
        <3> QED
            BY <1>1, <2>2, <3>1, FactsChange
    <2>4. \A d \in Clusters : RunJob(d) => c # d
        BY <1>1, <2>2, Job
    <2>5. kube'[c] = {}
        <3>1. CASE CreateObject
            BY <1>1, <2>2, <3>1, Creation DEF TypeOK
        <3>2. CASE DeleteObject
            BY <1>1, <2>2, <3>2, Deletion
        <3> QED
            BY <1>1, <2>2, <2>4, <3>1, <3>2, KubeKept, Job
    <2>6. cur' # c
        <3>1. CASE pc' = "idle"
            <4>1. cur' = Nobody \/ cur' = cur
                BY <3>1 DEF Next, Worker, CreateObject, CreateRefused, AddFinalizer,
                    DestroyController, DestroyFails, DeleteObject, AllDeleted,
                    DeleteNamespace, RemoveFinalizer, RequestFails, Restart, Starts,
                    StartBootstrap, WaitForJob, ConfigMalformed, Connect, Serve, Drop, Create,
                    Delete, RunJob, NamespaceTerminates, Begin, Update, EndPass, pass, vars
            <4> QED
                BY <2>2, <4>1, NobodyAssumption
        <3>2. CASE pc' # "idle" /\ (CreateObject \/ DeleteObject)
            BY <1>1, <2>2, <3>2, Creation, Deletion
        <3>3. CASE pc' # "idle" /\ ~CreateObject /\ ~DeleteObject
            <4>1. cur' = cur \/ "present" \in facts[cur']
                BY <1>1, <3>3, PassChange
            <4> QED
                BY <2>2, <4>1
        <3> QED
            BY <3>1, <3>2, <3>3
    <2>7. \A n \in Names : tenant'[n] # c
        BY <1>2, <2>2, <2>4, NobodyAssumption
    <2> QED
        BY <2>3, <2>5, <2>6, <2>7
<1> QED
    BY <1>3, <1>4 DEF Known

\* A controller is bootstrapped by a job, and called as its cluster.
LEMMA TenantChange ==
    ASSUME TypeOK, Places, [Next]_vars, NEW n \in Names, tenant'[n] # tenant[n]
    PROVE  \/ tenant'[n] = Nobody
           \/ \E d \in Clusters : RunJob(d) /\ n = Name[d] /\ tenant'[n] = d
<1>1. /\ tenant \in [Names -> Clusters \cup {Nobody}] /\ \A d \in Clusters : Name[d] \in Names
    BY NamesAssumption DEF TypeOK
<1>2. ~CreateObject /\ ~DeleteObject
    BY Creation, Deletion
<1>3. ASSUME NEW d \in Clusters, RunJob(d)
      PROVE  n = Name[d] /\ tenant'[n] = d
    BY <1>1, <1>3, Job
<1>4. ASSUME NEW m \in Names, NamespaceTerminates(m)
      PROVE  tenant'[n] = Nobody
    BY <1>1, <1>4 DEF NamespaceTerminates
<1> QED
    BY <1>2, <1>3, <1>4, KubeKept

\* A teardown that nothing cuts off ends with the finalizer.
LEMMA TeardownEnds ==
    ASSUME [Next]_vars, pc \in {"delete", "release"}, pc' = "idle", faults' = faults,
           faults \in Nat
    PROVE  RemoveFinalizer
<1>1. ~RequestFails /\ ~Restart
    <2>1. ~Fault
        <3>1. faults' # faults + 1
            OBVIOUS
        <3> QED
            BY <3>1 DEF Fault
    <2> QED
        BY <2>1 DEF RequestFails, Restart
<1>2. ~CreateObject /\ ~CreateRefused /\ ~AddFinalizer /\ ~DestroyController /\ ~DestroyFails
    BY DEF CreateObject, CreateRefused, AddFinalizer, DestroyController, DestroyFails
<1>3. /\ ~DeleteObject /\ ~AllDeleted /\ \A n \in Names : ~DeleteNamespace(n)
      /\ \A c \in Clusters : ~Starts(c)
    BY DEF DeleteObject, AllDeleted, DeleteNamespace, Starts, StartBootstrap, WaitForJob,
        ConfigMalformed, Connect, Serve, Drop, Begin
<1>4. /\ \A c \in Clusters : ~Create(c) /\ ~Delete(c) /\ ~RunJob(c)
      /\ \A n \in Names : ~NamespaceTerminates(n)
      /\ ~UNCHANGED vars
    BY DEF Create, Delete, RunJob, NamespaceTerminates, pass, vars
<1> QED
    BY <1>1, <1>2, <1>3, <1>4 DEF Next, Worker

\* What RunOnce says of one cluster.
Once(c) == \/ "succeeded" \in kube[c]
           \/ "job" \notin kube[c] /\ facts[c] = {}
           \/ "job" \notin kube[c] /\ cur = c /\ pc \in {"delete", "release"}

\* The cluster whose controller there is keeps its finished job until its teardown.
LEMMA OnceNext ==
    ASSUME OwnInv, Known, [Next]_vars, NEW c \in Clusters, tenant[Name[c]] = c, Once(c),
           pc = "create" => cur # c, ~RunJob(c), faults' = faults, created'[c] = 1
    PROVE  Once(c)'
<1>1. /\ TypeOK /\ Places /\ TearingDown /\ Stored /\ faults \in Nat /\ created[c] \in Nat
      /\ step \in 1..6 /\ Name[c] \in Names
    BY NamesAssumption, BoundsAssumption DEF OwnInv, TypeOK
<1>2. created[c] # 0 /\ created'[c] # created[c] + 1
    BY <1>1 DEF Known
<1>3. \A d \in Clusters : RunJob(d) => kube'[c] = kube[c]
    BY <1>1, Job
<1>4. CASE CreateObject
    <2>1. kube'[c] = kube[c] /\ facts'[c] = facts[c] /\ cur # c
        BY <1>1, <1>4, Creation DEF TypeOK
    <2> QED
        BY <1>1, <1>4, <2>1, Creation DEF Once
<1>5. CASE DeleteObject
    <2>1. /\ pc = "delete" /\ UNCHANGED <<facts, pc, cur>>
        BY <1>1, <1>5, Deletion
    <2>2. CASE c # cur
        BY <1>1, <1>5, <2>1, <2>2, Deletion DEF Once
    <2>3. CASE c = cur
        <3>1. step = 5 => "job" \notin kube'[c]
            BY <1>1, <1>5, <2>3, Deletion
        <3>2. step # 5 => \A f \in {"job", "succeeded"} : f \in kube'[c] <=> f \in kube[c]
            BY <1>1, <1>5, <2>3, Deletion
        <3> QED
            BY <1>1, <2>1, <2>3, <3>1, <3>2 DEF Once
    <2> QED
        BY <2>2, <2>3
<1>6. CASE ~CreateObject /\ ~DeleteObject
    <2>1. kube'[c] = kube[c]
        BY <1>3, <1>6, KubeKept
    <2>2. CASE "succeeded" \in kube[c]
        BY <2>1, <2>2 DEF Once
    <2>3. CASE "job" \notin kube[c] /\ facts[c] = {}
        <3>1. ~(c = cur /\ facts[c] = before /\ pc \in {"addFinalizer", "release"})
            BY <1>1, <2>3 DEF TearingDown
        <3>2. facts'[c] = {}
            BY <1>1, <1>2, <2>3, <3>1, FactsChange
        <3> QED
            BY <2>1, <2>3, <3>2 DEF Once
    <2>4. CASE "job" \notin kube[c] /\ cur = c /\ pc \in {"delete", "release"}
        <3>1. CASE pc' = "idle"
            <4>1. RemoveFinalizer /\ facts[c] = before /\ "deleted" \in before
                BY <1>1, <2>4, <3>1, TeardownEnds DEF TearingDown
            <4>2. facts'[c] = {}
                BY <1>1, <2>4, <4>1 DEF RemoveFinalizer, Update, Collected, TypeOK
            <4> QED
                BY <2>1, <2>4, <4>2 DEF Once
        <3>2. CASE pc' # "idle"
            <4>1. cur' = c /\ pc' \in {"delete", "release"}
                BY <1>1, <1>6, <2>4, <3>2, PassChange
            <4> QED
                BY <2>1, <2>4, <4>1 DEF Once
        <3> QED
            BY <3>1, <3>2
    <2> QED
        BY <2>2, <2>3, <2>4 DEF Once
<1> QED
    BY <1>4, <1>5, <1>6

\* Bootstrapped once, a cluster is not bootstrapped again.
LEMMA RunOnceNext == OwnInv /\ Known /\ RunOnce /\ [Next]_vars => RunOnce'
<1> SUFFICES ASSUME OwnInv, Known, RunOnce, [Next]_vars, Undisturbed'
             PROVE  /\ pc' # "panicked"
                    /\ \A c \in Clusters :
                          /\ "malformed" \notin kube'[c]
                          /\ tenant'[Name[c]] = c => Once(c)'
                          /\ pc' = "create" /\ cur' = c => tenant'[Name[c]] # c
    BY DEF RunOnce, Once
<1>1. /\ TypeOK /\ Places /\ Creating /\ Stored /\ \A d \in Clusters : Name[d] \in Names
      /\ tenant \in [Names -> Clusters \cup {Nobody}]
    BY NamesAssumption DEF OwnInv, TypeOK
<1>2. faults = 0 /\ faults' = 0 /\ Undisturbed
    BY <1>1, UndisturbedBefore DEF Undisturbed
<1>3. /\ pc # "panicked"
      /\ \A c \in Clusters :
            /\ "malformed" \notin kube[c]
            /\ tenant[Name[c]] = c => Once(c)
            /\ pc = "create" /\ cur = c => tenant[Name[c]] # c
    BY <1>2 DEF RunOnce, Once
<1>4. pc' # "panicked"
    <2>1. CreateObject \/ DeleteObject => pc' # "panicked"
        BY <1>1, Creation, Deletion
    <2> QED
        BY <1>1, <1>3, <2>1, PassChange
<1>5. ASSUME NEW c \in Clusters, RunJob(c)
      PROVE  tenant[Name[c]] = Nobody
    <2>1. SUFFICES ASSUME tenant[Name[c]] # Nobody PROVE FALSE
        OBVIOUS
    <2>2. PICK e \in Clusters : tenant[Name[c]] = e
        BY <1>1, <2>1
    <2>3. Name[e] = Name[c] /\ created[e] # 0 /\ created[c] # 0
        <3>1. Name[e] = Name[c]
            BY <1>1, <2>1, <2>2 DEF Known
        <3>2. created[e] # 0
            BY <1>1, <2>2 DEF Known
        <3>3. created[c] # 0
            BY <1>1, <1>5, Job DEF Known
        <3> QED
            BY <3>1, <3>2, <3>3
    <2>4. e = c
        <3>1. created[c] > 0 /\ created[e] > 0
            BY <1>1, <2>3 DEF TypeOK
        <3> QED
            BY <1>2, <2>3, <3>1 DEF Undisturbed
    <2> QED
        BY <1>1, <1>3, <1>5, <2>2, <2>4, Job DEF Once
<1>6. ASSUME NEW c \in Clusters
      PROVE  "malformed" \notin kube'[c]
    <2>1. \A d \in Clusters : RunJob(d) => "malformed" \notin kube'[c]
        BY <1>1, <1>2, <1>3, <1>5, Job
    <2>2. CreateObject => "malformed" \notin kube'[c]
        BY <1>1, <1>3, CreationAdds
    <2>3. DeleteObject => "malformed" \notin kube'[c]
        BY <1>1, <1>3, Deletion
    <2> QED
        BY <1>3, <2>1, <2>2, <2>3, KubeKept
<1>7. ASSUME NEW c \in Clusters, tenant'[Name[c]] = c
      PROVE  Once(c)'
    <2>1. CASE RunJob(c)
        BY <1>1, <2>1, Job DEF Once
    <2>2. CASE ~RunJob(c)
        <3>1. tenant[Name[c]] = c
            BY <1>1, <1>7, <2>2, NobodyAssumption, TenantChange
        <3>2. created'[c] = 1
            <4>1. created[c] # 0
                BY <1>1, <3>1 DEF Known
            <4>2. created'[c] > 0
                BY <1>1, <4>1, CountsGrow
            <4> QED
                BY <4>2 DEF Undisturbed
        <3> QED
            BY <1>2, <1>3, <2>2, <3>1, <3>2, OnceNext
    <2> QED
        BY <2>1, <2>2
<1>8. ASSUME NEW c \in Clusters, pc' = "create", cur' = c, tenant'[Name[c]] = c
      PROVE  FALSE
    <2>1. CASE RunJob(c)
        BY <1>1, <1>8, <2>1, Job DEF Creating
    <2>2. CASE ~RunJob(c)
        <3>1. tenant[Name[c]] = c /\ Once(c)
            BY <1>1, <1>3, <1>8, <2>2, NobodyAssumption, TenantChange
        <3>2. ~(pc = "create" /\ cur = c)
            BY <1>3, <3>1
        <3>3. ~CreateObject /\ ~DeleteObject
            BY <1>1, <1>8, <3>2, Creation, Deletion
        <3>4. pc = "idle" /\ "job" \notin kube[c] /\ "present" \in facts[c]
            BY <1>1, <1>8, <3>2, <3>3, PassChange
        <3> QED
            BY <1>1, <3>1, <3>4 DEF Once, Stored
    <2> QED
        BY <2>1, <2>2
<1> QED
    BY <1>4, <1>6, <1>7, <1>8

\* A pass panics over the data of a second bootstrap only, and that takes a fault or
\* a name used twice.
THEOREM NeverPanicsUndisturbed == Spec => []NoPanic
<1>1. Init => OwnInv /\ Known /\ RunOnce
    <2>1. Init => Known
        BY NobodyAssumption, NamesAssumption DEF Init, Known
    <2>2. Init => RunOnce
        BY NobodyAssumption, NamesAssumption DEF Init, RunOnce
    <2> QED
        BY <2>1, <2>2, OwnInit
<1>2. OwnInv /\ Known /\ RunOnce /\ [Next]_vars => (OwnInv /\ Known /\ RunOnce)'
    BY OwnNext, KnownNext, RunOnceNext
<1>3. RunOnce => NoPanic
    BY DEF RunOnce, Undisturbed, NoPanic
<1> QED
    BY <1>1, <1>2, <1>3, PTL DEF Spec
================================================================================
