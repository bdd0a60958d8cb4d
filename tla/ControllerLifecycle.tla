-------------------------- MODULE ControllerLifecycle --------------------------
(***************************************************************************)
(* What the JujuCluster controller promises about the work that it makes   *)
(* Juju do for a cluster, without saying how: everything is made under     *)
(* guard and stays until the cluster closes, nothing is made once it does, *)
(* and the cluster is released only when nothing of it is left at work.    *)
(***************************************************************************)
CONSTANTS Apps, Integrations

VARIABLES
    phase,    \* "waiting", "building", "closing" or "released"
    model,    \* there is a model at work
    apps,     \* the applications at work in it
    relations \* the integrations between these

vars == <<phase, model, apps, relations>>

Init == phase = "waiting" /\ model = FALSE /\ apps = {} /\ relations = {}

Guard ==
    /\ phase = "waiting" /\ phase' = "building"
    /\ UNCHANGED <<model, apps, relations>>

\* The last thing that is made may be a model.
CreateModel ==
    /\ phase = "building" /\ ~model
    /\ model' = TRUE /\ phase' \in {"building", "closing"}
    /\ UNCHANGED <<apps, relations>>

Deploy(a) ==
    /\ phase = "building" /\ model /\ a \notin apps
    /\ apps' = apps \cup {a}
    /\ UNCHANGED <<phase, model, relations>>

Relate(i) ==
    /\ phase = "building" /\ model /\ i \subseteq apps /\ i \notin relations
    /\ relations' = relations \cup {i}
    /\ UNCHANGED <<phase, model, apps>>

Close ==
    /\ phase = "building" /\ phase' = "closing"
    /\ UNCHANGED <<model, apps, relations>>

\* The integrations of an application go with it.
Destroy(a) ==
    /\ phase = "closing" /\ a \in apps
    /\ apps' = apps \ {a}
    /\ relations' = {i \in relations : a \notin i}
    /\ UNCHANGED <<phase, model>>

\* The model goes with all that is left in it.
DestroyAll ==
    /\ phase = "closing"
    /\ model' = FALSE /\ apps' = {} /\ relations' = {}
    /\ UNCHANGED phase

Release ==
    /\ phase \in {"waiting", "closing"} /\ phase' = "released"
    /\ ~model /\ apps = {} /\ relations = {}
    /\ UNCHANGED <<model, apps, relations>>

Next ==
    \/ Guard \/ CreateModel \/ Close \/ DestroyAll \/ Release
    \/ \E a \in Apps : Deploy(a) \/ Destroy(a)
    \/ \E i \in Integrations : Relate(i)

Spec == Init /\ [][Next]_vars
================================================================================
