------------------------------- MODULE Deployment -------------------------------
(***************************************************************************)
(* From the manifest of a JujuCluster to the applications and integrations *)
(* of its model: createApplicationsIfNeeded and createIntegrationsIfNeeded *)
(* (controllers/jujucluster_controller.go) with the conversions they use,  *)
(* CreateApplication (juju/applications.go) and the comparison of          *)
(* integration keys (juju/integrations.go).                                *)
(*                                                                         *)
(* In JujuCluster every manifest is a good one and an application is made  *)
(* in one step.  Here the manifest is any that the API server lets through, *)
(* and the model is there and stays.  Simplifications:                     *)
(*   - a manifest's sections are abstracted to what the code tells apart:  *)
(*     an application has one option, of some kind, and a channel is given *)
(*     where a base is;                                                    *)
(*   - requests that only read, or leave nothing an application would      *)
(*     show, are part of the step of the request that follows;             *)
(*   - an answer that is lost counts as a failure of the next request.     *)
(***************************************************************************)
EXTENDS Naturals, Sequences

CONSTANTS
    DefaultOrder,        \* the default applications, in the order of the code
    Additional,          \* further applications of the manifest
    DefaultIntegrations, \* sequence of integrations, each a pair of endpoints
    Requirers,           \* endpoints on the requiring side of a relation
    Providers,           \* endpoints on its providing side
    Manifests,           \* manifests that may be submitted
    MaxFaults            \* bound: how many requests fail

Defaults == {DefaultOrder[k] : k \in DOMAIN DefaultOrder}
Apps == Defaults \cup Additional

NoApp == "no application"

\* An endpoint is written "app:name"; without a colon its name is NoName.
NoName == "no name"

\* JSON values of an option, as json.Unmarshal tells them apart; "trust" is the
\* option of that name, and "notObject" options that are no JSON object at all.
OptionKinds == {"none", "bool", "whole", "fraction", "string", "trust", "null",
                "nested", "notObject"}
Charms == {"good",
           "unknown",   \* to the charm store
           "rejected"}  \* by Deploy

IsManifest(m) ==
    /\ m.secret \in {"unneeded", "usable", "unusable", "noSection"}
    /\ m.defaultConfigs \in BOOLEAN
    /\ m.options \in [Apps -> OptionKinds]
    /\ m.base \in [Apps -> {"given", "empty"}]
    /\ m.charm \in [Apps -> Charms]
    /\ m.expose \subseteq Apps
    /\ m.integrations \in Seq(Seq([app : Apps, name : STRING]))

ASSUME AppsAssumption == Additional \cap Defaults = {} /\ NoApp \notin Apps
ASSUME ManifestsAssumption == \A m \in Manifests : IsManifest(m)
ASSUME DefaultsAssumption ==
    /\ DefaultIntegrations \in Seq(Seq([app : Defaults, name : STRING \ {NoName}]))
    /\ DefaultIntegrations # <<>>
    /\ \A k \in DOMAIN DefaultIntegrations : Len(DefaultIntegrations[k]) = 2
ASSUME RolesAssumption == Requirers \cap Providers = {}
ASSUME BoundAssumption == MaxFaults \in Nat

VARIABLES
    manifest, \* of the JujuCluster
    pc,       \* what the worker does next
    app,      \* the application it is about to create
    todo,     \* applications the pass has still to look at
    place,    \* place in the list of integrations
    made,     \* the pass has created something
    deployed, \* what each application in the model was deployed with
    exposed,  \* applications that are exposed
    related,  \* keys of the relations in the model
    faults    \* requests that have failed

pass  == <<pc, app, todo, place, made>>
model == <<deployed, exposed, related>>
vars  == <<manifest, pc, app, todo, place, made, deployed, exposed, related, faults>>

Absent == [base |-> "none", option |-> "none"]

Init ==
    /\ manifest \in Manifests
    /\ pc = "idle" /\ app = NoApp /\ todo = {} /\ place = 1 /\ made = FALSE
    /\ deployed = [a \in Apps |-> Absent] /\ exposed = {} /\ related = {}
    /\ faults = 0

EndPass(step) == pc' = step /\ app' = NoApp /\ todo' = {} /\ place' = 1 /\ made' = FALSE

Goto(step) == pc' = step /\ UNCHANGED <<app, todo, place, made>>

--------------------------------------------------------------------------------
(* Before anything is created                                              *)

\* A cloud with authentication types whose manifest has no credential section,
\* and a secret that cannot be parsed, both end in a nil dereference, the latter only
\* once there are a controller and a cloud: both come before what is modelled here.
CredentialPanics ==
    /\ pc \in {"idle", "settled"} /\ manifest.secret \in {"noSection", "unusable"}
    /\ EndPass("panicked")
    /\ UNCHANGED <<manifest, model, faults>>

Begin ==
    /\ pc \in {"idle", "settled"} /\ manifest.secret \in {"unneeded", "usable"}
    /\ EndPass("convert")
    /\ UNCHANGED <<manifest, model, faults>>

\* The section defaultApplicationConfigs is optional, and used without a test.
SectionMissing ==
    /\ pc = "convert" /\ ~manifest.defaultConfigs
    /\ EndPass("panicked")
    /\ UNCHANGED <<manifest, model, faults>>

Convertible == \A a \in Apps : manifest.options[a] # "notObject"

\* jsonToConfig: an error in any of the options, and nothing is created.
ConversionFails ==
    /\ pc = "convert" /\ manifest.defaultConfigs /\ ~Convertible
    /\ EndPass("idle")
    /\ UNCHANGED <<manifest, model, faults>>

Convert ==
    /\ pc = "convert" /\ manifest.defaultConfigs /\ Convertible
    /\ pc' = "apps" /\ todo' = Apps
    /\ UNCHANGED <<manifest, app, place, made, model, faults>>

--------------------------------------------------------------------------------
(* Applications                                                            *)

\* Mutation: the others come in a fixed order, too.
TurnInOrder(a) ==
    /\ a \in todo
    /\ IF a \in Additional THEN todo \cap Defaults = {} /\ a = CHOOSE b \in todo : TRUE
       ELSE \A j, k \in DOMAIN DefaultOrder :
               j < k /\ a = DefaultOrder[k] => DefaultOrder[j] \notin todo

\* The default applications come first, in order, and then the others in the
\* order of a map, which is another in every pass.
Turn(a) ==
    /\ a \in todo
    /\ IF a \in Additional THEN todo \cap Defaults = {}
       ELSE \A j, k \in DOMAIN DefaultOrder :
               j < k /\ a = DefaultOrder[k] => DefaultOrder[j] \notin todo

AppFound(a) ==
    /\ pc = "apps" /\ Turn(a) /\ deployed[a] # Absent
    /\ todo' = todo \ {a}
    /\ UNCHANGED <<manifest, pc, app, place, made, model, faults>>

AppMissing(a) ==
    /\ pc = "apps" /\ Turn(a) /\ deployed[a] = Absent
    /\ pc' = "check" /\ app' = a
    /\ UNCHANGED <<manifest, todo, place, made, model, faults>>

\* Only the default applications have a default base and a default channel.
Base(a) == IF manifest.base[a] = "given" THEN "given"
           ELSE IF a \in Defaults THEN "default" ELSE "none"

\* An empty channel or base does not parse; the charm store does not know a charm.
ChecksFail ==
    /\ pc = "check" /\ (Base(app) = "none" \/ manifest.charm[app] = "unknown")
    /\ EndPass("idle")
    /\ UNCHANGED <<manifest, model, faults>>

\* AddCharm, and AddPendingResources.
AddCharm ==
    /\ pc = "check" /\ Base(app) # "none" /\ manifest.charm[app] # "unknown"
    /\ Goto("deploy")
    /\ UNCHANGED <<manifest, model, faults>>

\* Mutation: only strings have a string representation.
NoStringButStrings(kind) == kind \notin {"none", "string", "trust"}

\* ConfigEntryToString: anything that is not a boolean, a number or a string is
\* taken for a string.
NoString(kind) == kind \in {"null", "nested"}

\* Mutation: numbers are written as they are parsed.
AsParsed(kind) == IF kind = "whole" THEN "float" ELSE kind

\* What arrives: a number is a float64 and loses its fraction, and the option
\* named trust is overwritten with what the manifest says of trust elsewhere.
Converted(kind) == CASE kind = "fraction" -> "whole"
                     [] kind = "trust"    -> "none"
                     [] OTHER             -> kind

ConfigPanics ==
    /\ pc = "deploy" /\ NoString(manifest.options[app])
    /\ EndPass("panicked")
    /\ UNCHANGED <<manifest, model, faults>>

DeployFails ==
    /\ pc = "deploy" /\ ~NoString(manifest.options[app])
    /\ manifest.charm[app] = "rejected"
    /\ EndPass("idle")
    /\ UNCHANGED <<manifest, model, faults>>

Deploy ==
    /\ pc = "deploy" /\ ~NoString(manifest.options[app])
    /\ manifest.charm[app] # "rejected"
    /\ deployed' = [deployed EXCEPT ![app] =
          [base |-> Base(app), option |-> Converted(manifest.options[app])]]
    /\ Goto("expose")
    /\ UNCHANGED <<manifest, exposed, related, faults>>

Expose ==
    /\ pc = "expose"
    /\ exposed' = exposed \cup ({app} \cap manifest.expose)
    /\ pc' = "apps" /\ app' = NoApp /\ todo' = todo \ {app} /\ made' = TRUE
    /\ UNCHANGED <<manifest, place, deployed, related, faults>>

AppsChecked ==
    /\ pc = "apps" /\ todo = {}
    /\ IF made THEN EndPass("idle") ELSE Goto("integrate")
    /\ UNCHANGED <<manifest, model, faults>>

--------------------------------------------------------------------------------
(* Integrations                                                            *)

Integrations == DefaultIntegrations \o manifest.integrations

\* Juju lists a relation with its requirer first.
Key(i) == IF i[1] \in Requirers THEN <<i[1], i[2]>> ELSE <<i[2], i[1]>>

\* app[1] of an endpoint without a colon, and apps[1] of a single one, are out of
\* range.
Parsable(i) == Len(i) >= 2 /\ \A k \in DOMAIN i : i[k].name # NoName

\* Mutation: the endpoints are compared in one order only.
ListedInOrder(i) == <<i[2], i[1]>> \in related

\* Mutation: only the applications are compared.
ListedByApp(i) == \E r \in related : {r[1].app, r[2].app} = {i[1].app, i[2].app}

\* The key is looked for in both orders.
Listed(i) == {<<i[1], i[2]>>, <<i[2], i[1]>>} \cap related # {}

\* Without any relation in the model the endpoints are not looked at.
EndpointPanics ==
    /\ pc = "integrate" /\ place <= Len(Integrations)
    /\ related # {} /\ ~Parsable(Integrations[place])
    /\ EndPass("panicked")
    /\ UNCHANGED <<manifest, model, faults>>

IntegrationFound ==
    /\ pc = "integrate" /\ place <= Len(Integrations)
    /\ related # {} /\ Parsable(Integrations[place]) /\ Listed(Integrations[place])
    /\ place' = place + 1
    /\ UNCHANGED <<manifest, pc, app, todo, made, model, faults>>

\* IntegrationExists has said no.
Wanted(i) == related = {} \/ (Parsable(i) /\ ~Listed(i))

\* Juju relates two applications in the model once, over endpoints that fit.
Accepted(i) ==
    /\ Len(i) = 2 /\ Key(i) \in Requirers \X Providers
    /\ deployed[i[1].app] # Absent /\ deployed[i[2].app] # Absent
    /\ Key(i) \notin related

CreateIntegration ==
    /\ pc = "integrate" /\ place <= Len(Integrations)
    /\ Wanted(Integrations[place]) /\ Accepted(Integrations[place])
    /\ related' = related \cup {Key(Integrations[place])}
    /\ place' = place + 1 /\ made' = TRUE
    /\ UNCHANGED <<manifest, pc, app, todo, deployed, exposed, faults>>

IntegrationRefused ==
    /\ pc = "integrate" /\ place <= Len(Integrations)
    /\ Wanted(Integrations[place]) /\ ~Accepted(Integrations[place])
    /\ EndPass("idle")
    /\ UNCHANGED <<manifest, model, faults>>

\* Only a pass that has created nothing goes on to the rest of Reconcile.
IntegrationsChecked ==
    /\ pc = "integrate" /\ place > Len(Integrations)
    /\ EndPass(IF made THEN "idle" ELSE "settled")
    /\ UNCHANGED <<manifest, model, faults>>

--------------------------------------------------------------------------------
(* The specification                                                       *)

RequestFails ==
    /\ pc \in {"apps", "check", "deploy", "expose", "integrate"}
    /\ faults < MaxFaults /\ faults' = faults + 1
    /\ EndPass("idle")
    /\ UNCHANGED <<manifest, model>>

Restart ==
    /\ pc = "panicked" /\ EndPass("idle")
    /\ UNCHANGED <<manifest, model, faults>>

Next ==
    \/ CredentialPanics \/ Begin \/ SectionMissing \/ ConversionFails \/ Convert
    \/ ChecksFail \/ AddCharm \/ ConfigPanics \/ DeployFails \/ Deploy \/ Expose
    \/ AppsChecked \/ EndpointPanics \/ IntegrationFound \/ CreateIntegration
    \/ IntegrationRefused \/ IntegrationsChecked \/ RequestFails \/ Restart
    \/ \E a \in Apps : AppFound(a) \/ AppMissing(a)

Spec == Init /\ [][Next]_vars

\* Every pass asks for the next, and a panicked process is started again.  The
\* order of a map is a random one, so that every application that is missing has
\* its turn in the end.
Fairness == WF_vars(Next) /\ \A a \in Additional : SF_vars(AppMissing(a))

FairSpec == Spec /\ Fairness

--------------------------------------------------------------------------------
(* Properties                                                              *)

\* Every variable has its type.
TypeOK ==
    /\ IsManifest(manifest)
    /\ pc \in {"idle", "convert", "apps", "check", "deploy", "expose", "integrate",
               "settled", "panicked"}
    /\ app \in Apps \cup {NoApp} /\ (app = NoApp <=> pc \notin {"check", "deploy", "expose"})
    /\ todo \subseteq Apps /\ made \in BOOLEAN
    /\ place \in 1..Len(Integrations) + 1
    /\ deployed \in [Apps -> [base : {"none", "given", "default"},
                              option : OptionKinds]]
    /\ exposed \subseteq Apps /\ related \subseteq Requirers \X Providers
    /\ faults \in 0..MaxFaults

\* What it takes for no pass to panic on what the record of the manifest holds: both
\* optional sections, scalar options and endpoints with a colon.  Everything else that
\* is wrong with an application or an integration is an error, and is reported.  (The
\* names of cloud and credential are not in the record: names.NewCloudTag panics on a
\* cloud name that is not valid.)
NoPanic ==
    /\ manifest.secret \in {"unneeded", "usable"} /\ manifest.defaultConfigs
    /\ \A a \in Apps : manifest.options[a] \notin {"null", "nested"}
    /\ \A k \in DOMAIN manifest.integrations :
          LET i == manifest.integrations[k] IN
          Len(i) = 2 /\ NoName \notin {i[1].name, i[2].name}
    => pc # "panicked"

\* A pass goes past the applications and integrations only with all of them in the
\* model: deployed with the options and on the base the manifest means, exposed if
\* it says so, and related once, whichever endpoint it names first.  Fractions and
\* an option called trust do not arrive, and an exposure is lost if its request is.
SettledAsAsked ==
    pc = "settled" =>
        /\ \A a \in Apps :
              /\ manifest.options[a] \notin {"fraction", "trust"} =>
                    deployed[a].option = manifest.options[a]
              /\ deployed[a].base = IF manifest.base[a] = "given" THEN "given"
                                                                  ELSE "default"
        /\ faults = 0 => exposed = manifest.expose
        /\ related = {Key(Integrations[k]) : k \in DOMAIN Integrations}

Sound(a) == /\ manifest.charm[a] = "good"
            /\ manifest.options[a] \notin {"null", "nested"}
            /\ manifest.base[a] = "empty" => a \in Defaults
Started  == /\ manifest.secret \in {"unneeded", "usable"} /\ manifest.defaultConfigs
            /\ \A a \in Apps : manifest.options[a] # "notObject"

\* An additional application that is sound gets deployed as long as the default
\* ones are, even if others can never be or take the process down with them.
SoundOnesDeployed ==
    \A a \in Additional :
        Started /\ Sound(a) /\ (\A b \in Defaults : Sound(b)) => <>(deployed[a] # Absent)

\* A manifest with nothing wrong in it settles: what one pass has created is there
\* for the next to find, and a request that was done and failed is not repeated
\* for ever.
Settles ==
    /\ Started /\ \A a \in Apps : Sound(a)
    /\ \A k \in DOMAIN Integrations :
          /\ Len(Integrations[k]) = 2 /\ Parsable(Integrations[k])
          /\ Key(Integrations[k]) \in Requirers \X Providers
    => <>(pc = "settled")

================================================================================
