---------------------------- MODULE DeploymentProofs ----------------------------
(***************************************************************************)
(* Theorems about Deployment, for every manifest and every set of charms,  *)
(* and any number of failed requests.                                      *)
(***************************************************************************)
EXTENDS Deployment, SequenceTheorems, TLAPS

(***************************************************************************)
(* The inductive invariant: how far a pass has come with the applications  *)
(* and the integrations says what is in the model.                         *)
(***************************************************************************)
\* The place in the list of integrations counts only while they are looked at.
Places == pc # "integrate" => place = 1

\* Every application is absent or as the manifest means it, and those that the pass
\* has looked at are there.
Meant(a) == [base |-> Base(a), option |-> Converted(manifest.options[a])]
AppsInv ==
    /\ \A a \in Apps : deployed[a] # Absent => deployed[a] = Meant(a) /\ Base(a) # "none"
    /\ pc \in {"apps", "check", "deploy", "expose"} =>
          \A a \in Apps \ todo : deployed[a] # Absent
    /\ pc \in {"integrate", "settled"} => \A a \in Apps : deployed[a] # Absent
    /\ pc \in {"check", "deploy", "expose"} => app \in todo
    /\ pc \in {"check", "deploy"} => deployed[app] = Absent
    /\ pc = "deploy" => Base(app) # "none"
    /\ pc = "expose" => deployed[app] # Absent

\* As long as nothing has failed, an application is exposed as soon as it is there.
ExposedInv ==
    faults = 0 => exposed = {a \in manifest.expose : /\ deployed[a] # Absent
                                                     /\ ~(pc = "expose" /\ a = app)}

\* The relations are those of the manifest, up to the place that the pass is at.
Keys == {Key(Integrations[k]) : k \in DOMAIN Integrations}
RelatedInv ==
    /\ related \subseteq Keys
    /\ pc = "integrate" => \A k \in 1..place - 1 : Key(Integrations[k]) \in related
    /\ pc = "settled" => Keys \subseteq related

DeploymentInv == TypeOK /\ Places /\ AppsInv /\ ExposedInv /\ RelatedInv

--------------------------------------------------------------------------------
(* Facts about the operators.                                              *)

\* The default integrations, and then those of the manifest.
LEMMA IntegrationsTyped ==
    ASSUME IsManifest(manifest)
    PROVE  /\ Integrations \in Seq(Seq([app : Apps, name : STRING]))
           /\ Len(Integrations) \in Nat /\ DOMAIN Integrations = 1..Len(Integrations)
           /\ \A k \in DOMAIN Integrations :
                 \/ \E j \in DOMAIN DefaultIntegrations :
                       Integrations[k] = DefaultIntegrations[j]
                 \/ \E j \in DOMAIN manifest.integrations :
                       Integrations[k] = manifest.integrations[j]
<1> DEFINE End == [app : Apps, name : STRING]
           OwnEnd == [app : Defaults, name : STRING \ {NoName}]
           D == DefaultIntegrations
           M == manifest.integrations
<1>1. D \in Seq(Seq(End)) /\ M \in Seq(Seq(End))
    <2>1. OwnEnd \subseteq End
        BY DEF Apps
    <2>2. D \in Seq(Seq(OwnEnd)) /\ M \in Seq(Seq(End))
        BY DefaultsAssumption DEF IsManifest
    <2> HIDE DEF End, OwnEnd, D, M
    <2>3. Seq(OwnEnd) \subseteq Seq(End)
        BY <2>1, SeqMonotonic
    <2>4. D \in Seq(Seq(End))
        BY <2>2, <2>3, SeqMonotonic
    <2> QED
        BY <2>2, <2>4
<1> HIDE DEF End, D, M
<1>2. /\ D \o M \in Seq(Seq(End)) /\ Len(D \o M) = Len(D) + Len(M)
      /\ \A i \in 1..Len(D) + Len(M) : (D \o M)[i] = IF i <= Len(D) THEN D[i] ELSE M[i - Len(D)]
      /\ Len(D) \in Nat /\ Len(M) \in Nat
      /\ DOMAIN D = 1..Len(D) /\ DOMAIN M = 1..Len(M)
    BY <1>1, ConcatProperties, LenProperties
<1>3. Len(D \o M) \in Nat /\ DOMAIN (D \o M) = 1..Len(D \o M)
    BY <1>2, LenProperties
<1>4. ASSUME NEW k \in 1..Len(D \o M)
      PROVE  \/ \E j \in DOMAIN D : (D \o M)[k] = D[j]
             \/ \E j \in DOMAIN M : (D \o M)[k] = M[j]
    <2>1. CASE k <= Len(D)
        <3>1. k \in DOMAIN D /\ (D \o M)[k] = D[k]
            BY <1>2, <1>4, <2>1
        <3> QED
            BY <3>1
    <2>2. CASE ~(k <= Len(D))
        <3>1. k - Len(D) \in 1..Len(M) /\ (D \o M)[k] = M[k - Len(D)]
            BY <1>2, <1>4, <2>2
        <3> QED
            BY <1>2, <3>1
    <2> QED
        BY <2>1, <2>2
<1>5. Integrations = D \o M
    BY DEF Integrations, D, M
<1> QED
    BY <1>2, <1>3, <1>4, <1>5 DEF End, D, M

\* An endpoint that is found in either order is related with its requirer first.
LEMMA ListedIsKey ==
    ASSUME related \subseteq Requirers \X Providers, NEW i, Listed(i)
    PROVE  Key(i) \in related
BY RolesAssumption DEF Listed, Key

\* What is deployed is there.
LEMMA MeantTyped ==
    ASSUME IsManifest(manifest), NEW a \in Apps
    PROVE  /\ Base(a) \in {"none", "given", "default"}
           /\ Converted(manifest.options[a]) \in OptionKinds
           /\ Base(a) # "none" => Meant(a) # Absent
<1>1. manifest.options[a] \in OptionKinds
    BY DEF IsManifest
<1>2. Base(a) \in {"none", "given", "default"} /\ Meant(a).base = Base(a)
    BY DEF Base, Meant
<1>3. Absent.base = "none"
    BY DEF Absent
<1> QED
    BY <1>1, <1>2, <1>3 DEF Converted, OptionKinds

--------------------------------------------------------------------------------
(* The steps.                                                              *)

\* The worker's steps that end a pass leave the model alone and settle it only
\* behind the last integration.
Ending == /\ EndPass(pc') /\ UNCHANGED <<manifest, model>> /\ faults' \in 0..MaxFaults
          /\ faults' = 0 => faults = 0 /\ pc # "expose"
          /\ \/ pc' \in {"idle", "panicked"}
             \/ pc' = "convert"
             \/ pc' = "settled" /\ pc = "integrate" /\ place > Len(Integrations)

LEMMA EndingSteps ==
    ASSUME TypeOK,
           \/ CredentialPanics \/ Begin \/ SectionMissing \/ ConversionFails \/ ChecksFail
           \/ ConfigPanics \/ DeployFails \/ EndpointPanics \/ IntegrationRefused
           \/ IntegrationsChecked \/ RequestFails \/ Restart
           \/ (AppsChecked /\ made)
    PROVE  Ending
<1>1. faults \in 0..MaxFaults /\ MaxFaults \in Nat
    BY BoundAssumption DEF TypeOK
<1>2. CASE RequestFails
    BY <1>1, <1>2 DEF RequestFails, Ending, EndPass
<1>3. CASE ~RequestFails
    BY <1>1, <1>3 DEF CredentialPanics, Begin, SectionMissing, ConversionFails, ChecksFail,
        ConfigPanics, DeployFails, EndpointPanics, IntegrationRefused, IntegrationsChecked,
        Restart, AppsChecked, EndPass, Ending, model
<1> QED
    BY <1>2, <1>3

LEMMA EndingKeepsInv ==
    ASSUME DeploymentInv, Ending
    PROVE  DeploymentInv'
<1>1. /\ IsManifest(manifest) /\ Len(Integrations) \in Nat
      /\ DOMAIN Integrations = 1..Len(Integrations)
    BY IntegrationsTyped DEF DeploymentInv, TypeOK
<1>2. Integrations' = Integrations /\ \A i : Key(i)' = Key(i)
    BY DEF Ending, Integrations, Key
<1>3. \A a : Base(a)' = Base(a) /\ Meant(a)' = Meant(a)
    BY DEF Ending, Base, Meant
<1>4. TypeOK' /\ Places'
    <2>1. /\ IsManifest(manifest') /\ deployed' = deployed /\ exposed' = exposed
          /\ related' = related /\ faults' \in 0..MaxFaults /\ Len(Integrations)' \in Nat
        BY <1>1, <1>2 DEF Ending, model
    <2>2. /\ app' = NoApp /\ todo' = {} /\ place' = 1 /\ made' = FALSE
          /\ pc' \in {"idle", "panicked", "convert", "settled"}
        BY DEF Ending, EndPass
    <2>3. place' \in 1..Len(Integrations)' + 1
        BY <2>1, <2>2
    <2> QED
        BY <2>1, <2>2, <2>3 DEF DeploymentInv, TypeOK, Places
<1>5. AppsInv'
    BY <1>3 DEF DeploymentInv, AppsInv, Ending, EndPass, model
<1>6. ExposedInv'
    BY DEF DeploymentInv, ExposedInv, Ending, EndPass, model
<1>7. RelatedInv'
    <2>1. pc' = "settled" => \A k \in 1..Len(Integrations) : Key(Integrations[k]) \in related
        BY <1>1 DEF DeploymentInv, TypeOK, RelatedInv, Ending
    <2>2. Keys' = Keys /\ related' = related /\ pc' # "integrate"
        BY <1>2 DEF Keys, Ending, model
    <2>3. pc' = "settled" => Keys \subseteq related
        BY <1>1, <2>1 DEF Keys
    <2> QED
        BY <2>2, <2>3 DEF DeploymentInv, RelatedInv
<1> QED
    BY <1>4, <1>5, <1>6, <1>7 DEF DeploymentInv

\* The manifest stays, and with it what it means.
LEMMA SameManifest ==
    ASSUME manifest' = manifest, TypeOK
    PROVE  /\ IsManifest(manifest') /\ Integrations' = Integrations /\ Keys' = Keys
           /\ \A a : Base(a)' = Base(a) /\ Meant(a)' = Meant(a)
           /\ Len(Integrations) \in Nat /\ DOMAIN Integrations = 1..Len(Integrations)
<1>1. IsManifest(manifest)
    BY DEF TypeOK
<1> QED
    BY <1>1, IntegrationsTyped DEF Integrations, Keys, Key, Base, Meant

\* Convert, and a pass over the applications that finds one, looks at one that is
\* missing or goes on to the integrations.
LEMMA LookingKeepsInv ==
    ASSUME DeploymentInv,
           \/ Convert \/ AddCharm \/ (AppsChecked /\ ~made)
           \/ \E a \in Apps : AppFound(a) \/ AppMissing(a)
    PROVE  DeploymentInv'
<1>1. /\ TypeOK /\ Places /\ AppsInv /\ ExposedInv /\ RelatedInv
      /\ UNCHANGED <<manifest, place, made, model, faults>>
    BY DEF DeploymentInv, Convert, AddCharm, AppsChecked, AppFound, AppMissing, Goto
<1>2. /\ IsManifest(manifest') /\ Integrations' = Integrations /\ Keys' = Keys
      /\ \A a : Base(a)' = Base(a) /\ Meant(a)' = Meant(a)
    BY <1>1, SameManifest
<1>3. /\ UNCHANGED <<deployed, exposed, related>>
      /\ pc \notin {"expose", "integrate"} /\ pc' \notin {"expose", "settled"}
      /\ place = 1
    BY <1>1 DEF Convert, AddCharm, AppsChecked, AppFound, AppMissing, Goto, model, Places
<1>4. TypeOK'
    <2>1. /\ pc' \in {"apps", "check", "deploy", "integrate"} /\ todo' \subseteq Apps
          /\ app' \in Apps \cup {NoApp}
          /\ (app' = NoApp <=> pc' \notin {"check", "deploy", "expose"})
        BY <1>1, AppsAssumption DEF TypeOK, Convert, AddCharm, AppsChecked, AppFound,
            AppMissing, Goto
    <2> QED
        BY <1>1, <1>2, <1>3, <2>1 DEF TypeOK
<1>5. Places'
    BY <1>1, <1>3 DEF Places
<1>6. AppsInv'
    <2>1. CASE Convert
        BY <1>1, <1>2, <1>3, <2>1 DEF AppsInv, Convert
    <2>2. CASE AddCharm
        BY <1>1, <1>2, <1>3, <2>2 DEF AppsInv, AddCharm, Goto
    <2>3. CASE AppsChecked /\ ~made
        BY <1>1, <1>2, <1>3, <2>3 DEF AppsInv, AppsChecked, Goto
    <2>4. ASSUME NEW a \in Apps, AppFound(a) \/ AppMissing(a)
          PROVE  AppsInv'
        BY <1>1, <1>2, <1>3, <2>4 DEF AppsInv, AppFound, AppMissing, Turn
    <2> QED
        BY <2>1, <2>2, <2>3, <2>4
<1>7. ExposedInv'
    BY <1>1, <1>2, <1>3 DEF ExposedInv
<1>8. RelatedInv'
    <2>1. \A k \in 1..place' - 1 : FALSE
        BY <1>1, <1>3
    <2> QED
        BY <1>1, <1>2, <1>3, <2>1 DEF RelatedInv
<1> QED
    BY <1>4, <1>5, <1>6, <1>7, <1>8 DEF DeploymentInv

\* What is deployed is what the manifest means.
LEMMA DeployKeepsInv ==
    ASSUME DeploymentInv, Deploy
    PROVE  DeploymentInv'
<1>1. /\ TypeOK /\ Places /\ AppsInv /\ ExposedInv /\ RelatedInv
      /\ UNCHANGED <<manifest, app, todo, place, made, exposed, related, faults>>
      /\ pc = "deploy" /\ pc' = "expose" /\ app \in Apps /\ place = 1
      /\ deployed \in [Apps -> [base : {"none", "given", "default"}, option : OptionKinds]]
    BY DEF DeploymentInv, Deploy, Goto, TypeOK, Places
<1>2. /\ IsManifest(manifest') /\ Integrations' = Integrations /\ Keys' = Keys
      /\ \A a : Base(a)' = Base(a) /\ Meant(a)' = Meant(a)
    BY <1>1, SameManifest
<1>3. /\ Meant(app) \in [base : {"none", "given", "default"}, option : OptionKinds]
      /\ Meant(app) # Absent /\ Base(app) # "none" /\ app \in todo /\ deployed[app] = Absent
    BY <1>1, MeantTyped DEF TypeOK, AppsInv, Meant
<1>4. deployed' = [deployed EXCEPT ![app] = Meant(app)]
    BY DEF Deploy, Meant
<1>5. /\ deployed'[app] = Meant(app) /\ \A a \in Apps \ {app} : deployed'[a] = deployed[a]
      /\ deployed' \in [Apps -> [base : {"none", "given", "default"}, option : OptionKinds]]
    <2> HIDE DEF Meant
    <2> QED
        BY <1>1, <1>3, <1>4
<1>6. TypeOK' /\ Places'
    BY <1>1, <1>2, <1>5 DEF TypeOK, Places
<1>7. AppsInv'
    BY <1>1, <1>2, <1>3, <1>5 DEF AppsInv
<1>8. ExposedInv'
    <2>1. manifest.expose \subseteq Apps
        BY <1>1 DEF TypeOK, IsManifest
    <2> QED
        BY <1>1, <1>2, <1>3, <1>5, <2>1 DEF ExposedInv
<1>9. RelatedInv'
    BY <1>1, <1>2 DEF RelatedInv
<1> QED
    BY <1>6, <1>7, <1>8, <1>9 DEF DeploymentInv

LEMMA ExposeKeepsInv ==
    ASSUME DeploymentInv, Expose
    PROVE  DeploymentInv'
<1>1. /\ TypeOK /\ Places /\ AppsInv /\ ExposedInv /\ RelatedInv
      /\ UNCHANGED <<manifest, place, deployed, related, faults>>
      /\ pc = "expose" /\ pc' = "apps" /\ app' = NoApp /\ todo' = todo \ {app} /\ made'
      /\ exposed' = exposed \cup ({app} \cap manifest.expose) /\ app \in Apps /\ place = 1
    BY DEF DeploymentInv, Expose, TypeOK, Places
<1>2. /\ IsManifest(manifest') /\ Integrations' = Integrations /\ Keys' = Keys
      /\ \A a : Base(a)' = Base(a) /\ Meant(a)' = Meant(a)
    BY <1>1, SameManifest
<1>3. TypeOK' /\ Places'
    <2>1. made' \in BOOLEAN
        BY DEF Expose
    <2> QED
        BY <1>1, <1>2, <2>1 DEF TypeOK, Places
<1>4. AppsInv'
    BY <1>1, <1>2 DEF AppsInv
<1>5. ExposedInv'
    BY <1>1 DEF ExposedInv, AppsInv
<1>6. RelatedInv'
    BY <1>1, <1>2 DEF RelatedInv
<1> QED
    BY <1>3, <1>4, <1>5, <1>6 DEF DeploymentInv

\* One integration is found, or made.
LEMMA IntegratingKeepsInv ==
    ASSUME DeploymentInv, IntegrationFound \/ CreateIntegration
    PROVE  DeploymentInv'
<1> DEFINE i == Integrations[place]
<1>1. /\ TypeOK /\ AppsInv /\ ExposedInv /\ RelatedInv
      /\ UNCHANGED <<manifest, pc, app, todo, deployed, exposed, faults>>
      /\ pc = "integrate" /\ place <= Len(Integrations) /\ place' = place + 1
      /\ made' \in BOOLEAN /\ related \subseteq Requirers \X Providers
    BY DEF DeploymentInv, IntegrationFound, CreateIntegration, TypeOK, model
<1>2. /\ IsManifest(manifest') /\ Integrations' = Integrations /\ Keys' = Keys
      /\ \A a : Base(a)' = Base(a) /\ Meant(a)' = Meant(a)
      /\ Len(Integrations) \in Nat /\ DOMAIN Integrations = 1..Len(Integrations)
    BY <1>1, SameManifest
<1>3. place \in 1..Len(Integrations) /\ place' \in 1..Len(Integrations) + 1
    BY <1>1, <1>2 DEF TypeOK
<1>4. /\ related \subseteq related' /\ related' \subseteq related \cup {Key(i)}
      /\ Key(i) \in related' /\ related' \subseteq Requirers \X Providers
    <2>1. CASE IntegrationFound
        BY <1>1, <2>1, ListedIsKey DEF IntegrationFound, model
    <2>2. CASE CreateIntegration
        BY <1>1, <2>2 DEF CreateIntegration, Accepted
    <2> QED
        BY <2>1, <2>2
<1>5. TypeOK' /\ Places'
    BY <1>1, <1>2, <1>3, <1>4 DEF TypeOK, Places
<1>6. AppsInv' /\ ExposedInv'
    BY <1>1, <1>2 DEF AppsInv, ExposedInv
<1>7. RelatedInv'
    <2>1. Key(i) \in Keys
        BY <1>2, <1>3 DEF Keys
    <2>2. \A k \in 1..place' - 1 : Key(Integrations[k]) \in related'
        <3>1. \A k \in 1..place' - 1 : k = place \/ k \in 1..place - 1
            BY <1>1, <1>3
        <3> QED
            BY <1>1, <1>4, <3>1 DEF RelatedInv
    <2>3. \A k : Key(Integrations[k])' = Key(Integrations[k])
        BY <1>2 DEF Key
    <2> QED
        BY <1>1, <1>2, <1>4, <2>1, <2>2, <2>3 DEF RelatedInv
<1> QED
    BY <1>5, <1>6, <1>7 DEF DeploymentInv

LEMMA DeploymentInit == Init => DeploymentInv
<1> SUFFICES ASSUME Init PROVE DeploymentInv
    OBVIOUS
<1>1. IsManifest(manifest) /\ Len(Integrations) \in Nat
    BY ManifestsAssumption, IntegrationsTyped DEF Init
<1>2. TypeOK
    <2>1. Absent \in [base : {"none", "given", "default"}, option : OptionKinds]
        BY DEF Absent, OptionKinds
    <2>2. faults \in 0..MaxFaults /\ place \in 1..Len(Integrations) + 1
        BY <1>1, BoundAssumption DEF Init
    <2> QED
        BY <1>1, <2>1, <2>2 DEF Init, TypeOK
<1>3. Places /\ AppsInv /\ ExposedInv /\ RelatedInv
    BY <1>1 DEF Init, Places, AppsInv, ExposedInv, RelatedInv, IsManifest
<1> QED
    BY <1>2, <1>3 DEF DeploymentInv

LEMMA DeploymentNext == DeploymentInv /\ [Next]_vars => DeploymentInv'
<1> SUFFICES ASSUME DeploymentInv, [Next]_vars PROVE DeploymentInv'
    OBVIOUS
<1>1. CASE \/ CredentialPanics \/ Begin \/ SectionMissing \/ ConversionFails \/ ChecksFail
           \/ ConfigPanics \/ DeployFails \/ EndpointPanics \/ IntegrationRefused
           \/ IntegrationsChecked \/ RequestFails \/ Restart
           \/ (AppsChecked /\ made)
    BY <1>1, EndingSteps, EndingKeepsInv DEF DeploymentInv
<1>2. CASE \/ Convert \/ AddCharm \/ (AppsChecked /\ ~made)
           \/ \E a \in Apps : AppFound(a) \/ AppMissing(a)
    BY <1>2, LookingKeepsInv
<1>3. CASE Deploy \/ Expose \/ IntegrationFound \/ CreateIntegration
    BY <1>3, DeployKeepsInv, ExposeKeepsInv, IntegratingKeepsInv
<1>4. CASE UNCHANGED vars
    <2>1. manifest' = manifest /\ TypeOK
        BY <1>4 DEF vars, DeploymentInv
    <2>2. /\ Integrations' = Integrations /\ Keys' = Keys
          /\ \A a : Base(a)' = Base(a) /\ Meant(a)' = Meant(a)
        BY <2>1, SameManifest
    <2> QED
        BY <1>4, <2>2 DEF vars, DeploymentInv, TypeOK, Places, AppsInv, ExposedInv,
            RelatedInv, Key
<1> QED
    BY <1>1, <1>2, <1>3, <1>4 DEF Next

THEOREM DeploymentInvariance == Spec => []DeploymentInv
BY DeploymentInit, DeploymentNext, PTL DEF Spec

THEOREM DeploymentTyped == Spec => []TypeOK
<1>1. DeploymentInv => TypeOK
    BY DEF DeploymentInv
<1> QED
    BY <1>1, DeploymentInvariance, PTL

--------------------------------------------------------------------------------
(* What a settled pass has seen to, and what a pass survives.              *)

\* Whatever the manifest says, nothing it asks for is missing when a pass settles.
THEOREM SettledDeployment == Spec => []SettledAsAsked
<1>1. DeploymentInv => SettledAsAsked
    <2> SUFFICES ASSUME DeploymentInv, pc = "settled" PROVE SettledAsAsked
        BY DEF SettledAsAsked
    <2>1. IsManifest(manifest) /\ TypeOK /\ AppsInv /\ ExposedInv /\ RelatedInv
        BY DEF DeploymentInv, TypeOK
    <2>2. \A a \in Apps : /\ deployed[a] = Meant(a) /\ deployed[a] # Absent
                          /\ Base(a) # "none" /\ manifest.options[a] \in OptionKinds
        BY <2>1 DEF AppsInv, IsManifest
    <2>3. ASSUME NEW a \in Apps
          PROVE  /\ manifest.options[a] \notin {"fraction", "trust"} =>
                       deployed[a].option = manifest.options[a]
                 /\ deployed[a].base = IF manifest.base[a] = "given" THEN "given"
                                                                     ELSE "default"
        <3>1. deployed[a].option = Converted(manifest.options[a]) /\ deployed[a].base = Base(a)
            <4>1. /\ Meant(a).option = Converted(manifest.options[a])
                  /\ Meant(a).base = Base(a)
                BY DEF Meant
            <4> QED
                BY <2>2, <4>1
        <3>2. manifest.options[a] \notin {"fraction", "trust"} =>
                  Converted(manifest.options[a]) = manifest.options[a]
            BY DEF Converted
        <3>3. Base(a) = IF manifest.base[a] = "given" THEN "given" ELSE "default"
            BY <2>2 DEF Base
        <3> QED
            BY <3>1, <3>2, <3>3
    <2>4. faults = 0 => exposed = manifest.expose
        BY <2>1, <2>2 DEF ExposedInv, IsManifest
    <2>5. related = {Key(Integrations[k]) : k \in DOMAIN Integrations}
        BY <2>1 DEF RelatedInv, Keys
    <2> QED
        BY <2>3, <2>4, <2>5 DEF SettledAsAsked
<1> QED
    BY <1>1, DeploymentInvariance, PTL

\* A manifest with its optional sections, scalar options and endpoints with a colon
\* takes no pass down.
LEMMA NoPanicNext == DeploymentInv /\ NoPanic /\ [Next]_vars => NoPanic'
<1> SUFFICES ASSUME DeploymentInv, NoPanic, [Next]_vars, ~NoPanic'
             PROVE  FALSE
    OBVIOUS
<1>1. manifest' = manifest /\ pc' = "panicked"
    <2>1. manifest' = manifest
        BY DEF Next, CredentialPanics, Begin, SectionMissing, ConversionFails, Convert,
            ChecksFail, AddCharm, ConfigPanics, DeployFails, Deploy, Expose, AppsChecked,
            EndpointPanics, IntegrationFound, CreateIntegration, IntegrationRefused,
            IntegrationsChecked, RequestFails, Restart, AppFound, AppMissing, vars
    <2> QED
        BY <2>1 DEF NoPanic
<1>2. /\ manifest.secret \in {"unneeded", "usable"} /\ manifest.defaultConfigs
      /\ \A a \in Apps : manifest.options[a] \notin {"null", "nested"}
      /\ \A k \in DOMAIN manifest.integrations :
            /\ Len(manifest.integrations[k]) = 2
            /\ NoName \notin {manifest.integrations[k][1].name, manifest.integrations[k][2].name}
      /\ pc # "panicked"
    BY <1>1 DEF NoPanic
<1>3. CASE CredentialPanics \/ SectionMissing
    BY <1>2, <1>3 DEF CredentialPanics, SectionMissing
<1>4. CASE ConfigPanics
    BY <1>2, <1>4 DEF ConfigPanics, NoString, DeploymentInv, TypeOK
<1>5. CASE EndpointPanics
    <2> DEFINE i == Integrations[place]
    <2>1. IsManifest(manifest) /\ place \in DOMAIN Integrations
        BY <1>5, IntegrationsTyped DEF EndpointPanics, DeploymentInv, TypeOK
    <2>2. i \in Seq([app : Apps, name : STRING])
        BY <2>1, IntegrationsTyped, ElementOfSeq
    <2>3. Len(i) = 2 /\ i[1].name # NoName /\ i[2].name # NoName
        <3>1. CASE \E j \in DOMAIN manifest.integrations : i = manifest.integrations[j]
            BY <1>2, <3>1
        <3>2. CASE \E j \in DOMAIN DefaultIntegrations : i = DefaultIntegrations[j]
            <4>1. PICK j \in DOMAIN DefaultIntegrations : i = DefaultIntegrations[j]
                BY <3>2
            <4>2. i \in Seq([app : Defaults, name : STRING \ {NoName}]) /\ Len(i) = 2
                BY <4>1, DefaultsAssumption, LenProperties, ElementOfSeq
            <4>3. 1 \in 1..Len(i) /\ 2 \in 1..Len(i)
                BY <4>2
            <4>4. \A k \in 1..Len(i) : i[k] \in [app : Defaults, name : STRING \ {NoName}]
                BY <4>2, ElementOfSeq
            <4> QED
                BY <4>2, <4>3, <4>4
        <3> QED
            BY <2>1, <3>1, <3>2, IntegrationsTyped
    <2>4. DOMAIN i = 1..2
        BY <2>2, <2>3, LenProperties
    <2>5. Parsable(i)
        BY <2>3, <2>4 DEF Parsable
    <2> QED
        BY <1>5, <2>5 DEF EndpointPanics
<1> QED
    BY <1>1, <1>2, <1>3, <1>4, <1>5 DEF Next, Begin, ConversionFails, Convert, ChecksFail,
        AddCharm, DeployFails, Deploy, Expose, AppsChecked, IntegrationFound,
        CreateIntegration, IntegrationRefused, IntegrationsChecked, RequestFails, Restart,
        AppFound, AppMissing, EndPass, Goto, vars

THEOREM NeverPanicsOverManifest == Spec => []NoPanic
<1>1. Init => NoPanic
    BY DEF Init, NoPanic
<1> QED
    BY <1>1, NoPanicNext, DeploymentInvariance, PTL DEF Spec
================================================================================
