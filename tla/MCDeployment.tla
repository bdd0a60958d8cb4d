------------------------------ MODULE MCDeployment ------------------------------
(* Values for the constants of Deployment in the run.                      *)
EXTENDS Deployment

CONSTANTS easyrsa, worker, cni, storage

MCOrder == <<easyrsa, worker>>
End(a, n) == [app |-> a, name |-> n]

\* easyrsa provides certificates; the others require them.
MCProviders == {End(easyrsa, "client"), End(worker, "cni")}
MCRequirers == {End(worker, "certificates"), End(worker, "ca"), End(cni, "certificates"),
                End(cni, "cni")}
MCDefaultIntegrations == <<<<End(worker, "certificates"), End(easyrsa, "client")>>>>

\* In either order, twice, again the default one, two integrations of
\* the same applications, without a colon, a single
\* endpoint, two that do not fit, three.
MCIntegrations == {
    <<>>,
    <<<<End(cni, "certificates"), End(easyrsa, "client")>>>>,
    <<<<End(easyrsa, "client"), End(cni, "certificates")>>,
      <<End(cni, "cni"), End(worker, "cni")>>>>,
    <<<<End(easyrsa, "client"), End(worker, "certificates")>>>>,
    <<<<End(cni, "certificates"), End(easyrsa, "client")>>,
      <<End(easyrsa, "client"), End(cni, "certificates")>>>>,
    <<<<End(worker, "ca"), End(easyrsa, "client")>>>>,
    <<<<End(cni, NoName), End(easyrsa, "client")>>>>,
    <<<<End(cni, "certificates"), End(easyrsa, NoName)>>>>,
    <<<<End(cni, "certificates")>>>>,
    <<<<End(cni, "certificates"), End(worker, "certificates")>>>>,
    <<<<End(cni, "cni"), End(worker, "cni"), End(easyrsa, "client")>>>>}

Good == [secret |-> "usable", defaultConfigs |-> TRUE,
         options |-> [a \in Apps |-> "whole"], base |-> [a \in Apps |-> "given"],
         charm |-> [a \in Apps |-> "good"], expose |-> {worker},
         integrations |-> <<>>]

WithSecret == {[Good EXCEPT !.secret = s] :
                  s \in {"unneeded", "usable", "unusable", "noSection"}}
WithoutDefaults == {[Good EXCEPT !.defaultConfigs = FALSE]}
WithOption(m) == {[m EXCEPT !.options[a] = k] : a \in Apps, k \in OptionKinds}
WithBase(m)   == {[m EXCEPT !.base[a] = "empty"] : a \in Apps}
WithCharm(m)  == {[m EXCEPT !.charm[a] = c] : a \in Apps, c \in Charms}
WithIntegrations(m) == {[m EXCEPT !.integrations = i] : i \in MCIntegrations}
WithExpose(m) == {[m EXCEPT !.expose = e] : e \in SUBSET {worker, cni}}

Deviations(m) == WithOption(m) \cup WithBase(m) \cup WithCharm(m)
                 \cup WithIntegrations(m) \cup WithExpose(m)

\* Manifests that differ from a good one in at most two places.
MCManifests == WithSecret \cup WithoutDefaults
               \cup UNION {Deviations(m) : m \in Deviations(Good)}
================================================================================
