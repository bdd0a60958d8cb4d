---------------------------- MODULE MCJujuCluster ----------------------------
(* Values for the constants of JujuCluster in the runs.                    *)
EXTENDS JujuCluster

MCIntegrations == {{CertApp, BalancerApp}}

Faults(kinds) == [k \in FaultKinds |-> IF k \in kinds THEN 1 ELSE 0]

\* Bound of a run: no behaviour with more faults than this is explored further.
MaxFaults == 3
FewFaults == Cardinality({k \in FaultKinds : ~Spared({k})}) <= MaxFaults

NoFaults  == Faults({})
AllFaults == Faults(FaultKinds)
\* Faults that delay a cluster and lose nothing.
DelayFaults == Faults({"call", "reply", "patch"})
==============================================================================
