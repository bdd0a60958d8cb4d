---------------------------- MODULE MCJujuMachine ----------------------------
(* Values for the constants of JujuMachine in the runs.                    *)
EXTENDS JujuMachine, TLC

\* Machine numbers and applications are interchangeable.
Symmetry == Permutations(MachineIDs) \cup Permutations(Apps)

Faults(kinds) == [k \in FaultKinds |-> IF k \in kinds THEN 1 ELSE 0]

AllFaults == Faults(FaultKinds)

\* Nothing comes between a request for a machine and the record of it.
OwnershipFaults == Faults({"call", "machineLost"})

\* What a later pass has to make good.
LiveFaults == Faults({"patch", "crash", "unitError"})
==============================================================================
