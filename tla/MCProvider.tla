------------------------------ MODULE MCProvider ------------------------------
(* Values for the constants of Provider in the runs.                       *)
EXTENDS Provider

CrashFault == [k \in FaultKinds |-> IF k = "crash" THEN 1 ELSE 0]
===============================================================================
