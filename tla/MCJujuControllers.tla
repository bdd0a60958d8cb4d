--------------------------- MODULE MCJujuControllers ---------------------------
(* Values for the constants of JujuControllers in the runs.                *)
EXTENDS JujuControllers, TLC

CONSTANTS short, long, namesake, \* JujuClusters
          a, ab                  \* names, the first a part of the second

MCName  == (short :> a) @@ (long :> ab) @@ (namesake :> ab)
MCCreations == (short :> 2) @@ (long :> 1) @@ (namesake :> 1)
MCFound == (a :> {a, ab}) @@ (ab :> {ab})
================================================================================
