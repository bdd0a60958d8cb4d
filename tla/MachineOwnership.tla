--------------------------- MODULE MachineOwnership ---------------------------
(***************************************************************************)
(* What the JujuMachine controller promises about the machines it asks     *)
(* Juju for, without saying how: an object is put under guard before any   *)
(* machine is acquired for it, it acquires at most one, and it is released *)
(* only after that machine is gone.  No machine of a Juju model is then    *)
(* left behind by an object that no longer exists.                         *)
(***************************************************************************)
CONSTANTS Objects, MachineIDs

VARIABLES
    guarded,  \* objects that cannot disappear without the controller
    released, \* objects that have disappeared
    issued,   \* the machines acquired for every object
    live      \* machines that exist

vars == <<guarded, released, issued, live>>

Init ==
    /\ guarded = {} /\ released = {} /\ live = {}
    /\ issued = [o \in Objects |-> {}]

Guard(o) ==
    /\ o \notin guarded \cup released
    /\ guarded' = guarded \cup {o}
    /\ UNCHANGED <<released, issued, live>>

Acquire(o, i) ==
    /\ o \in guarded /\ issued[o] = {}
    /\ \A p \in Objects : i \notin issued[p]
    /\ issued' = [issued EXCEPT ![o] = {i}]
    /\ live' = live \cup {i}
    /\ UNCHANGED <<guarded, released>>

Die(i) ==
    /\ i \in live
    /\ live' = live \ {i}
    /\ UNCHANGED <<guarded, released, issued>>

\* An object that was never guarded has no machine: it may go at any time.
Release(o) ==
    /\ o \notin released /\ issued[o] \cap live = {}
    /\ guarded' = guarded \ {o}
    /\ released' = released \cup {o}
    /\ UNCHANGED <<issued, live>>

Next ==
    \/ \E o \in Objects : Guard(o) \/ Release(o) \/ \E i \in MachineIDs : Acquire(o, i)
    \/ \E i \in MachineIDs : Die(i)

Spec == Init /\ [][Next]_vars
===============================================================================
