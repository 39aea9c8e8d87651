----------------------------- MODULE CpuSharing -----------------------------
(***************************************************************************)
(* What the ktux scheduler promises, without tables, lists, time slices or *)
(* stacks: one processor shared by the threads that are alive.  A thread   *)
(* is born once and dies once, only by its own doing, and nothing but a    *)
(* live thread is ever given the processor.                                *)
(***************************************************************************)
CONSTANTS Thread, NoThread

VARIABLES live, dead, cpu

vars == <<live, dead, cpu>>

Init ==
    /\ live = {}
    /\ dead = {}
    /\ cpu = NoThread

Spawn ==
    /\ \E t \in Thread \ (live \cup dead) : live' = live \cup {t}
    /\ UNCHANGED <<dead, cpu>>

Give ==
    /\ cpu' \in live
    /\ UNCHANGED <<live, dead>>

(***************************************************************************)
(* A dead thread keeps the processor until it is given to another one.     *)
(***************************************************************************)
Die ==
    /\ cpu \in live
    /\ live' = live \ {cpu}
    /\ dead' = dead \cup {cpu}
    /\ UNCHANGED cpu

Halt ==
    /\ live = {}
    /\ cpu \in dead
    /\ cpu' = NoThread
    /\ UNCHANGED <<live, dead>>

Next == Spawn \/ Give \/ Die \/ Halt

Spec == Init /\ [][Next]_vars
=============================================================================
