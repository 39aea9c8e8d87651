-------------------------- MODULE SchedulerBypass --------------------------
(***************************************************************************)
(* Scheduler with a history variable: ran[t] is the set of threads that    *)
(* were given the processor since t last held it or became live.           *)
(***************************************************************************)
EXTENDS Scheduler

VARIABLE ran

(***************************************************************************)
(* A step that gives the processor away, to the same thread included (its  *)
(* quantum is then renewed).                                               *)
(***************************************************************************)
Given ==
    /\ pCurrentTask' # NULL
    /\ \/ pCurrentTask' # pCurrentTask
       \/ quantum'[pCurrentTask'] > quantum[pCurrentTask']

BypassInit == Init /\ ran = [t \in Threads |-> {}]

BypassNext ==
    /\ Next
    /\ ran' = [t \in Threads |->
                 IF t \notin Live' \/ t = pCurrentTask' THEN {}
                 ELSE IF Given THEN ran[t] \cup {pCurrentTask'}
                 ELSE ran[t]]

BypassSpec == BypassInit /\ [][BypassNext]_<<vars, ran>>

FairBypassSpec == BypassSpec /\ Fairness

(***************************************************************************)
(* Round robin: while a live thread waits, __task_switch gives no other    *)
(* thread the processor twice, whatever threads are created, killed or     *)
(* yield meanwhile.  The wait is thus at most one slice per thread.        *)
(***************************************************************************)
NoOvertaking ==
    [][Given => \A t \in Live \cap Live' :
          t # pCurrentTask' => pCurrentTask' \notin ran[t]]_<<vars, ran>>
=============================================================================
