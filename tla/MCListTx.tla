------------------------------ MODULE MCListTx ------------------------------
(* Small sets of tasks for ListTx.                                         *)
EXTENDS ListTx

CONSTANTS a, b, d, idle

\* two tasks that share a ready list, and the idle task
ThreePrio == (a :> 1) @@ (b :> 1) @@ (idle :> 2)
ThreeBoot == <<a, idle, b>>

\* three tasks of different priorities, and the idle task
FourPrio == (a :> 1) @@ (b :> 2) @@ (d :> 0) @@ (idle :> 3)
FourBoot == <<a, idle, b, d>>

=============================================================================
