---------------------------- MODULE MCSemaphore ----------------------------
(* Instances of Semaphore for TLC. *)
EXTENDS Semaphore, TLC

CONSTANTS a, b, c, idle

TaskDef     == {a, b, c, idle}
WaitListDef == {Waiters}

\* c is more important than a and b
PrioDef   == (a :> 2) @@ (b :> 2) @@ (c :> 1) @@ (idle :> 3)
RoundsDef == (a :> 2) @@ (b :> 1) @@ (c :> 1) @@ (idle :> 0)

=============================================================================
