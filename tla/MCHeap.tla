------------------------------- MODULE MCHeap -------------------------------
(* An instance of Heap for TLC. *)
EXTENDS Heap, TLC

Create(k, f)      == [op |-> "create", heap |-> k, valid |-> TRUE, func |-> f]
Palloc(n, a)      == [op |-> "palloc", size |-> n, align |-> a]
PallocArray(n)    == [op |-> "palloc_array", size |-> n]
Pfree(n)          == [op |-> "pfree", size |-> n]
NewQueue(n, a, b) == [op |-> "queue_new", size |-> n, align |-> a, buffer |-> b]

\* the idle task without a heap, a task, a queue of the boot heap, and a
\* task with an invalid priority
BootProgramDef ==
    <<Create(0, "idle"), Create(5, "maker"), NewQueue(2, 2, 1),
      [op |-> "create", heap |-> 1, valid |-> FALSE, func |-> "idle"], Create(3, "user")>>

\* the maker allocates, frees, creates a task for which there is no region
\* left and one more than there may be; the user has an array, an object that
\* its alignment makes too large, and a queue whose buffer does not fit
ProgramsDef ==
    [idle  |-> <<>>,
     maker |-> <<Palloc(2, 2), Create(3, "late"), Pfree(2), Create(1, "idle")>>,
     user  |-> <<PallocArray(1), NewQueue(1, 1, 2), Palloc(1, 2)>>,
     late  |-> <<Palloc(1, 1)>>]

=============================================================================
