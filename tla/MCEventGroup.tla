--------------------------- MODULE MCEventGroup ---------------------------
(* Instances of EventGroup for TLC. *)
EXTENDS EventGroup, TLC

CONSTANTS a, b, c, idle

\* calls of the user transaction n
Sync(s, k, n) == [op |-> "sync", set |-> {s}, for |-> {1, 2}, clear |-> FALSE, all |-> FALSE,
                  ticks |-> k, tx |-> n]
Set(s, n)     == [op |-> "set", set |-> s, for |-> {}, clear |-> FALSE, all |-> FALSE,
                  ticks |-> 0, tx |-> n]
Await(f, cl, al, k, n) == [op |-> "wait", set |-> {}, for |-> f, clear |-> cl, all |-> al,
                           ticks |-> k, tx |-> n]

TaskDef     == {a, b, c, idle}
WaitListDef == {Waiters}

\* c is more important than a and b
PrioDef == (a :> 2) @@ (b :> 2) @@ (c :> 1) @@ (idle :> 3)

\* a and b meet twice; c looks for the bit they set afterwards, waits for it and
\* looks again, the first time in a user transaction of its own (n = 1) or not
Programs(n) ==
    (a :> <<Sync(1, Never, 1), Sync(1, Never, 1), Set({3}, 2)>>)
        @@ (b :> <<Sync(2, Never, 1), Sync(2, Never, 2), Sync(3, 0, 2)>>)
        @@ (c :> <<Await({3}, TRUE, FALSE, 0, n), Await({3}, TRUE, TRUE, 1, 2),
                   Await({3}, TRUE, FALSE, 0, 2)>>)
        @@ (idle :> <<>>)

ProgramDef      == Programs(1)
ProgramOneTxDef == Programs(2)

\* what Rendezvous asks of the programs
ASSUME ProgramsMeet == Meeting

=============================================================================
