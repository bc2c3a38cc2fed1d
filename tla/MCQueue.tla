------------------------------ MODULE MCQueue ------------------------------
(* Instances of Queue for TLC. *)
EXTENDS Queue, TLC

CONSTANTS a, b, c, idle

Snd(k) == [op |-> "send_back", ticks |-> k]
Urg(k) == [op |-> "send_front", ticks |-> k]
Rcv(k) == [op |-> "receive", ticks |-> k]

TaskDef     == {a, b, c, idle}
WaitListDef == {Readers, Writers}

\* c is more important than a and b
PrioDef == (a :> 2) @@ (b :> 2) @@ (c :> 1) @@ (idle :> 3)

\* readers and writers compete, b and c change sides, and the senders can
\* fill the queue
ProgramDef ==
    (a :> <<Snd(2), Urg(1), Snd(1)>>) @@ (b :> <<Rcv(2), Snd(1), Rcv(0)>>) @@ (c :> <<Rcv(1), Snd(0)>>)
        @@ (idle :> <<>>)

=============================================================================
