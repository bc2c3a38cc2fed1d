-------------------------- MODULE MCSyscallReplay --------------------------
(* Small tasks for SyscallReplay.                                          *)
EXTENDS SyscallReplay

instr(o, k, l, r) == [op |-> o, ktx |-> k, list |-> l, res |-> r]
begin       == instr("begin", 0, FALSE, FALSE)
end         == instr("end", 0, FALSE, FALSE)
sys(k, l)   == instr("sys", k, l, TRUE)
noret(k, l) == instr("sys", k, l, FALSE)
out(k, l)   == instr("out", k, l, FALSE)

\* several calls in a transaction, an event_group_set and a delay among them;
\* the fourth call of the last transaction overflows three replay entries
SeveralCalls ==
    << begin, sys(1, TRUE), noret(1, TRUE), sys(2, FALSE), out(0, TRUE), end,
       begin, sys(1, TRUE), sys(1, TRUE), sys(0, FALSE), sys(0, FALSE), end >>

\* one call in each transaction, as in the loops of the demo
OneCallEach ==
    << begin, sys(2, TRUE), end, begin, sys(1, TRUE), out(0, TRUE), end,
       begin, end, begin, noret(0, TRUE), end, begin, sys(0, FALSE), end, out(1, FALSE) >>

\* calls without a result (sys_pfree) fill the slots and pass the end of the
\* cache; the last transaction asks for one more result
PastTheEnd ==
    << begin, sys(1, FALSE), noret(1, FALSE), noret(1, FALSE), noret(1, TRUE), noret(1, FALSE), end,
       begin, noret(1, FALSE), sys(1, FALSE), noret(0, TRUE), noret(1, FALSE), sys(1, FALSE), end >>

\* a delay in front of the transaction
DelayFirst == << out(0, TRUE), begin, sys(1, TRUE), end >>

\* with one call in a transaction three failures, with several only one
TasksDef == {[code |-> SeveralCalls, crashes |-> 1],
             [code |-> PastTheEnd, crashes |-> 1],
             [code |-> OneCallEach, crashes |-> 3]}

TasksDelay == {[code |-> DelayFirst, crashes |-> 1]}

=============================================================================
