------------------------------ MODULE MCNvLoop -----------------------------
(* Small tasks for NvLoop.                                                 *)
EXTENDS NvLoop

i(op, arg) == [op |-> op, arg |-> arg]

\* results before, in and behind two nested for loops
Nested ==
    << i("tx", 1), i("init", 0), i("for", 2),
           i("tx", 1), i("init", 0), i("for", 2), i("tx", 1), i("next", 6),
       i("next", 3), i("tx", 1) >>

\* a for loop in an infinite loop, behind a for loop
Endless ==
    << i("tx", 1), i("init", 0), i("for", 2), i("tx", 0), i("next", 3),
       i("loop", 0), i("tx", 1), i("init", 0), i("for", 1), i("tx", 1),
       i("next", 9), i("again", 6) >>

\* a result before a loop whose body returns results
ResultThenLoop ==
    << i("tx", 1), i("init", 0), i("for", 2), i("tx", 1), i("next", 3) >>

\* the loop of the demo
DemoLoop == << i("tx", 1), i("loop", 0), i("tx", 0), i("again", 2) >>

ProgramsDef == {Nested, Endless, DemoLoop}
Programs32  == {ResultThenLoop}

=============================================================================
