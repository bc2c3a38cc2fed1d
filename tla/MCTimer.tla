------------------------------ MODULE MCTimer ------------------------------
(* Instances of Timer for TLC. *)
EXTENDS Timer, TLC

CONSTANTS periodic, oneshot

TimerDef       == {periodic, oneshot}
AutoReloadDef  == {periodic}
FirstPeriodDef == (periodic :> 2) @@ (oneshot :> 1)

Cmd(c, t, k) == [cmd |-> c, timer |-> t, opaque |-> k]

ScriptsDef ==
    {<<Cmd("Start", periodic, 0), Cmd("Start", oneshot, 0), Cmd("Reset", periodic, 0)>>,
     <<Cmd("SetPeriod", oneshot, 2), Cmd("Start", periodic, 0), Cmd("Stop", oneshot, 0)>>,
     <<Cmd("Start", periodic, 0), Cmd("SetPeriod", periodic, 0), Cmd("Delete", periodic, 0)>>}

=============================================================================
