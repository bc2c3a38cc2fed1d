------------------------------- MODULE Timer -------------------------------
(***************************************************************************)
(* The software timers of time.rs in the default build (opt_list): the     *)
(* tasks that command them, the command queue, the daemon that serves      *)
(* commands and expired timers, and the power failures between any two     *)
(* stores of the daemon and of its recovery                                *)
(* (recover_timer_daemon_list_transaction).                                *)
(*                                                                         *)
(* As in ListTx, persistent memory is the record pm, and the daemon's code *)
(* is todo, a sequence of stores and of calls; a call is replaced by its   *)
(* stores when it is reached.  The command queue is a bounded FIFO whose   *)
(* receive, once recorded, is replayed (Queue and SyscallReplay show it).  *)
(*                                                                         *)
(* A time is kept as the ticks from now, down to -MaxLate.                 *)
(*                                                                         *)
(* Windows names stretches of code in which the model finds that a failure *)
(* is not recovered from; Avoid selects those in which it does not strike. *)
(***************************************************************************)
EXTENDS PList, Integers

CONSTANTS
    Timer,          \* the timers that have been created
    AutoReload,     \* those with auto_reload
    FirstPeriod,    \* their period_ticks when they are created
    Scripts,        \* the commands tasks give, one sequence of them in a behaviour
    QueueSize,      \* CMD_QUEUE_SIZE
    MaxLate,        \* bound: by how many ticks a time is told to be past
    Wrap,           \* bound: the callbacks are counted modulo Wrap
    Never,          \* Time::MAX
    Avoid           \* the windows in which no failure strikes

Windows == {"unlisted_remove", "command_in_hand", "reload"}
Cmds    == {"Start", "Stop", "Reset", "Delete", "SetPeriod"}

ASSUME TimerAssumption ==
    /\ None \notin Timer /\ AutoReload \subseteq Timer
    /\ Never \in Nat /\ FirstPeriod \in [Timer -> 1 .. Never - 1]
    /\ \A s \in Scripts : s \in Seq([cmd : Cmds, timer : Timer, opaque : 0 .. Never - 1])
    /\ QueueSize \in Nat \ {0}
    /\ MaxLate \in Nat /\ Wrap \in Nat \ {0}
    /\ Avoid \subseteq Windows

\* a command with the time it was given at, counted when it enters the queue
Given == [cmd : Cmds, timer : Timer, opaque : Int]
Queued == [cmd : Cmds, timer : Timer, opaque : Int, id : Nat]
Invalid == [cmd |-> "Invalid"]

\* the values of what the callbacks write
Written == [Timer -> [fired : 0 .. Wrap - 1]]

\* the null link is none of them
ASSUME NoneAssumption == None \notin Given \cup Queued \cup {Invalid} \cup Written

VARIABLES
    pm,         \* persistent memory
    undo,       \* the user journal: what the callback has overwritten, or None
    queue,      \* the command queue
    call,       \* the command a task is giving, or None
    asleep,     \* the daemon is blocked on the queue
    until,      \* the ticks until it is woken all the same
    todo,       \* the daemon's stores and calls still to make
    at,         \* the function they belong to
    ticks,      \* the register wait_ticks of queue_block_until_not_empty
    script,     \* the commands that tasks give, chosen once
    sent,       \* history: the number of commands in the queue so far
    done,       \* history: the commands whose transaction has committed
    serving,    \* history: the timer whose expiry the last transaction serves, or None
    served,     \* history: for each timer the expiries whose list operation is done
    slip        \* history: the ticks since the daemon looked at the clock to block

history == <<script, sent, done, serving, served, slip>>
vars == <<pm, undo, queue, call, asleep, until, todo, at, ticks, history>>

(***************************************************************************)
(* Memory.                                                                 *)
(***************************************************************************)
Active == "active"      \* the active timer list

Log       == pm.log["log"]
Committed == pm.tx["tx"].committed
Replay    == pm.tx["tx"].replay
Head0     == pm.list[Active].head
Expiry(t) == pm.node[t].expiry
Listed(t) == t \in {Chain(pm, Active)[i] : i \in DOMAIN Chain(pm, Active)}

SetTxOp(o)      == Store("log", "log", "op", o)
SetBlockNode(n) == Store("log", "log", "block", n)
SetActive(t, b) == Store("timer", t, "active", b)
SetPeriod(t, k) == Store("timer", t, "period", k)
SetExpiry(t, k) == Store("node", t, "expiry", k)
SetFired(t, k)  == Store("user", t, "fired", k)
SetReplay(x)    == Store("tx", "tx", "replay", x)

\* TX_COMMITTED in the tail of the user transaction's cache
SetCommitted(b) == Store("tx", "tx", "committed", b)

Call(f, x) == [obj |-> "call", at |-> Active, field |-> f, val |-> x]

Invalidate         == <<StartOpLog("Invalid", 0), SetTxOp("Invalid")>>
CommitActivelist   == <<SetTxOp("ActiveListTxCommitted"), StartOpLog("Invalid", 0)>>
InvalidateActivelist == <<SetTxOp("Invalid")>>

\* begin, commit_no_replay and commit_no_replay_roll_forward of the user
\* transaction, and user_tx_end
Begin             == <<SetCommitted(FALSE)>>
CommitNoReplay    == <<SetCommitted(TRUE), Call("clear_journal", None)>>
CommitRollForward == <<Call("clear_journal", None), SetCommitted(TRUE)>>

\* (mutant) the received command stays recorded
KeepReplay == <<>>

UserTxEnd == <<SetReplay(None)>>

(***************************************************************************)
(* The list transactions of the timer daemon and their recovery.           *)
(***************************************************************************)
RemoveFromActivelist(t) ==
    <<SetBlockNode(t), SetTxOp("ActiveListRemove"), Call("remove", t)>> \o CommitActivelist

RemoveReinsertIntoActivelist(t) ==
    <<SetBlockNode(t), SetTxOp("ActiveListRemoveReInsert"), Call("remove", t), Call("insert", t)>>
    \o CommitActivelist

PopReinsertIntoActivelist(h) ==
    <<SetBlockNode(h), SetTxOp("ActiveListPopReInsert"), Call("pop_front", h), Call("insert", h)>>
    \o CommitActivelist

\* (mutant) the order is reversed
LaterTimers(t) == {x \in Timer : Expiry(x) > Expiry(t)}

\* the timers that t sorts behind (TimerListItem as Ord)
Earlier(t) == {x \in Timer : Expiry(x) < Expiry(t)}

InsertTimer(t) == OptimizedInsertSorted(pm, Active, t, "InsertSortedDelayList", Earlier(t))

\* the stores of a call, in the memory in which it is reached
Body(c) ==
    CASE c.field = "remove"    -> OptimizedRemove(pm, Active, c.val)
      [] c.field = "pop_front" -> OptimizedPopFront(pm, Active)
      [] c.field = "insert"    -> InsertTimer(c.val)
      [] c.field = "activate"  -> <<SetActive(c.val, TRUE), SetExpiry(c.val, pm.timer[c.val].period)>>
      [] c.field = "activate_at_command" ->
            <<SetActive(c.val, TRUE), SetExpiry(c.val, Replay.opaque + pm.timer[c.val].period)>>

\* (mutant) an operation that was under way is taken for complete
RollForwardNothing == CommitActivelist

\* the recover_and_roll_forward_of_activelist_* functions
RollForward ==
    LET n == Log.block
        again == CASE MicroOp(pm) = "Remove" ->
                        When(pm.node[n].list # None, RecoverFailedRemove(pm, Active, n))
                        \o <<Call("insert", n)>>
                   [] MicroOp(pm) = "PopFront" ->
                        When(pm.node[n].list # None, RecoverFailedPopFront(pm, Active, n))
                        \o <<Call("insert", n)>>
                   [] OTHER -> RecoverFailedInsertSorted(pm, Active, n, Earlier(n))
    IN  CASE Log.op = "ActiveListTxCommitted" -> <<>>
          [] Log.op = "ActiveListRemove" -> RecoverFailedRemove(pm, Active, n) \o CommitActivelist
          [] OTHER -> again \o CommitActivelist

\* the list operation of an uncommitted transaction has begun: it goes forward
Started ==
    \/ Log.op = "ActiveListTxCommitted"
    \/ Log.op # "Invalid" /\ MicroOp(pm) # "Invalid"

\* (mutant) the list operation is completed, its transaction rolled back
RecoverListOnly ==
    IF ~ Committed /\ Started THEN RollForward \o InvalidateActivelist ELSE <<>>

\* recover_timer_daemon_list_transaction
RecoverDaemon ==
    IF Committed THEN <<Call("clear_journal", None)>> \o UserTxEnd \o InvalidateActivelist
    ELSE IF ~ Started THEN <<>>
    ELSE RollForward \o CommitRollForward \o UserTxEnd \o InvalidateActivelist

(***************************************************************************)
(* The daemon.                                                             *)
(***************************************************************************)
ValidPeriod(k) == k > 0

\* dispatch of a received command
Dispatch(msg) ==
    LET t == msg.timer
    IN  CASE msg.cmd \in {"Start", "Reset"} ->
                <<Call("activate_at_command", t)>> \o RemoveReinsertIntoActivelist(t)
          [] msg.cmd \in {"Stop", "Delete"} -> <<SetActive(t, FALSE)>> \o RemoveFromActivelist(t)
          [] msg.cmd = "SetPeriod" ->
                When(ValidPeriod(msg.opaque),
                     <<SetPeriod(t, msg.opaque), Call("activate", t)>>
                     \o RemoveReinsertIntoActivelist(t))

\* the callback writes through the journal: it counts its calls
Callback(t) == <<Call("log", None), SetFired(t, (pm.user[t].fired + 1) % Wrap)>>

\* the transaction of process_expired_timer
Expire(t) ==
    Begin \o Callback(t)
    \o (IF t \in AutoReload
        THEN <<Call("activate", t)>> \o PopReinsertIntoActivelist(t)
        ELSE <<SetActive(t, FALSE)>> \o RemoveFromActivelist(t))
    \o CommitNoReplay

Running == todo = <<>> /\ ~ asleep

\* daemon_timer_task: process_expired_timer, then process_receive_timer_cmd,
\* again and again
ProcessExpiredTimer ==
    /\ Running /\ at \in {"start", "exit"}
    /\ at' = "expired"
    /\ todo' = Invalidate
               \o (IF Head0 # None /\ Expiry(Head0) <= 0 THEN Expire(Head0)
                   ELSE <<Call("look", None), Call("block", None)>>)
    /\ UNCHANGED <<pm, undo, queue, call, asleep, until, ticks, history>>

ProcessReceiveTimerCmd ==
    /\ Running /\ at \in {"expired", "receive"}
    /\ at' = "receive"
    /\ todo' = Invalidate \o Begin \o <<Call("receive", None)>>
    /\ UNCHANGED <<pm, undo, queue, call, asleep, until, ticks, history>>

Reached(f) == todo # <<>> /\ Head(todo).obj = "call" /\ Head(todo).field = f

\* sys_queue_receive, which does not wait: the recorded result, or the first
\* command of the queue, recorded; an error leaves the loop
Receive ==
    LET msg == IF Replay # None THEN Replay
               ELSE IF queue # <<>> THEN Head(queue)
               ELSE Invalid
    IN  /\ Reached("receive")
        /\ pm' = Apply(pm, SetReplay(msg))
        /\ queue' = IF Replay = None /\ queue # <<>> THEN Tail(queue) ELSE queue
        /\ todo' = When(msg.cmd # "Invalid", Dispatch(msg)) \o CommitNoReplay \o UserTxEnd
        /\ at' = IF msg.cmd = "Invalid" THEN "exit" ELSE at
        /\ UNCHANGED <<undo, call, asleep, until, ticks, history>>

\* (mutant) the daemon waits for commands only
WaitForever == Never

\* the time to wait is the time until the first timer expires
WaitTicks == IF Head0 = None THEN Never ELSE Expiry(Head0)

Look ==
    /\ Reached("look")
    /\ ticks' = WaitTicks
    /\ slip' = 0
    /\ todo' = IF Head0 # None /\ Expiry(Head0) <= 0 THEN <<>> ELSE Tail(todo)
    /\ UNCHANGED <<pm, undo, queue, call, asleep, until, at, script, sent, done, serving, served>>

\* queue_block_until_not_empty
QueueBlockUntilNotEmpty ==
    /\ Reached("block")
    /\ todo' = Tail(todo)
    /\ IF queue = <<>> THEN asleep' = TRUE /\ until' = ticks ELSE UNCHANGED <<asleep, until>>
    /\ ticks' = 0
    /\ UNCHANGED <<pm, undo, queue, call, at, history>>

\* a write through the journal first logs the old value; committing clears it
UseJournal ==
    /\ Reached("log") \/ Reached("clear_journal")
    /\ undo' = IF Reached("log") THEN pm.user ELSE None
    /\ todo' = Tail(todo)
    /\ UNCHANGED <<pm, queue, call, asleep, until, at, ticks, history>>

Reach ==
    /\ \E f \in {"remove", "pop_front", "insert", "activate", "activate_at_command"} : Reached(f)
    /\ todo' = Body(Head(todo)) \o Tail(todo)
    /\ UNCHANGED <<pm, undo, queue, call, asleep, until, at, ticks, history>>

\* one store; the history notes what it means
StoreNext ==
    LET s == Head(todo)
        listDone == s = SetTxOp("ActiveListTxCommitted")
    IN  /\ todo # <<>> /\ s.obj # "call"
        /\ pm' = Apply(pm, s)
        /\ todo' = Tail(todo)
        /\ serving' = IF s # SetCommitted(FALSE) THEN serving
                      ELSE IF at = "expired" THEN Head0 ELSE None
        /\ served' = IF listDone /\ serving # None
                     THEN [served EXCEPT ![serving] = (@ + 1) % Wrap] ELSE served
        /\ done' = IF s = SetCommitted(TRUE) /\ serving = None /\ Replay # None /\ Replay.cmd # "Invalid"
                   THEN Append(done, Replay.id) ELSE done
        /\ UNCHANGED <<undo, queue, call, asleep, until, at, ticks, script, sent, slip>>

(***************************************************************************)
(* Tasks, ticks and failures.                                              *)
(***************************************************************************)
\* recover runs before the interrupts are enabled
Booting == at = "boot" /\ todo # <<>>

\* start_timer and reset_timer look at the clock, the others do not
Dated(msg) == msg # None /\ msg.cmd \in {"Start", "Reset"}

Command ==
    /\ ~ Booting /\ call = None /\ sent < Len(script)
    /\ call' = script[sent + 1]
    /\ UNCHANGED <<pm, undo, queue, asleep, until, todo, at, ticks, history>>

\* queue_send_back wakes the daemon, which is the only reader
Send ==
    /\ ~ Booting /\ call # None /\ Len(queue) < QueueSize
    /\ sent' = sent + 1
    /\ queue' = Append(queue, [cmd |-> call.cmd, timer |-> call.timer, opaque |-> call.opaque,
                               id |-> sent + 1])
    /\ call' = None
    /\ asleep' = FALSE /\ until' = 0
    /\ UNCHANGED <<pm, undo, todo, at, ticks, script, done, serving, served, slip>>

\* the task has waited for wait_ticks: CmdQueueBusy
CmdQueueBusy ==
    /\ ~ Booting /\ call # None /\ Len(queue) = QueueSize
    /\ call' = None
    /\ UNCHANGED <<pm, undo, queue, asleep, until, todo, at, ticks, history>>

Later(k) == IF k <= -MaxLate THEN -MaxLate ELSE k - 1
Aged(msg) == IF Dated(msg) THEN [msg EXCEPT !.opaque = Later(@)] ELSE msg

\* the tick interrupt, which wakes the daemon when it is due; the clock does not
\* run ahead of a daemon that is MaxLate behind
Tick ==
    /\ ~ Booting
    /\ asleep \/ \A t \in Timer : Listed(t) => Expiry(t) > -MaxLate
    /\ pm' = [pm EXCEPT !.node = [t \in Timer |-> [pm.node[t] EXCEPT !.expiry = Later(@)]],
                        !.tx["tx"].replay = Aged(@)]
    /\ queue' = [i \in DOMAIN queue |-> Aged(queue[i])]
    /\ call' = Aged(call)
    /\ until' = IF ~ asleep \/ until \in {0, Never} THEN until ELSE until - 1
    /\ asleep' = (asleep /\ until > 1)
    /\ slip' = IF Reached("block") /\ slip < Never + MaxLate THEN slip + 1
               ELSE IF asleep THEN slip ELSE 0
    /\ UNCHANGED <<undo, todo, at, ticks, script, sent, done, serving, served>>

\* a command that was received and not yet carried out
InHand ==
    IF Replay = None \/ Replay.cmd = "Invalid" \/ (Committed /\ serving = None) THEN <<>>
    ELSE <<Replay.id>>

InWindow(w) ==
    CASE w = "unlisted_remove" ->
            /\ Log.op = "ActiveListRemove" /\ MicroOp(pm) = "Remove"
            /\ pm.node[Log.block].list = None /\ pm.list[Active].len = OldLen(pm)
      [] w = "command_in_hand" -> InHand # <<>> /\ serving # None
      [] w = "reload" -> serving # None /\ ~ Committed /\ ~ Started /\ Expiry(serving) > 0

\* the daemon's code and registers are lost; a task that was giving a command
\* looks at the clock anew
PowerFailure ==
    /\ \A w \in Avoid : ~ InWindow(w)
    /\ at' = "boot" /\ todo' = RecoverDaemon
    /\ call' = IF Dated(call) THEN [call EXCEPT !.opaque = 0] ELSE call
    /\ ticks' = 0
    /\ UNCHANGED <<pm, undo, queue, asleep, until, history>>

\* jit_recovery of the daemon, when it is given the processor again
JitRecovery ==
    /\ Running /\ at = "boot"
    /\ pm' = IF Committed THEN Apply(pm, SetReplay(None))
             ELSE IF undo # None THEN [pm EXCEPT !.user = undo] ELSE pm
    /\ undo' = None
    /\ at' = "start"
    /\ UNCHANGED <<queue, call, asleep, until, todo, ticks, history>>

Init ==
    /\ pm = [node  |-> [t \in Timer |-> [prev |-> None, next |-> None, list |-> None, expiry |-> 0]],
             list  |-> [l \in {Active} |-> [len |-> 0, cursor |-> None, head |-> None]],
             log   |-> [x \in {"log"} |-> [op |-> "Invalid", block |-> None,
                                           micro |-> [op |-> "Invalid", len |-> 0]]],
             timer |-> [t \in Timer |-> [active |-> FALSE, period |-> FirstPeriod[t]]],
             user  |-> [t \in Timer |-> [fired |-> 0]],
             tx    |-> [x \in {"tx"} |-> [committed |-> FALSE, replay |-> None]]]
    /\ undo = None /\ queue = <<>> /\ call = None
    /\ asleep = FALSE /\ until = 0 /\ todo = <<>> /\ at = "start" /\ ticks = 0
    /\ script \in Scripts /\ sent = 0 /\ done = <<>> /\ serving = None /\ served = [t \in Timer |-> 0] /\ slip = 0

Daemon ==
    \/ ProcessExpiredTimer \/ ProcessReceiveTimerCmd \/ Receive \/ Look
    \/ QueueBlockUntilNotEmpty \/ UseJournal \/ Reach \/ StoreNext \/ JitRecovery

Next ==
    \/ Daemon \/ Command \/ Send \/ CmdQueueBusy
    \/ Tick \/ PowerFailure

Spec == Init /\ [][Next]_vars

\* the daemon has the highest priority and is only held up by the tick
Fairness == SF_vars(Daemon) /\ WF_vars(Tick)

FairSpec == Spec /\ Fairness

(***************************************************************************)
(* Properties.                                                             *)
(***************************************************************************)
Message == [cmd : Cmds, timer : Timer, opaque : -MaxLate .. Never, id : 1 .. Len(script)]

\* Every variable keeps its type.
TypeOK ==
    /\ \A t \in Timer : Expiry(t) \in -MaxLate .. Never /\ pm.timer[t].period \in 1 .. Never
    /\ Replay \in Message \cup {None, Invalid}
    /\ queue \in Seq(Message) /\ Len(queue) <= QueueSize
    /\ asleep \in BOOLEAN /\ until \in 0 .. Never
    /\ at \in {"boot", "start", "expired", "receive", "exit"}

\* Every command that got into the queue is carried out once, in the order of
\* the queue: it is not lost, repeated or overtaken although a power failure
\* may strike between its receipt, its list operation and its commit.
CommandsInOrder ==
    done \o InHand \o [i \in DOMAIN queue |-> queue[i].id] = [i \in 1 .. sent |-> i]

AtRest == todo = <<>> /\ at # "boot"

\* What the callback of a timer wrote is kept exactly as often as the timer was
\* taken off the list for an expiry: a failure does not run it twice for one
\* expiry, nor undo it when the list has moved on.
CallbackOncePerExpiry == AtRest => \A t \in Timer : pm.user[t].fired = served[t]

\* Whenever the daemon is at rest the list is whole: its length, its links and
\* the containers of its nodes agree; and when its last transaction has
\* committed, the list holds exactly the timers that are active.
ActiveListIntact ==
    AtRest =>
        /\ pm.list[Active].len = Len(Chain(pm, Active))
        /\ \A t \in Timer :
              /\ pm.node[t].list # None <=> Listed(t)
              /\ Committed /\ InHand = <<>> => (pm.timer[t].active <=> Listed(t))

\* While the daemon sleeps no active timer is due before it wakes, but for the
\* ticks that fell between its look at the clock and its block.
WakesForEveryTimer ==
    asleep /\ InHand = <<>> => \A t \in Timer : Listed(t) => until - slip <= Expiry(t)

\* Once the power stays on, a timer in the list gets its callback or is stopped.
ActiveTimersFire ==
    <>[][~ PowerFailure]_vars => \A t \in Timer : []<>(Listed(t) => serving = t)

\* Once the power stays on, every command in the queue is carried out.
CommandsServed ==
    <>[][~ PowerFailure]_vars => []<>(queue = <<>> /\ InHand = <<>>)

=============================================================================
