------------------------------- MODULE ListTx -------------------------------
(***************************************************************************)
(* The roll-forward list transactions of list.rs: how a task moves between *)
(* the ready, delay and wait lists when the power may fail between any two *)
(* stores, and how recover_list_transaction (recover.rs) completes a move  *)
(* from ListTxOpLog.                                                       *)
(*                                                                         *)
(* Persistent memory is the record pm.  The code that is running is todo,  *)
(* a sequence of stores and of calls; a call is replaced by its stores     *)
(* when it is reached.  A power failure drops todo and starts the recovery *)
(* code the log selects; recovery can fail in the same way.                *)
(*                                                                         *)
(* The operations are those of the callers in task.rs, queue.rs,           *)
(* semaphore.rs and event_group.rs, one wait list and one event group of   *)
(* them.  When the transaction of a system call is not yet done, the call  *)
(* is made again after recovery (SyscallReplay).                           *)
(*                                                                         *)
(* Windows names stretches of code in which the model finds that a failure *)
(* is not recovered from; Avoid selects those in which it does not strike. *)
(***************************************************************************)
EXTENDS PList, SequencesExt

CONSTANTS
    Task,       \* tasks
    Idle,       \* the idle task, which never blocks
    Prio,       \* Prio[t]: index of the task's ready list
    Key,        \* wake-up times
    Boot,       \* the order in which boot creates the tasks
    Ops,        \* the operations tasks perform
    Avoid       \* the windows in which no failure strikes

AllOps == {"wait", "group", "delay", "pop", "set_bits"}

Windows == {"tx_not_started", "no_container", "last_ready", "delay_removal",
            "switch_level", "boot_commit", "boot_replay", "unblock_time",
            "group_len", "group_sorted"}

Levels == {Prio[t] : t \in Task}
MaxDelay == Max(Key) + 1     \* MAX_DELAY_TIME

ASSUME ListTxAssumption ==
    /\ Idle \in Task /\ None \notin Task
    /\ Prio \in [Task -> Nat]
    /\ Key \subseteq Nat
    /\ Boot \in Seq(Task) /\ {Boot[i] : i \in DOMAIN Boot} = Task
    /\ Ops \subseteq AllOps /\ Avoid \subseteq Windows

VARIABLES
    pm,         \* persistent memory
    todo,       \* the stores and calls still to make
    op,         \* the operation they belong to, None when there is none
    lists,      \* the lists as they were when nothing was under way last
    call,       \* for each task the system call it is in: "none", "pop" or "delay"
    boot,       \* the next task boot creates; past the end, it is done
    tick        \* the time whose tick is being processed, or None

vars == <<pm, todo, op, lists, call, boot, tick>>

(***************************************************************************)
(* Nodes, lists and tables.                                                *)
(***************************************************************************)
SchedNode(t) == <<"sched", t>>
EventNode(t) == <<"event", t>>
Node  == {SchedNode(t) : t \in Task} \cup {EventNode(t) : t \in Task}
Owner(n) == n[2]

ReadyList(t) == <<"ready", Prio[t]>>
DelayList == <<"delay", 0>>
WaitList  == <<"wait", 0>>
GroupList == <<"group", 0>>
List == {ReadyList(t) : t \in Task} \cup {DelayList, WaitList, GroupList}

Log == pm.log["log"]
Sys == pm.sys["sys"]
Status(t) == pm.task[t].status
Done(t)   == pm.task[t].done
WakeUp(t) == pm.task[t].wake

SetTxOp(o)        == Store("log", "log", "op", o)
SetBlockNode(n)   == Store("log", "log", "block", n)

SetTaskPtr(t)     == Store("log", "log", "task", t)
SetWaitListPtr(l) == Store("log", "log", "wl", l)
SetStatus(t, x)   == Store("task", t, "status", x)
SetDone(t, x)     == Store("task", t, "done", x)
SetWakeUp(t, k)   == Store("task", t, "wake", k)
SetCurrent(t)     == Store("sys", "sys", "cur", t)
SetUnblockTime(k) == Store("sys", "sys", "unblock", k)
Panic             == <<Store("sys", "sys", "panic", TRUE)>>

\* ListTxOpLog::commit and ::invalidate
Commit     == <<StartOpLog("Invalid", 0), SetDone(Sys.cur, TRUE), SetTxOp("Invalid")>>
Invalidate == <<StartOpLog("Invalid", 0), SetTxOp("Invalid")>>

(***************************************************************************)
(* Calls.  The sort orders are SchedListItem and BlockedListItem as Ord:   *)
(* a more important task is the greater one.                               *)
(***************************************************************************)
Call(f, l, n) == [obj |-> "call", at |-> l, field |-> f, val |-> n]

\* the nodes that n sorts behind, by wake-up time and by priority
EarlierNodes(n) == {x \in Node : WakeUp(Owner(x)) < WakeUp(Owner(n))}

LessImportantNodes(n) == {x \in Node : Prio[Owner(x)] > Prio[Owner(n)]}

\* the insert of CircularPList, SortedPList and UnsortedPList
Insert(l, n) ==
    IF l = DelayList THEN OptimizedInsertSorted(pm, l, n, "InsertSortedDelayList", EarlierNodes(n))
    ELSE IF l = WaitList THEN OptimizedInsertSorted(pm, l, n, "InsertSortedWaitList", LessImportantNodes(n))
    ELSE IF l = GroupList THEN OptimizedInsertFront(pm, l, n)
    ELSE OptimizedInsertBeforeCursor(pm, l, n)

RecoverInsert(l, n) ==
    IF l = DelayList THEN RecoverFailedInsertSorted(pm, l, n, EarlierNodes(n))
    ELSE IF l = WaitList THEN RecoverFailedInsertSorted(pm, l, n, LessImportantNodes(n))
    ELSE IF l = GroupList THEN RecoverFailedInsertFront(pm, l, n)
    ELSE RecoverFailedInsertBeforeCursor(pm, l, n)

\* the stores of a call, in the memory in which it is reached
Body(c) ==
    CASE c.field = "insert"         -> Insert(c.at, c.val)
      [] c.field = "insert_wait"    ->
            OptimizedInsertSorted(pm, c.at, c.val, "InsertSortedWaitList", LessImportantNodes(c.val))
      [] c.field = "remove"         -> OptimizedRemove(pm, c.at, c.val)
      [] c.field = "pop_front"      -> OptimizedPopFront(pm, c.at)
      [] c.field = "leave_wait"     ->
            LET l == pm.node[c.val].list
            IN  When(l # None, OptimizedRemove(pm, l, c.val))
      [] c.field = "unblock_time"   ->
            When(WakeUp(c.val) < Sys.unblock, <<SetUnblockTime(WakeUp(c.val))>>)

\* (mutant) next_unblock_time is left as it is
AddToDelayedListOnly(t) ==
    <<SetStatus(t, "Blocked"), Call("insert", DelayList, SchedNode(t))>>

AddToDelayedList(t) ==
    <<SetStatus(t, "Blocked"), Call("insert", DelayList, SchedNode(t)),
      Call("unblock_time", DelayList, t)>>
RemoveFromDelayedList(t) == <<Call("remove", DelayList, SchedNode(t))>>
AddToReadyList(t) ==
    <<Call("insert", ReadyList(t), SchedNode(t)), SetStatus(t, "Ready")>>
RemoveFromReadyList(t) == <<Call("remove", ReadyList(t), SchedNode(t))>>

(***************************************************************************)
(* The transactions.                                                       *)
(***************************************************************************)
\* roll_forward_insert_into_waitlist and ..._into_unsorted_waitlist
InsertIntoWaitList(t, k, l) ==
    <<SetWakeUp(t, k), SetWaitListPtr(l),
      SetTxOp(IF l = WaitList THEN "WaitListInsert" ELSE "UnsortedWaitListInsert")>>
    \o RemoveFromReadyList(t)
    \o <<Call("insert", l, EventNode(t))>>
    \o AddToDelayedList(t)
    \o Invalidate

\* roll_forward_pop_remove_from_waitlist, behind its check of list_tx_done
PopRemoveFromWaitList ==
    LET h == pm.list[WaitList].head
    IN  <<SetBlockNode(h), SetTxOp("WaitListPopRemoval"), Call("pop_front", WaitList, None)>>
        \o When(h # None, RemoveFromDelayedList(Owner(h)) \o AddToReadyList(Owner(h)))
        \o Commit

\* (mutant) commits, as the wake-up from a sorted wait list does
RemoveFromUnsortedCommits(t) ==
    <<SetBlockNode(EventNode(t)), SetTxOp("WaitListRemoval"),
      Call("remove", GroupList, EventNode(t))>>
    \o RemoveFromDelayedList(t) \o AddToReadyList(t)
    \o Commit

\* roll_forward_remove_from_unsorted_waitlist
RemoveFromUnsortedWaitList(t) ==
    <<SetBlockNode(EventNode(t)), SetTxOp("WaitListRemoval"),
      Call("remove", GroupList, EventNode(t))>>
    \o RemoveFromDelayedList(t) \o AddToReadyList(t)
    \o Invalidate

\* roll_forward_insert_into_delaylist, behind its check of list_tx_done
InsertIntoDelayList(t, k) ==
    <<SetWakeUp(t, k), SetTxOp("DelayListInsert")>>
    \o RemoveFromReadyList(t) \o AddToDelayedList(t)
    \o Commit

\* roll_forward_remove_from_delaylist
RemoveFromDelayListTx(t) ==
    <<SetTxOp("DelayListRemoval"), Call("pop_front", DelayList, None),
      Call("leave_wait", WaitList, EventNode(t))>>
    \o AddToReadyList(t)
    \o Invalidate

\* roll_forward_insert_into_readylist
InsertIntoReadyListTx(t) ==
    <<SetTaskPtr(t), SetTxOp("ReadyListInsert")>> \o AddToReadyList(t) \o Invalidate

\* (mutant) the switch is not logged
ContextSwitchUnlogged(t) ==
    LET c == pm.list[ReadyList(t)].cursor
    IN  <<SetTaskPtr(Sys.cur), SetStatus(t, "Running")>>
        \o When(Status(Sys.cur) # "Blocked", <<SetStatus(Sys.cur, "Ready")>>)
        \o <<SetCursor(ReadyList(t), pm.node[c].next), SetCurrent(t),
             StartOpLog("Invalid", 0)>>

\* atomic_roll_foward_context_switch
ContextSwitch(t) ==
    LET c == pm.list[ReadyList(t)].cursor
    IN  <<SetTaskPtr(Sys.cur), StartOpLog("ReadyListNext", 0), SetStatus(t, "Running")>>
        \o When(Status(Sys.cur) # "Blocked", <<SetStatus(Sys.cur, "Ready")>>)
        \o <<SetCursor(ReadyList(t), pm.node[c].next), SetCurrent(t),
             StartOpLog("Invalid", 0)>>

(***************************************************************************)
(* Recovery.  The log is read once, when recovery starts; a null pointer   *)
(* that is followed (unwrap_unchecked, unwrap) counts as a panic.          *)
(***************************************************************************)
RecoverReadyInsert(t) ==
    RecoverInsert(ReadyList(t), SchedNode(t)) \o <<SetStatus(t, "Ready")>>
RecoverDelayInsert(t) ==
    RecoverInsert(DelayList, SchedNode(t)) \o <<SetStatus(t, "Blocked")>>

RecoverPopRemove ==
    LET n == Log.block
        t == Owner(n)
    IN  (CASE MicroOp(pm) = "PopFront" ->
                When(pm.node[n].list # None, RecoverFailedPopFront(pm, pm.node[n].list, n))
                \o RemoveFromDelayedList(t) \o AddToReadyList(t)
           [] MicroOp(pm) = "Remove" ->
                RecoverFailedRemove(pm, DelayList, SchedNode(t)) \o AddToReadyList(t)
           [] MicroOp(pm) = "InsertBeforeCursor" -> RecoverReadyInsert(t)
           [] MicroOp(pm) = "Invalid" -> <<>>)
        \o Commit

RecoverUnsortedRemove ==
    LET n == Log.block
        t == Owner(n)
    IN  (CASE MicroOp(pm) = "Remove" ->
                (IF pm.node[n].list = None
                 THEN RecoverFailedRemove(pm, DelayList, SchedNode(t))
                 ELSE RecoverFailedRemove(pm, pm.node[n].list, n) \o RemoveFromDelayedList(t))
                \o AddToReadyList(t)
           [] MicroOp(pm) = "InsertBeforeCursor" -> RecoverReadyInsert(t)
           [] MicroOp(pm) = "Invalid" -> <<>>)
        \o Invalidate

\* The wait list pointer of the log is a SortedPList: a list that was not
\* reached before the failure is inserted into in order, an event group too.
RecoverWaitListInsert ==
    LET t == Sys.cur
        insert == IF Log.op = "WaitListInsert" THEN "InsertSortedWaitList" ELSE "InsertFront"
    IN  (CASE MicroOp(pm) = "Remove" ->
                RecoverFailedRemove(pm, ReadyList(t), SchedNode(t))
                \o <<Call("insert_wait", Log.wl, EventNode(t))>> \o AddToDelayedList(t)
           [] MicroOp(pm) = insert ->
                RecoverInsert(Log.wl, EventNode(t)) \o AddToDelayedList(t)
           [] MicroOp(pm) \in {"InsertSortedWaitList", "InsertFront"} \ {insert} -> Panic
           [] MicroOp(pm) = "InsertSortedDelayList" -> RecoverDelayInsert(t)
           [] MicroOp(pm) = "Invalid" -> <<>>)
        \o Invalidate

RecoverDelayRemoval ==
    LET n == Log.block
        t == Owner(n)
    IN  IF MicroOp(pm) # "Invalid" /\ n = None THEN Panic
        ELSE (CASE MicroOp(pm) = "PopFront" ->
                     When(pm.node[n].list # None, RecoverFailedPopFront(pm, pm.node[n].list, n))
                     \o <<Call("leave_wait", WaitList, EventNode(t))>> \o AddToReadyList(t)
                [] MicroOp(pm) = "Remove" ->
                     (IF pm.node[EventNode(t)].list = None THEN Panic
                      ELSE RecoverFailedRemove(pm, pm.node[EventNode(t)].list, EventNode(t)))
                     \o AddToReadyList(t)
                [] MicroOp(pm) = "InsertBeforeCursor" -> RecoverReadyInsert(t)
                [] MicroOp(pm) = "Invalid" -> <<>>)
             \o Invalidate

RecoverDelayListInsert ==
    LET t == Sys.cur
    IN  (CASE MicroOp(pm) = "Remove" ->
                RecoverFailedRemove(pm, ReadyList(t), SchedNode(t)) \o AddToDelayedList(t)
           [] MicroOp(pm) = "InsertSortedDelayList" -> RecoverDelayInsert(t)
           [] MicroOp(pm) = "Invalid" -> <<>>)
        \o Commit

RecoverReadyListInsert ==
    When(MicroOp(pm) = "InsertBeforeCursor", RecoverReadyInsert(Log.task)) \o Commit

\* recover_and_roll_forward_context_switch: the ready list of the task that
\* was switched away from is examined
RecoverContextSwitch ==
    LET prev == Log.task
        l    == ReadyList(prev)
        c    == pm.list[l].cursor
        x    == pm.node[c].next
    IN  IF MicroOp(pm) # "ReadyListNext" THEN <<>>
        ELSE IF c = None THEN Panic
        ELSE (IF Owner(c) = prev
              THEN <<SetStatus(prev, "Ready"), SetCursor(l, x),
                     SetStatus(Owner(x), "Running"), SetCurrent(Owner(x))>>
              ELSE <<SetStatus(Owner(c), "Running"), SetCurrent(Owner(c))>>)
             \o <<StartOpLog("Invalid", 0)>>

\* recover_list_transaction
RecoverListTransaction ==
    CASE Log.op = "Invalid"            -> RecoverContextSwitch
      [] Log.op = "WaitListPopRemoval" -> RecoverPopRemove
      [] Log.op \in {"WaitListInsert", "UnsortedWaitListInsert"} -> RecoverWaitListInsert
      [] Log.op = "WaitListRemoval"    -> RecoverUnsortedRemove
      [] Log.op = "DelayListRemoval"   -> RecoverDelayRemoval
      [] Log.op = "DelayListInsert"    -> RecoverDelayListInsert
      [] Log.op = "ReadyListInsert"    -> RecoverReadyListInsert

(***************************************************************************)
(* The lists as sequences of tasks.                                        *)
(***************************************************************************)
Ring(l) == Path(pm, pm.list[l].cursor)     \* a ready list from its cursor
Owners(s) == [i \in DOMAIN s |-> Owner(s[i])]

View ==
    [ready |-> [p \in Levels |-> Owners(Ring(<<"ready", p>>))],
     delay |-> [i \in DOMAIN Chain(pm, DelayList) |->
                   LET t == Owner(Chain(pm, DelayList)[i])
                   IN  [task |-> t, time |-> WakeUp(t)]],
     wait  |-> Owners(Chain(pm, WaitList)),
     group |-> Owners(Chain(pm, GroupList)),
     cur   |-> Sys.cur]

(***************************************************************************)
(* Actions.                                                                *)
(***************************************************************************)
Init ==
    /\ pm = [node |-> [n \in Node |-> [prev |-> None, next |-> None, list |-> None]],
             list |-> [l \in List |-> [len |-> 0, cursor |-> None, head |-> None]],
             task |-> [t \in Task |-> [status |-> "Ready", done |-> FALSE, wake |-> 0]],
             log  |-> [x \in {"log"} |-> [op |-> "Invalid", block |-> None, task |-> None,
                                         wl |-> None, micro |-> [op |-> "Invalid", len |-> 0]]],
             sys  |-> [x \in {"sys"} |-> [cur |-> None, unblock |-> MaxDelay, panic |-> FALSE]]]
    /\ todo = <<>> /\ op = None
    /\ lists = View
    /\ call = [t \in Task |-> "none"]
    /\ boot = 1
    /\ tick = None

\* nothing is under way and the processor accepts interrupts
Quiet == todo = <<>> /\ tick = None /\ ~ Sys.panic
Booting == boot <= Len(Boot)
Started == boot = Len(Boot) + 2     \* FIRST_BOOT_DONE

Begin(o, program) ==
    /\ todo' = program
    /\ op' = o
    /\ UNCHANGED <<pm, lists>>

\* what is left to do; the operation is over when nothing is
Proceed(rest) ==
    /\ todo' = rest
    /\ IF rest = <<>> THEN op' = None /\ lists' = View'
       ELSE UNCHANGED <<op, lists>>

\* the next store
ExecuteStore ==
    /\ todo # <<>> /\ Head(todo).obj # "call" /\ ~ Sys.panic
    /\ pm' = Apply(pm, Head(todo))
    /\ Proceed(Tail(todo))
    /\ UNCHANGED <<call, boot, tick>>

\* the next call
EnterCall ==
    /\ todo # <<>> /\ Head(todo).obj = "call" /\ ~ Sys.panic
    /\ UNCHANGED <<pm, call, boot, tick>>
    /\ Proceed(Body(Head(todo)) \o Tail(todo))

\* create_task_static: the transaction that initialises the task ...
CreateTask ==
    /\ Quiet /\ Booting /\ op = None
    /\ LET t == Boot[boot]
       IN  /\ pm' = IF Sys.cur = None \/ Prio[t] < Prio[Sys.cur]
                    THEN Apply(pm, SetCurrent(t)) ELSE pm
           /\ op' = [kind |-> "create", task |-> t]
    /\ lists' = View'
    /\ UNCHANGED <<todo, call, boot, tick>>

\* ... and the list transaction behind it, which boot repeats on a replay
InsertCreated ==
    /\ Quiet /\ Booting /\ op # None
    /\ LET t == op.task IN Begin(op, InsertIntoReadyListTx(t))
    /\ boot' = boot + 1
    /\ UNCHANGED <<call, tick>>

\* complete_first_boot
CompleteFirstBoot ==
    /\ Quiet /\ boot = Len(Boot) + 1
    /\ boot' = boot + 1
    /\ UNCHANGED <<pm, todo, op, lists, call, tick>>

\* the current task executes code of its own
Runs(t) ==
    /\ Quiet /\ Started
    /\ Sys.cur = t /\ t # Idle /\ Status(t) # "Blocked"

\* queue_send, queue_receive, semaphore_take, wait_event_group_bits: the
\* caller has to wait
BlockOn(t, l, k) ==
    /\ Runs(t) /\ call[t] = "none"
    /\ (IF l = WaitList THEN "wait" ELSE "group") \in Ops
    /\ Begin([kind |-> "block", task |-> t], InsertIntoWaitList(t, k, l))
    /\ UNCHANGED <<call, boot, tick>>

\* queue_send, queue_receive, semaphore_give: wake the first waiting task
PopWaiter(t) ==
    /\ Runs(t) /\ "pop" \in Ops
    /\ call[t] = "none" \/ (call[t] = "pop" /\ ~ Done(t))
    /\ IF Done(t) THEN UNCHANGED <<pm, todo, op, lists>>
       ELSE Begin([kind |-> "pop", task |-> t], PopRemoveFromWaitList)
    /\ call' = [call EXCEPT ![t] = "pop"]
    /\ UNCHANGED <<boot, tick>>

\* task_delay
TaskDelay(t, k) ==
    /\ Runs(t) /\ "delay" \in Ops
    /\ call[t] = "none" \/ (call[t] = "delay" /\ ~ Done(t))
    /\ IF Done(t) THEN UNCHANGED <<pm, todo, op, lists>>
       ELSE Begin([kind |-> "delay", task |-> t], InsertIntoDelayList(t, k))
    /\ call' = [call EXCEPT ![t] = "delay"]
    /\ UNCHANGED <<boot, tick>>

\* syscall_end: reset_list_transaction
EndCall(t) ==
    /\ Runs(t) /\ call[t] # "none" /\ Done(t)
    /\ pm' = Apply(pm, SetDone(t, FALSE))
    /\ call' = [call EXCEPT ![t] = "none"]
    /\ UNCHANGED <<todo, op, lists, boot, tick>>

\* set_event_group_bits wakes a waiting task
SetBits(t, u) ==
    /\ Runs(t) /\ call[t] = "none" /\ "set_bits" \in Ops
    /\ pm.node[EventNode(u)].list = GroupList
    /\ Begin([kind |-> "set_bits", task |-> u], RemoveFromUnsortedWaitList(u))
    /\ UNCHANGED <<call, boot, tick>>

\* process_tick at time k, when some task may be due; the clock is not kept,
\* any time may come next
BeginTick(k) ==
    /\ Quiet /\ Started
    /\ k >= Sys.unblock
    /\ tick' = k
    /\ UNCHANGED <<pm, todo, op, lists, call, boot>>

HeadIsDue ==
    /\ pm.list[DelayList].head # None
    /\ WakeUp(Owner(pm.list[DelayList].head)) <= tick

TickWakes ==
    /\ tick # None /\ todo = <<>> /\ ~ Sys.panic
    /\ HeadIsDue
    /\ LET t == Owner(pm.list[DelayList].head)
       IN  Begin([kind |-> "timeout", task |-> t], RemoveFromDelayListTx(t))
    /\ UNCHANGED <<call, boot, tick>>

EndTick ==
    /\ tick # None /\ todo = <<>> /\ ~ Sys.panic
    /\ ~ HeadIsDue
    /\ LET h == pm.list[DelayList].head
       IN  pm' = Apply(pm, SetUnblockTime(IF h = None THEN MaxDelay ELSE WakeUp(Owner(h))))
    /\ tick' = None
    /\ UNCHANGED <<todo, op, lists, call, boot>>

\* the first ready list that is not empty, and the task behind its cursor
FirstLevel == Min({p \in Levels : pm.list[<<"ready", p>>].cursor # None})
PeekNext   == Owner(pm.node[pm.list[<<"ready", FirstLevel>>].cursor].next)

\* task_switch
TaskSwitch ==
    /\ Quiet /\ Started
    /\ PeekNext # Sys.cur
    /\ Begin([kind |-> "switch", task |-> PeekNext], ContextSwitch(PeekNext))
    /\ UNCHANGED <<call, boot, tick>>

(***************************************************************************)
(* Power failures.                                                         *)
(***************************************************************************)
Pending(s) == \E i \in DOMAIN todo : todo[i] = s

InWindow(w) ==
    CASE w = "tx_not_started" ->       \* the log is open, its first micro-operation is not
           /\ Log.op \in {"WaitListPopRemoval", "DelayListInsert"}
           /\ MicroOp(pm) = "Invalid" /\ View = lists
      [] w = "no_container" ->         \* an insertion before the cursor has not set node.list
           /\ MicroOp(pm) = "InsertBeforeCursor"
           /\ \E t \in Task : Pending(SetContainer(SchedNode(t), ReadyList(t)))
      [] w = "last_ready" ->           \* the only task of a ready list is removed
           /\ Log.op \in {"WaitListInsert", "UnsortedWaitListInsert", "DelayListInsert"}
           /\ MicroOp(pm) = "Remove" /\ OldLen(pm) = 1
      [] w = "delay_removal" ->        \* a task times out
           Log.op = "DelayListRemoval" /\ MicroOp(pm) # "Invalid"
      [] w = "switch_level" ->         \* a switch between ready lists
           /\ op # None /\ op.kind = "switch"
           /\ Prio[op.task] # Prio[lists.cur]
      [] w = "boot_commit" ->          \* boot inserts a task
           Log.op = "ReadyListInsert"
      [] w = "boot_replay" ->          \* boot inserts a task that is in its list
           /\ Log.op = "ReadyListInsert" /\ op # None
           /\ \E i \in DOMAIN lists.ready[Prio[op.task]] : lists.ready[Prio[op.task]][i] = op.task
      [] w = "unblock_time" ->         \* a task enters the delay list as the first to be due
           MicroOp(pm) = "InsertSortedDelayList" /\ WakeUp(Sys.cur) < Sys.unblock
      [] w = "group_len" ->            \* out of the event group, the delay list not yet logged
           /\ Log.op = "WaitListRemoval" /\ MicroOp(pm) = "Remove"
           /\ pm.node[Log.block].list = None
           /\ \/ Pending(Call("remove", DelayList, SchedNode(Owner(Log.block))))
              \/ Pending(StartOpLog("Remove", pm.list[DelayList].len))
      [] w = "group_sorted" ->         \* recovery inserts into the event group in order
           Log.op = "UnsortedWaitListInsert" /\ MicroOp(pm) = "InsertSortedWaitList"

\* power failure and restart; boot starts over if it had not finished
PowerFailure ==
    /\ todo # <<>> \/ tick # None \/ ~ Started
    /\ ~ Sys.panic
    /\ \A w \in Avoid : ~ InWindow(w)
    /\ UNCHANGED <<pm, call>>
    /\ Proceed(RecoverListTransaction)
    /\ boot' = IF Started THEN boot ELSE 1
    /\ tick' = None

Next ==
    \/ ExecuteStore \/ EnterCall
    \/ CreateTask \/ InsertCreated \/ CompleteFirstBoot
    \/ \E t \in Task :
          \/ \E k \in Key : BlockOn(t, WaitList, k) \/ BlockOn(t, GroupList, k) \/ TaskDelay(t, k)
          \/ PopWaiter(t) \/ EndCall(t)
          \/ \E u \in Task : SetBits(t, u)
    \/ \E k \in Key : BeginTick(k)
    \/ TickWakes \/ EndTick
    \/ TaskSwitch
    \/ PowerFailure

Spec == Init /\ [][Next]_vars

(***************************************************************************)
(* Properties.                                                             *)
(***************************************************************************)
\* The persistent lists and the log hold values of their fields' types.
TypeOK ==
    /\ pm.node \in [Node -> [prev : Node \cup {None}, next : Node \cup {None}, list : List \cup {None}]]
    /\ pm.list \in [List -> [len : Nat, cursor : Node \cup {None}, head : Node \cup {None}]]
    /\ pm.task \in [Task -> [status : {"Ready", "Running", "Blocked"}, done : BOOLEAN, wake : Nat]]
    /\ Log.block \in Node \cup {None} /\ Log.task \in Task \cup {None}
    /\ Sys.cur \in Task \cup {None} /\ Sys.unblock \in Nat
    /\ call \in [Task -> {"none", "pop", "delay"}]

Members(l) == {n \in Node : pm.node[n].list = l}
Linked(s)  == \A i \in 1 .. Len(s) - 1 : pm.node[s[i + 1]].prev = s[i]

\* prev and next of every list agree, a ready list is a closed ring and the
\* others end in null, len is the number of nodes, a node's container is the
\* list it is in, and the delay list is in the order of the wake-up times
WellFormed ==
    todo = <<>> =>
        /\ \A t \in Task :
              LET l == ReadyList(t)
                  r == Ring(l)
              IN  /\ Linked(r) /\ Members(l) = Range(r) /\ pm.list[l].len = Len(r)
                  /\ pm.list[l].head \in IF r = <<>> THEN {None} ELSE Range(r)
                  /\ r # <<>> => /\ pm.node[r[1]].prev = r[Len(r)]
                                 /\ pm.node[r[Len(r)]].next = r[1]
        /\ \A l \in {DelayList, WaitList, GroupList} :
              LET s == Chain(pm, l)
              IN  /\ Linked(s) /\ Members(l) = Range(s) /\ pm.list[l].len = Len(s)
                  /\ s # <<>> => pm.node[s[1]].prev = None
                  /\ l = DelayList => \A i \in 1 .. Len(s) - 1 :
                                         WakeUp(Owner(s[i])) <= WakeUp(Owner(s[i + 1]))

\* a created task is blocked exactly when it is in the delay list, otherwise it
\* is in the ready list of its priority, and only a blocked task waits
StatusMatchesLists ==
    Started /\ todo = <<>> =>
        \A t \in Task :
            /\ pm.node[SchedNode(t)].list =
                  IF Status(t) = "Blocked" THEN DelayList ELSE ReadyList(t)
            /\ pm.node[EventNode(t)].list # None => Status(t) = "Blocked"

\* Whenever no list operation is under way, after recovery as well, every list
\* is well formed and the states of the tasks agree with the lists, and
\* recovery neither panics nor follows a null pointer.
ListsSound == ~ Sys.panic /\ WellFormed /\ StatusMatchesLists

\* process_tick does not look at the delay list before next_unblock_time, so
\* no task may be due earlier: it would oversleep.
NobodyOversleeps ==
    todo = <<>> =>
        \A t \in Task : pm.node[SchedNode(t)].list = DelayList => WakeUp(t) >= Sys.unblock

DoneOnlyAfterEffect ==
    \A t \in Task : ~ Done(t) /\ Done(t)' =>
        /\ op.kind \in {"pop", "delay"} /\ op.task = t
        /\ View' # lists \/ (op.kind = "pop" /\ lists.wait = <<>>)

EffectImpliesDone ==
    todo # <<>> /\ todo' = <<>> /\ op.kind \in {"pop", "delay"} =>
        (View' # lists => pm'.task[op.task].done)

\* list_tx_done tells whether the list operation of the call under way has
\* taken effect: it is set only then (a call that finds it set skips the
\* operation), and by the end of the operation or of its recovery it is set
\* (the call, made again, would repeat it).
DoneTellsEffect == [][DoneOnlyAfterEffect /\ EffectImpliesDone]_vars

\* Every operation moves tasks between the lists in a single step: the lists
\* as they were until its stores and its recovery are over, and then either
\* unchanged or as the operation leaves them.
Lists == INSTANCE SchedLists WITH
             ready <- lists.ready, delay <- lists.delay, wait <- lists.wait,
             group <- lists.group, cur <- lists.cur
RefinesSchedLists == Lists!Spec

=============================================================================
