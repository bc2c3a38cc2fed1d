# TLA+ model of IntOS

IntOS is an RTOS for devices that lose power often. Kernel and tasks keep their
state in non-volatile memory, run their updates as *transactions*, and after a
power failure every task is started again from its first line: transactions
that committed are *bypassed* and answer with their recorded result, system
calls that completed are *replayed*, and the rest runs. This directory models
that machinery from the Rust source (`src/src/`), with the default features
`crash_safe`, `opt_list`, `opt_loop_end` and `opt_tx_cache_space`.

## Inventory

| Part (source) | State | Operations | Interacts with | What is hard | What makes it correct |
|---|---|---|---|---|---|
| Undo journal (`pmem.rs`) | record bytes, tail | `append_log_of`, `clear`, `recover` | every transaction | power failing between record, tail and object, and inside `recover` | recovery gives back the state of the last commit |
| Transactions, TxCache (`transaction.rs`) | cached results, replay pointer, tail with id, offset and commit flag in one word | `begin`, `commit`, `commit_no_replay`, `run*`, `cache_result`, `try_retrieve_result` | journal, task | replay pairs calls and results by counting only | a transaction is atomic, commits once, replays its own result |
| User transactions (`user/transaction.rs`) | user journal and TxCache in `UserTxInfo` | `run`, `run_sys`, `run_pure_sys`, `fast_run`, `try_run`, `run_once`, `run_sys_once` | system-call replay | rolled back while the calls they made are not | as above, calls take effect once |
| System-call replay (`syscalls.rs`, `task.rs`) | `SyscallReplayCache`, kernel TxCache, `list_tx_done`, generation | `syscall_begin!`, `syscall_end!`, `*_outside_tx!`, `jit_recovery`, `user_recovery` | user and kernel transactions, list operations | five writes at the end of a call; a second failure during replay | each call takes effect exactly once and answers alike in every replay |
| Persistent loops (`user/transaction.rs`, `transaction.rs`) | stack of saved tails, loop counter and its log | `nv_loop!`, `nv_for_loop!`, enter and exit | TxCache, `jit_recovery` | three writes at the end of an iteration, word widths | each iteration once, none skipped, results outside the loop kept |
| Persistent lists (`list.rs`) | links, lengths, owners, `ListTxOpLog` | insert, remove, pop and their roll-forward | scheduler, queues, timers, recovery | a failure inside a list operation, between the operations of a list transaction | a list transaction is completed by recovery |
| Tasks and scheduler (`task.rs`, `critical.rs`) | ready, delayed and wait lists, states, priorities | `create_task`, `task_delay`, `task_switch`, tick wake-up | everything | preemption, timeouts racing wake-ups | a task is in the lists its state says; the most important ready task runs |
| Queues (`queue.rs`) | ring buffer, blocked readers and writers | send, receive, block until not empty | scheduler | blocking with timeout, stolen wake-ups | FIFO, no lost wake-up |
| Semaphores (`semaphore.rs`, `user/pmutex.rs`) | count, holder, waiters | take, give | scheduler | re-entrance, timeouts | mutual exclusion |
| Event groups (`event_group.rs`) | bits, waiters | set, clear, wait, sync | scheduler | waking several waiters across a failure | waiters with satisfied bits wake |
| Timers (`time.rs`) | ticks, active list, command queue | tick, start, stop, change period, daemon | queue, lists | its own list log, replayed by kernel recovery | every expiry handled once |
| Heap (`heap.rs`) | bump pointers: of the boot heap, of `PM_HEAP_AREA`, of each task's region of it | first initialisation, a region for a new task, `alloc`; `dealloc` does nothing | transactions, task creation, boot | a failure inside boot or task creation, the last bytes of a region | blocks and regions are disjoint, an interrupted call costs no memory, a restarted program gets the same addresses |
| Boot and recovery (`recover.rs`, `main.rs`) | generation, boot transaction, first-boot flag | `idempotent_boot`, `recover` | all of the above | failures during recovery | recovery is idempotent |
| Containers (`user/p*.rs`, `vec.rs`) | | wrappers | heap, journal | | Rust types |
| `arch*`, `board`, `benchmarks`, `app` | | | | | not modelled |

## Modules

| Module | Part | Grain of a step | Rests on |
|---|---|---|---|
| `Transaction` | journal, TxCache | one persistent write | |
| `AtomicTx` | what a transaction promises | one transaction | |
| `SyscallReplay` | system-call macros, `jit_recovery` | one persistent write; a kernel transaction is one step | `Transaction` |
| `NvLoop` | persistent loops | one persistent write; a transaction is one step | `Transaction` |
| `PList` | list operations and their recovery, as sequences of stores | (no state) | |
| `ListTx` | list transactions, scheduler, list recovery | one store | `PList` |
| `SchedLists` | what the list transactions promise | one list transaction | |
| `Sched` | scheduler under the blocking objects | one list transaction | `ListTx` |
| `Queue`, `Semaphore`, `EventGroup` | the blocking objects and their calls | one kernel or list transaction | `Sched`, `Transaction`, `SyscallReplay` |
| `BoundedFifo` | what a queue promises | one call | |
| `Timer` | timer daemon, active list, its recovery | one store | `PList`; `Queue` for the command queue |
| `Heap` | heaps, boot, task creation | one store | `ListTx`, `SyscallReplay` |

A module takes what another one shows as one step, so the whole is not one large
state space. Where the lower module finds a failure that the code does not
survive, the upper one does not repeat it.

**`Transaction`** is one transaction object at the grain of its writes to
persistent memory. `mem` is the memory the transaction changes; `jlog`, `jtail`
are `Journal`; `cache`, `ptr`, `tail` are `TxCache` (the packed words as
records: they are written by one store); `recovery` is `recovery_mode`. `pc`,
`pos`, `view`, `ret`, `retry` and `rptr` are registers and stack, which `Crash`
erases. `stable` and `hist` are history. A run of the code is `Bypass`, or
`Begin`, any number of `AppendLog`/`BumpTail`/`Write`, `EndBody`, then
`CacheResult`, `CommitTail`, `AdvancePtr`, `ClearJournal` (or `CommitNoReplay`,
`ClearNoReplay`). `Crash` is enabled in every state, recovery included;
`CheckCommitted`, `UndoRecord`, `UndoDone`, `Restart` are the recovery. A program
is a sequence of transactions of four kinds with sized or unit results. The
asserts of `append_log_of` and `cache_result` are the steps into `"panic"`,
which only a reset leaves.

**`AtomicTx`** is what a transaction promises: the store and the recorded
result change in one step. `RefinesAtomicTx` maps the store to what recovery
would restore (`Recoverable`) and the results to what the TxCache holds.

**`SyscallReplay`** is one task whose user transactions make system calls. The
writes of `syscall_end!`, of `cache_result` and of `jit_recovery` are single
steps. The list operation of a call is one step here. The body of an abstract
call runs up to two kernel transactions and then a list operation, the shape of
every call in `syscalls.rs` that wakes or delays a task. A call has a result
(`Returns`) or is one of the `noret` ones, `sys_pfree`, `sys_task_delay_in_tx` or
`sys_event_group_set`: its slot of the replay cache is neither written nor read,
and `BumpEntryTail` takes the tail over it without the test of `EntryFits`, beyond
the end of the cache if need be. `Tasks` gives the programs and how many power
failures each may meet.

**`NvLoop`** is one task with nested loops, which runs one of `Programs`. `ptr`
and `tail` are integers packed like the code's words, with the widths as
constants, since what is stored in the 16-bit stack of tails is the question.
TLC's integers have 32 bits with sign, so the commit flag of the 32-bit layout
is bit 29 instead of 31; the offset then has 13 bits instead of 15, and no
instance uses more than 2.

**`PList`** gives every operation of `PList<T>` in the `opt_list` build, and the
function that completes it after a failure, as the sequence of the stores it
makes, in program order. **`ListTx`** executes them. Its `pm` is persistent
memory (nodes, lists, task fields, `ListTxOpLog`, `next_unblock_time`, the
current task), `todo` the stores and calls that the running code still has to
make, `op` the operation they belong to and `lists` the lists as they were
before it. A transaction of `list.rs` is a sequence of stores and calls
(`InsertIntoWaitList`, `PopRemoveFromWaitList`, ...), begun by the handler that
makes it: blocking on a queue or semaphore, waiting on an event group, waking
from either, `task_delay`, `process_tick`, `task_switch` and task creation at
boot. `PowerFailure` drops `todo` and loads what `recover_list_transaction`
selects from the log (`Recover...`), which can fail in turn. There is one wait
list and one event group; which message or bit wakes a task is left open. The
clock is not kept: times are only compared with each other, and a tick may bring
any time of `Key` that is not before `next_unblock_time`. Wherever
`unwrap_unchecked` meets null, or a `panic!` is reached, the system stops in
`Panic`.

**`SchedLists`** is what the list transactions promise: the lists are sequences
of tasks, and a task moves between them in a single step. `RefinesSchedLists`
maps it to `lists`, so that the state between two stores is invisible and the
state after an operation, or after the recovery from its failures, has to be
either the old one or the one the operation leads to.

**`Sched`** is the scheduler the blocking objects share: the current task `cur`,
a ring of ready tasks for each priority (`ring`, the cursor first), the delay
list, the ticks each delayed task has left, and the objects' wait lists.
`BlockOn`, `Wake`, `WakeFirst`, `TickAndSwitch`, `YieldNow` and `Reschedule`
(after a power failure) are the operations; they follow `task.rs` in what the
cursor does and in the order of the lists. A wait list is sorted as the code
sorts it, the *least* important task first and the newest first among equals,
and a wake-up takes the first. Only the current task takes steps; a tick may
come whenever the interrupts are on (`InCritical` is the code's
`with_no_interrupt`). `Filter` is `SelectSeq` written without recursion, so that
the module can be proved about. The set of tasks is finite and the idle task is
less important than all others (`SchedAssumption`).

**`Queue`** has the ring buffer (`buffer`, `readPos`, `writePos`, `items`), and
for each task its call: `pc`, the registers `ticks` and `expiry` of the retry
loop, the committed kernel transactions of the call (`txCache`, `ptr`) and
`listDone`. `CopyItem` is the unlogged copy into the buffer, `SendTx` and
`ReceiveTx` the transactions, `WakeOther` the list transaction behind them;
`SendTxJournal`, `ReceiveTxJournal` and `BlockJournal` are the build without
`opt_list`, which does all of it in one transaction. `build` chooses between
them once. `Refused`, `Block`, `GiveUp`, `Yield`, `Resume` are the retry loop;
`EndCall` is `syscall_end!`. `ImplementsFifo` maps to `BoundedFifo`: a send or a
receive is a single step of the abstract queue, taken when the kernel
transaction commits, however often the call is made again. A refusal is a result
of its own (`Refusal`), recorded in the journal build only; `Outcome` is what the
call answers, the result of the last transaction this execution ran or passed.

**`Semaphore`** has `count` and `mutex_holder`, and tasks that lock a `PMutex`,
run a user transaction and unlock. The two calls are made outside transactions
(`*_outside_tx!`), so a restarted task makes all of them again and only its
user transactions are bypassed. `TakeAsHolder` is the early return for the task
that is named as the holder.

**`EventGroup`** has the bits and for each task the value of its event node
(`opaque`), which carries the bits it waits for, the CLEAR and ALL flags and the
UNBLOCKED mark. `SetTx`, `MarkWaiter`, `RemoveWaiter`, `EndScan` and `ClearTx`
are `set_event_group_bits`; `OriginalTx`, then the same, then `SyncMet`,
`SyncBlock` or `SyncPoll` are `sync_event_group_bits`; `FindBits`, `Poll`,
`Block`, `Resume` are `wait_event_group_bits`. `txDone` and `ptr` count the kernel
transactions a repeated call passes over. Each call belongs to a user transaction
(`tx`). After a power failure a task runs that transaction again (`replaying`):
`Replay` passes over the completed calls, and with each completed wait the
epilogue of `syscall_begin!` resets the task's event node, in which the call under
way may have been marked as released. A switch that the set inside a sync has
asked for is taken at the end of the critical section (`pended`), before the sync
gives way itself.

**`Timer`** is built like `ListTx`: `pm` holds the timers, the active list, its
log, the daemon's transaction flags and the recorded receive; `todo` is the
daemon's code. `ProcessExpiredTimer`, `ProcessReceiveTimerCmd`, `Receive`, `Look`
and `QueueBlockUntilNotEmpty` are the daemon's loop, `Body` and `Dispatch` what a
command does, `Callback` the timer function (a counter behind the user journal),
`RollForward` and `RecoverDaemon` are `recover_timer_daemon_list_transaction`,
`JitRecovery` is what the daemon does when it runs again. `Send` and
`CmdQueueBusy` are the tasks that give commands.

**`Heap`** has the allocators, `TASK_CNT` and the first-boot flags in `mem`, and
for boot and each task a journal, a transaction, its recorded results and the
steps left of its call. `FirstInit`, `StartBoot` and `CompleteFirstBoot` are
`idempotent_boot`; `CreateTask`, `Alloc`, `QueueNew` the bodies of the calls;
`Insert` the list operation behind the commit of a task creation; `RollBack`,
`Recovered` and `JitRecovery` the recovery.

*Windows.* In ten stretches of the code of `ListTx` and three of `Timer` a power
failure is not recovered from; `Windows` names them and `InWindow` defines them.
`Avoid` lists those in which no failure strikes. `list_tx` and `timer` avoid all
of them, `list_sorted` all but `boot_commit`. Taking a window out of `Avoid`
shows what goes wrong there ("Disagreements found" says which property fails),
and is how a repair of the code would be checked.

`MCTransaction`, `MCSyscallReplay`, `MCNvLoop`, `MCListTx`, `MCQueue`,
`MCSemaphore`, `MCEventGroup`, `MCTimer` and `MCHeap` hold the programs and the
sets of tasks of the runs. `Transaction_proofs`,
`SyscallReplay_proofs`, `Timer_proofs`, `Heap_proofs`, `Semaphore_proofs`,
`EventGroup_proofs` and `Queue_proofs` hold the theorems, `Sched_proofs` the lemmas
about the scheduler that the last three share.

In each module an operator whose comment starts with *(mutant)* is a variant of
the definition that follows it, with a bug one could plausibly have made. It is
used to confirm that a property would notice.

## Runs

| Run | Shows |
|---|---|
| `transaction` | all four kinds of transaction, any number of power failures: atomicity, exactly-once commit, faithful replay, refinement of `AtomicTx`; once failures and retries stop, recovery and the program end |
| `syscall_replay` | several calls in a transaction, with and without results, with one failure anywhere, one call in a transaction with three: effects once, results replayed, nothing copied beyond the replay cache when results fill it or calls without one take the tail out of it, and the task completes |
| `nv_loop` | nested for loops, a for loop in an endless loop and the loop of the demo on 16-bit words, two failures: each iteration once and none skipped, results replayed, for loops end |
| `list_tx` | all list transactions, three tasks, any number of failures: lists and task states sound, no null dereference, `list_tx_done` tells the truth, refinement of `SchedLists` |
| `list_sorted` | four tasks of different priorities and two wake-up times in a sorted wait list and the delay list, boot and its failures included: links, order and lengths survive, nobody oversleeps |
| `queue` | three tasks send to both ends of a queue of three and receive, with time-outs, ticks and power failures, in both builds: refinement of `BoundedFifo`; with `opt_list` no wake-up lost, deadlines kept, every call returns |
| `semaphore` | three tasks lock a mutex in both builds: outside the shortcut for the last holder it excludes; wake-ups, deadlines, and every lock granted in the end |
| `event_group` | a rendezvous of two tasks, twice, and a third one that polls and waits: nobody sleeps on bits that are set, nobody leaves a rendezvous alone, a released wait, the first of its user transaction, does not sleep again, every call returns |
| `timer` | a periodic and a one-shot timer under all five commands: commands carried out once and in order, one callback per expiry, the active list whole, the daemon awake for every timer, timers fire |
| `heap` | boot and four tasks allocate, free, create queues and tasks up to and beyond the limits: nothing shared out twice, no more memory or tasks used by interrupted calls, the same answers after a restart, everything created runs |
| `semaphore_exclusion`, `syscall_replay_delay` | expected violations, see below |

*Further configurations.* Each of these is expected to end with a
counterexample, discussed under "Disagreements found":

| Configuration | Module | Violates |
|---|---|---|
| `NvLoop32.cfg` | `MCNvLoop` | `ReplayFaithful` |
| `ListTxNotStarted.cfg` | `MCListTx` | `DoneTellsEffect` |
| `QueueSwitch.cfg` | `MCQueue` | `KeepsOnlyAlone` |
| `QueueAnswer.cfg` | `MCQueue` | `AnswersItsTransaction` |
| `EventGroupSync.cfg` | `MCEventGroup` | `ReleasedSyncReturns` |
| `EventGroupWait.cfg` | `MCEventGroup` | `LaterWaitReturns` |
| `TimerCommand.cfg` | `MCTimer` | `CommandsServed` |

### Bounds

* `transaction`: two objects and a journal of two records are the smallest with
  an object logged twice, two objects logged, and a full journal; a TxCache of
  three lets the last transaction overflow it; failures are unbounded. Values
  are two, enough to tell a wrong result from a right one.
* `syscall_replay`: `crashes` of a task bounds its failures. Several calls in a
  transaction get one and single calls three, because two failures with several
  calls violate the properties. `ReplaySize` is 3: one transaction fills it with
  results and asks for a fourth entry, another passes its end with calls without a
  result and returns, a third asks for a result out there.
* `nv_loop`: two iterations of two loops, two failures (`MaxCrashes`): one at
  the end of an iteration, one in its recovery or replay. `MaxLaps` bounds
  endless loops.
* `list_*`: failures are unbounded. Two tasks that share a ready list make a
  ring in which a removal leaves someone behind, and the idle task below them a
  switch between levels; that is `list_tx`, where one wake-up time makes all
  sleepers due together. `list_sorted` has three tasks of different priorities
  above the idle task and two wake-up times, which covers insertion at the head,
  in the middle and at the tail of both the delay list (by time) and the wait
  list (by priority).
* `queue`, `semaphore`, `event_group`: two tasks of one priority and a more
  important one, the smallest with round-robin, preemption and a third task that
  steals what a woken one was to get. Failures and ticks are unbounded. `Never`
  is the time beyond all time-outs. `Length` is 3: the slots before and behind one
  differ (with 2 they are the same), so that a send to the front goes elsewhere
  than one to the back, positions wrap at both ends, and two or three items have an
  order; with a push to the wrong end, or a position that moves the wrong way,
  `ImplementsFifo` fails. The programs fill and empty the queue, and senders and
  receivers both sleep and are overtaken. `MaxRetries` bounds how often a call of
  the journal build sleeps on a refusal recorded in its TxCache; it is 1, because
  with 2 that build answers wrongly (`QueueAnswer.cfg`). `Wait` stands for
  `DEFAULT_MUTEX_WAIT_TIME`: with 2 a waiting task sees a tick before its deadline.
* `timer`: three scripts of three commands that between them use all five
  commands, on a timer that is in the list and one that is not. The command
  queue holds one command (`QueueSize`), so that tasks find it full. A time more
  than `MaxLate` ticks past is no longer told from `MaxLate`; callbacks are
  counted modulo `Wrap`.
* `heap`: four tasks (`TaskLimit`) so that a fifth is refused; the sizes make one
  region, one block and one buffer not fit, one of them only by its alignment.

*Deadlock* is checked in every run but those of `SyscallReplay` and `NvLoop`,
whose one task ends. In the others the check means little where a power failure
is always possible, and the liveness properties say what matters; in `ListTx` and
`Timer`, where failures are excluded in the windows, it says that a tick, a switch
or a step of the daemon is always possible there.

*Fairness.* `Fairness` of `Transaction` says that a powered processor keeps
executing, that closures return and that recovery proceeds: there is one thread
of control and nothing to wait for. `Progress` speaks of behaviours in which
failures stop and `try_run`, which depends on other tasks, no longer asks for a
retry. `SyscallReplay` and `NvLoop` assume weak fairness of the task's own steps,
which is to say that the task is scheduled. Where the scheduler is modelled, a
task's step is possible only while it is the current task, so fairness is strong:
a task that is given the processor again and again gets on with its code
(`Queue`, `Semaphore`, `EventGroup`; each executor of `Heap`; the daemon of
`Timer`, which has the highest priority). Ticks are weakly fair: the timer
interrupt keeps coming. That tasks *are* given the processor is not assumed; it
follows from `Switch` and the ticks. No fairness is assumed of power failures.

## Disagreements found

Two have a run of their own.

* `semaphore_exclusion`: `semaphore_give` leaves `mutex_holder` set
  (`semaphore.rs:164`, in both builds), and `semaphore_take` returns at once to
  the task it names. The last holder therefore takes a free mutex without
  counting it, and another task takes it too (`MutualExclusion`). No power
  failure is needed. `HeldByItsHolder` is the exclusion that remains.
* `syscall_replay_delay`: a `sys_task_delay` before the transaction, executed
  again on restart, resets the kernel TxCache of the call about to resume. One
  failure is enough for a double effect (`SyscallsExactlyOnce`).

The further configurations show seven more.

* `NvLoop32.cfg`: `enter_idempotent_loop` cuts the saved word to 16 bits. On
  32-bit boards the offset is lost, and a result cached in a loop overwrites one
  cached before it.
* `ListTxNotStarted.cfg`, window `tx_not_started`: micro-operation `Invalid`
  means both "not begun" and "finished"; recovery takes it for finished and
  marks the call as done. A wake-up or a delay is lost.
* `QueueSwitch.cfg`: a tick between the critical section of a blocking call and
  its yield (`task.rs:1229`) can put the running task back into its ready list
  behind another one; `task_switch` then finds the running task next and asserts
  that it is alone in its list, which it is not. Without the `debug_assert` it
  stays the current task.
* `QueueAnswer.cfg`: in the journal build a call that was refused twice and then
  sent or received its item, and whose power fails before `syscall_end!`, is made
  again. It passes over the first refusal; `wakeup_time` is a local that only a
  refused *execution* of the transaction sets, so `update_countdown` leaves no
  time, and the second recorded refusal ends the loop (`queue.rs:249-258`,
  `396-403`). The call answers `QueueFull` or `QueueEmpty` although its
  transaction took effect. The proof of `ImplementsFifo` found it.
* `EventGroupSync.cfg`: a `sync` that starts again after a failure goes by the
  bits it found first, recorded in its first transaction. If it has been
  released since, it sleeps again, perhaps for ever: the mark `UNBLOCKED`, which
  a repeated `wait` looks at, is not looked at by `sync`.
* `EventGroupWait.cfg`: nor does the mark always serve a `wait`. A user transaction
  that made two waits and is run again passes over the first one, and the bypass of
  a completed wait resets the event node (`syscalls.rs:161-171`, `536-538`). If the
  second wait had been released when the power failed, its mark is gone, and so may
  be the bits, cleared by the set: it sleeps again. In the instance of the run
  the wait that sleeps is the first of its transaction; `ReleasedWaitReturns` claims
  what remains, for a wait that no other precedes in its transaction.
* `TimerCommand.cfg`: a daemon whose power fails with a received command in its
  replay cache looks for expired timers first and sleeps on the empty queue. The
  command waits until another one is sent.

More are reached by a change of a constant. With two failures for `SeveralCalls`
in `MCSyscallReplay`, `SyscallsExactlyOnce` fails: `jit_recovery` reads `ptr <
tail` as "a incomplete syscall return", but it also holds when a second failure
interrupts the replay of an earlier call in the same transaction. The call that
is really under way then forgets its committed kernel transactions and repeats
them. With `DemoLoop` on the widths of `NvLoop32.cfg`, `CounterKnown` fails: a
failure between the two stores of `exit_infinite_idempotent_loop` makes
`jit_recovery` write through a null loop counter if no for loop ran before
(`JitNullCounter`). And with one window taken out of `Avoid`, in `ListTx.cfg` and
`Timer.cfg` unless noted:

| Window | Fails | Why |
|---|---|---|
| `no_container` | `ListsSound` | recovery of an insertion into a ready list never sets `node.list`; later removals of the task return early |
| `last_ready` | `ListsSound` | recovery of a removal has no case for a list of one node and leaves the empty ring pointing at the removed node |
| `delay_removal` | `ListsSound` | recovery of a time-out follows `block_node_ptr`, which this transaction does not set |
| `switch_level` | `ListsSound` | recovery of a context switch looks at the ready list of the old task; if that is empty, it panics at every restart |
| `boot_commit` | `DoneTellsEffect` | recovery of a boot-time insertion sets `list_tx_done` of a task that is in no call |
| `boot_replay` (in `ListTxSorted.cfg`) | `ListsSound` | a repeated insertion is logged before the test that makes it a no-op; recovery then inserts the node twice |
| `unblock_time` (in `ListTx.cfg` with this invariant added) | `NobodyOversleeps` | an insertion into the delay list completed by recovery does not lower `next_unblock_time` |
| `group_len` (with `FourPrio`, `FourBoot` and operations `group`, `set_bits`, `delay`) | `ListsSound` | the delay list gets its length from the logged length of the event group |
| `group_sorted` | `ListsSound` | recovery inserts into an event group with the sorted insertion and logs a micro-operation that a second recovery holds impossible |
| `unlisted_remove` | `ActiveListIntact` | a removal is logged before the test whether the timer is in the list; recovery removes what was never in it |
| `command_in_hand` | `CommandsInOrder` | recovery of an expiry drops the recorded receive of the command that was to be carried out next |
| `reload` | `WakesForEveryTimer` | an expired periodic timer has its next expiry time while its list operation is not yet logged; it stays at the head of a list that is no longer sorted |

Behaviour the models keep because the code has it, and that bounds what the
properties say:

* The journal build of the queue records a refusal in the TxCache like a result
  (`run_relaxed`). After a failure the call replays the refusal instead of looking
  again, and may time out early. `NoLostWakeup`, `TimesOutOnTime` and
  `EveryCallReturns` of `Queue` are therefore claimed for `opt_list`.
* A semaphore's `give` with `opt_list` is two transactions. A failure between
  them loses the wake-up: the give is made again, finds the count at its limit
  and wakes nobody; the waiting task sleeps until its deadline. `semaphore_take`
  computes its remaining time before it has slept, because the yield inside
  `with_no_interrupt` is only pended; without `opt_list` the deadline can pass
  between the computation and the next attempt. In both builds it sleeps behind
  its deadline at most once. A give with
  `opt_list` never yields: it asks whether the woken task is ready before it is.
* A failure between a set's wake-ups and its clearing transaction leaves the
  event bits set, and one between the mark and the removal of a task loses its
  CLEAR flag and the bits it waits for: its node holds those of the set.
  `NobodySleepsOnItsBits` leaves out a marked wait after a failure for that reason. A poll (`ticks` 0) of an event group answers `Ok` whatever the bits.
* `Queue::new` that gets the queue object and no buffer keeps the object, which
  nobody can use or give back: a refused call is otherwise free. `AsIfOnce` counts
  it once, however often the call is interrupted. A task
  whose region does not fit is created all the same, with an empty heap.
* Ticks between the daemon's look at the clock and its block make it late by as
  many (`slip`).

## Proofs

The theorems hold for every program, every finite set of tasks and every size,
under the named assumptions of the modules only. Each rests on an inductive
invariant that TLC checked first on the instance of the run.

**`Transaction_proofs`**: `Spec` implies `[]TypeOK`, `[]CrashAtomicity`,
`[]RecoverableIsStable`, `[]ReplayFaithful`, `[]ExactlyOnce`,
`[]BypassOnlyInRecovery` (part of no run) and `RefinesAtomicTx`. The assumptions
are `ProgramAssumption` (the program is a sequence of transactions) and
`SizeAssumption` (sizes are naturals; the marker values are no values). `IInv` is

* `JournalInv`: what recovery would restore is `stable`, and the journal is
  empty where the code relies on that. `CrashAtomicity` needs it because
  `mem = stable` says nothing in the middle of a transaction.
* `UndoInv`: while records are being undone, objects whose records are all
  undone hold their oldest value, which is why a failure inside `recover` does
  no harm.
* `CacheInv`: the k-th commit's result is at its offset in the TxCache, offsets
  add up, and the tail's id is the number of commits.
* `ExactlyOnce`: the commits so far are the cached transactions in program
  order.
* `PtrInv`: the replay pointer is as many transactions into `hist` as the
  program is into its cached transactions, which ties a position to a result.

`Step` shows that each action keeps it, one lemma per conjunct. For the
refinement, the mapped store is `stable` (`RecoverableFact`) and the mapped
results are those of `hist` (`RecordedIsCommitted`), so that every action but the
two commits is a stutter.

**`Sched_proofs`**: each operation of `Sched` keeps the ready, delay and wait
lists in agreement (`ListsOK`), with what it does to the sets of sleeping and
waiting tasks. The lemmas below them say of `Filter`, `InsertSorted` and the
rotation of a ring which elements they keep, and in which order.

**`Semaphore_proofs`**: `[]HeldByItsHolder` and `[]TakeTimesOut` from `IInv`, which
does not look at the lists: `Timely` relates the registers of a waiting take to
its deadline, so that a take that has slept behind it finds no time left.
`[]TypeOK` and `[]NoLostWakeup` from `WInv`, which adds the lists, the place and
the round of each task, and that who is in the wait list is in a take.
`NoLostWakeup` compares the count with the number of tasks that will look, so
`WakeStep` counts for each action who enters and who leaves that set.

**`EventGroup_proofs`**: `[]TypeOK`, `[]NobodySleepsOnItsBits` and
`ReleasedWaitReturns` from `EInv`: the place of a task and the transactions its
call has passed (`PlaceOK`), what the first transaction of a sync recorded
(`OriginalOK`), the value of the node of a waiting task (`WaiterOK`), that calls are
passed over only behind a failure (`ReplayOK`), that the tasks still to be looked
at are the end of the wait list and the ones before are not satisfied (`ScanOK`),
and that a released wait is marked (`ReleasedOK`), after
a failure if no other wait precedes it in its user transaction.

`SyncsMeet` is `[]Rendezvous` for all programs that satisfy `Meeting`: the bits by
which a task is expected in a round are set by nobody else, and whoever expects it
in round k has waited for it, without a time limit, in the rounds before, for those bits
too. Without this the property is not true of the code (any `set` may
provide the bits, and a sync that timed out leaves its own behind); the run's
programs satisfy it, which TLC evaluates as `ProgramsMeet`. The invariant on top of
`EInv` has two parts. `Steady` says of a task, while nothing has failed, that no
transaction is passed over, that a node is marked only until its task is awake,
and that a patient sync sleeps until it is marked. `RoundsInv` says, of the first
round k in which a task u has not arrived and of a task t that expects it: t has not returned
from round k (`NoResult`); if it is in it, it is not freed and neither the event
group nor what it found at first holds any of u's bits (`InRound`); if it is about to enter it,
u's bits of the round before are gone, or the set that is scanning
is going to clear them (`OnEve`).

**`Queue_proofs`**: from `QInv` (positions and count of the ring buffer agree;
only the last cached result of a call can be a success; where the call is; who
is in a wait list is in a call that found the queue full, or empty):

* `[]TypeOK`;
* `[]NoLostWakeup`, by counting as for the semaphore, once for readers and items
  and once for writers and free slots;
* `[]TimesOutOnTime`, with `TimeOK`: the register `wakeup_time` is what the history
  says, and the time left is zero only when it has passed;
* `ImplementsFifo`, with `AnswerOK` (a call that ends has passed over all of its
  cached results) and lemmas that say what a push to the back, to the front and
  a dequeue make of the buffer read as a sequence. This one has the hypothesis
  `RefusedOnce`: it is claimed for `opt_list`, the default build, without
  condition, and for the journal build with `MaxRetries <= 1`, since with more
  it is false (`QueueAnswer.cfg`).

**`SyscallReplay_proofs`**: `[]TypeOK` for all tasks; `[]SyscallsExactlyOnce` and
`[]ReplayedResults` for the tasks that are `Replayable`. `TypeOK` does not say that
the tail stays in the cache, which is not true, but that what a call with a result
writes or reads there lies inside. The read needs `FitInv`: the k-th call of the
transaction under way, if it has a result and is on record, has passed the assert with the
tail at k - 1. The assumption on the
code is `Bracketed` (`run_sys` asserts that it is not nested, and only its closure
has a `SyscallToken`). `Replayable` restricts it to what the kernel can keep:

* `OutsideLast`: a call without a token is made neither before a call of its own
  transaction nor, outside transactions, before any call that has one
  (`SyscallReplayDelay.cfg` shows the failure);
* `OneCallEach`, with any number of power failures, or at most one failure (with
  two calls and two failures see *Disagreements found*).

`RInv` says where the task is in its code and how the counters follow from that
(`PlaceInv`, `KernelInv`), that nothing is replayed before the first failure
(`FirstRun`), that what the kernel TxCache and `list_tx_done` still hold belongs
to a call the task has yet to come to (`LeftInv`: this is what a call outside
would spoil), and that `utail` and `rtail` alone tell of every call in the code
whether it is done, under way or untouched (`RecordInv`). Since `Begun` and
`CallsOf` count along code of any length, the lemmas before it say how these
counts grow from one instruction to the next.

**`Timer_proofs`**: `[]CallbackOncePerExpiry`, with any number of failures in all
places, the windows included; and `[]CommandsInOrder` if `Avoid` has the window
`command_in_hand`, the only one of the three it needs. Neither looks at the links
of the active list: a list operation is a stretch of `Work`, stores that touch no
flag of the transaction, whatever memory they were computed from. `PInv` says that
the daemon is always at one of nine places of its transaction or of recovery
(`Resting` to `Closing`), what it has left to do there, and how what the callbacks
wrote compares with the expiries served: equal (`Kept`), equal once undone
(`UndoKept`), or one ahead for the expiry whose list operation is under way
(`Ahead`). `PlaceRecoverable` is the heart: at each place the comparison is the one
that the branch `recover` will take, roll back or roll forward, can repair. For
the commands `CInv` adds that a failure with a command in hand found the daemon
in that command's own transaction (`NotInHand`). `Heads` shows that a command
changes hands at four steps only: the receive, the commit, and the two that
forget the recorded receive. The assumptions are `TimerAssumption` and
`NoneAssumption` (the null pointer is no command and no value).

**`Heap_proofs`**: `[]TypeOK` (part of no run), `[]NothingSharedOut` and
`[]SameAnswers`, for all programs of calls, sizes and numbers of tasks, from
`HeapAssumption` alone. Neither of the two is inductive: in the middle of a call the
memory is ahead of the record by what the call has carved out so far. `IInv`
therefore speaks of the state that a failure would restore, the heaps `B`, the
task count `K` and the rest `G` of the area, and splits in two. Before
`heap::init` has set its flag (`Fresh`) nothing is on record and boot, if it runs,
is at one of the six stores of `Initialising`. Afterwards (`Ready`)

* `Place`: a task or boot is off, idle, in an allocation (`Allocating`), in a
  creation (`Creating`) or past its commit (`Returning`); the steps it has left
  say at which step exactly, and with that what its journal holds, so that
  undoing it gives `B`, `K` and `G` (`RecoverIs`, `FailureHeaps`);
* `Answers`: what an execution has been given, now and before, is the beginning
  of the record, which is the replay table and then the TxCache;
* `OwnBlocks`, `OwnTasks`, `OneHandle`, `Apart`: blocks on record lie in the taken
  part of their owner's heap, handles on record are those of the first `K` tasks,
  and the regions of these are apart and below `G.next`;
* `Counted`: only the one call in a critical section has the count or the area in
  hand (`Turns`), so that a rollback there undoes nobody else's work.

Each action has a lemma (`ReplayStep` to `FailureStep`, `FreshStart` to
`FreshFailure`); `AllocBegins` and `CreateBegins` show that the steps `Begin` computes
from `Body` are those of the invariant, and `Grown` what an allocation may do to a
heap. A commit moves `B`, or `K` and `G`, on (`AllocCommit`, `CreateCommit`).

Only model-checked: `RefinesSchedLists` and the invariants of `ListTx`;
`ActiveListIntact` and `WakesForEveryTimer` of `Timer`, which speak of the links
that recovery finds after each store; `AsIfOnce` of `Heap`, whose reference value is
a sum along the program, and the invariants of `NvLoop`, whose programs are nested
loops of any depth, which both need an induction over data; and the liveness properties `Progress`, `Completes`,
`LoopsEnd`, `EveryCallReturns`, `EveryLockIsGranted`, `ActiveTimersFire` and
`EverythingRuns`, which are beyond the prover.

## Plan

1. Proofs: the links of the active list in `Timer` (`ActiveListIntact`) and the
   invariants of `ListTx`, from what each store leaves of a list operation.
2. `NvLoop` with an id narrow enough to overflow.
3. The builds without `opt_list` of event groups, timers and task creation.

## Not modelled

* The journal builds (without `opt_list`) of event groups, which sleep inside an
  open transaction, of timers, of `create_task` and of
  `queue_block_until_not_empty`. (The journal build of `create_task` compares the
  new id with a literal 8 where the other one uses `TASK_NUM_LIMIT`,
  `task.rs:841`.)
* `breaki!`, `continuei!`, the crash-unsafe variants. A TxCache that overflows
  without debug assertions: `cache_result` then checks only the first byte of a
  result against the end of the cache.
* The volatile heap, stacks, statistics, printing, the containers of `user/`
  (thin wrappers over the heap and the journal, owned as Rust's types say).
* Architecture and board code, benchmarks and applications. The pended switch of
  the Cortex-M port is modelled; the MSP430 port, where `arch_yield` switches at
  once even inside `with_no_interrupt`, is not.
* The end of a task's function: `task_exit_error` keeps the processor for ever, and
  nobody of the same or a lower priority would run again. A task that has made its
  calls sleeps for good in the models instead; the idle task spins.
* A queue of length 0, which `Queue::new` refuses before its transaction.

Writes of a single word are atomic, as the code assumes (`compiler_pm_fence`
orders them; stores between two fences are taken in program order). A larger copy
(a journal record, a result, an item) is one step: no later step reads it until
the word that publishes it is written.
