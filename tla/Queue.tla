------------------------------- MODULE Queue -------------------------------
(***************************************************************************)
(* The blocking queue of queue.rs and its system calls, with several tasks,*)
(* ticks, and power failures at any point.  A call that a failure          *)
(* interrupts is made again when its task runs next (SyscallReplay); its   *)
(* committed kernel transactions answer from the TxCache.                  *)
(*                                                                         *)
(* A kernel transaction takes effect in the step that commits it           *)
(* (Transaction); only what it does not log, the copy of the item, is a    *)
(* step of its own.  Both builds are modelled: with opt_list a wake-up or  *)
(* a block is a list transaction after the kernel transaction, without it  *)
(* they are in the same kernel transaction.                                *)
(***************************************************************************)
EXTENDS Sched

CONSTANTS
    Builds,         \* the builds under study, of "opt_list" and "journal"
    Length,         \* Queue.length
    Program,        \* Program[t]: the calls the task makes
    MaxRetries      \* bound: cached retries of one call ("journal")

Ops == {"send_back", "send_front", "receive"}
Readers == "readers"
Writers == "writers"
None    == <<>>

\* the result of a transaction that found the queue full or empty; one that
\* did what it was asked has the result <<r>>
Refusal == <<>>

Call == [op : Ops, ticks : 0 .. Never - 1]

ASSUME QueueAssumption ==
    /\ Builds \subseteq {"opt_list", "journal"} /\ Builds # {}
    /\ Length \in Nat \ {0}
    /\ Program \in [Task -> Seq(Call)] /\ Program[Idle] = <<>>
    /\ WaitList = {Readers, Writers}
    /\ MaxRetries \in Nat

VARIABLES
    build,      \* the build, chosen once
    buffer,     \* the slots of the ring buffer
    readPos, writePos, items,   \* read_pos and write_pos in slots, items_enqueued
    pc,         \* for each task where it is in its call
    results,    \* the results of its completed calls
    txCache,    \* the cached results of the kernel transactions of the call under way
    ptr,        \* how many of them this execution of the call has passed
    listDone,   \* list_tx_done
    ticks,      \* the register wait_ticks
    expiry,     \* the register wakeup_time in ticks from now, Never until it is set
    due         \* history: the ticks until the call under way may time out

queueVars == <<buffer, readPos, writePos, items>>
persistent == <<build, queueVars, results, txCache, listDone>>
registers == <<pc, ptr, ticks, expiry>>
vars == <<schedVars, persistent, registers, due>>

(***************************************************************************)
(* The queue.                                                              *)
(***************************************************************************)
CallNo(t) == Len(results[t]) + 1
Active(t) == CallNo(t) <= Len(Program[t])
Op(t)     == Program[t][CallNo(t)].op
Sends(t)  == Op(t) \in {"send_back", "send_front"}

\* the item a task sends is told apart by its sender and call
Item(t) == <<t, CallNo(t)>>

IsFull  == items = Length
IsEmpty == items = 0

After(p)  == IF p + 1 = Length THEN 0 ELSE p + 1
Before(p) == IF p = 0 THEN Length - 1 ELSE p - 1

\* where push_back and push_front put the item
Slot(t) == IF Op(t) = "send_back" THEN writePos ELSE Before(readPos)

PushBack ==
    /\ writePos' = After(writePos)
    /\ items' = items + 1
    /\ UNCHANGED <<buffer, readPos>>

PushFront ==
    /\ readPos' = Before(readPos)
    /\ items' = items + 1
    /\ UNCHANGED <<buffer, writePos>>

Push(t) == IF Op(t) = "send_back" THEN PushBack ELSE PushFront

Dequeue ==
    /\ readPos' = After(readPos)
    /\ items' = items - 1
    /\ UNCHANGED <<buffer, writePos>>

(***************************************************************************)
(* A call.  "try" to "wake" is inside with_no_interrupt.                   *)
(***************************************************************************)
At(t, p)   == cur = t /\ pc[t] = p
Goto(t, p) == pc' = [pc EXCEPT ![t] = p]

\* with_no_interrupt: the current task cannot be interrupted
InCritical == pc[cur] \in {"copied", "wake"}

HasCached(t) == ptr[t] < Len(txCache[t])

\* syscall_begin!: the cached results are replayed from the first
BeginCall(t) ==
    /\ At(t, "call") /\ Active(t)
    /\ ticks' = [ticks EXCEPT ![t] = Program[t][CallNo(t)].ticks]
    /\ expiry' = [expiry EXCEPT ![t] = Never]
    /\ ptr' = [ptr EXCEPT ![t] = 0]
    /\ due' = [due EXCEPT ![t] = Never]
    /\ Goto(t, "try")
    /\ UNCHANGED <<schedVars, persistent>>

\* the kernel transaction of the call has committed before: its result is used
Bypass(t) ==
    /\ At(t, "try") /\ HasCached(t)
    /\ ptr' = [ptr EXCEPT ![t] = @ + 1]
    /\ Goto(t, IF txCache[t][ptr[t] + 1] # Refusal
               THEN IF build = "opt_list" THEN "wake" ELSE "end"
               ELSE IF ticks[t] = 0 THEN "end" ELSE "yield")
    /\ UNCHANGED <<schedVars, persistent, ticks, expiry, due>>

\* push_back and push_front copy the item, which is not logged
CopyItem(t) ==
    /\ At(t, "try") /\ ~ HasCached(t) /\ Sends(t) /\ ~ IsFull
    /\ buffer' = [buffer EXCEPT ![Slot(t)] = Item(t)]
    /\ Goto(t, "copied")
    /\ UNCHANGED <<schedVars, build, readPos, writePos, items, results, txCache, listDone,
                   ptr, ticks, expiry, due>>

\* (mutant) the result is not cached
CommitUncached(t, r) ==
    UNCHANGED <<build, results, txCache, listDone, ptr, ticks, expiry, due>>

\* the transaction commits with its result
Commit(t, r) ==
    /\ txCache' = [txCache EXCEPT ![t] = Append(@, <<r>>)]
    /\ ptr' = [ptr EXCEPT ![t] = @ + 1]
    /\ UNCHANGED <<build, results, listDone, ticks, expiry, due>>

\* queue_send_impl and queue_receive with opt_list: the kernel transaction
SendTx(t) ==
    /\ build = "opt_list"
    /\ At(t, "copied")
    /\ Push(t) /\ Commit(t, "sent")
    /\ Goto(t, "wake")
    /\ UNCHANGED schedVars

ReceiveTx(t) ==
    /\ build = "opt_list"
    /\ At(t, "try") /\ ~ HasCached(t) /\ Op(t) = "receive" /\ ~ IsEmpty
    /\ Dequeue /\ Commit(t, buffer[readPos])
    /\ Goto(t, "wake")
    /\ UNCHANGED schedVars

Other(t) == IF Sends(t) THEN Readers ELSE Writers
Own(t)   == IF Sends(t) THEN Writers ELSE Readers

\* the list transaction that follows, once per call
WakeOther(t) ==
    /\ At(t, "wake")
    /\ IF listDone[t] THEN UNCHANGED schedVars ELSE WakeFirst(Other(t))
    /\ listDone' = [listDone EXCEPT ![t] = TRUE]
    /\ Goto(t, "end")
    /\ UNCHANGED <<build, queueVars, results, txCache, ptr, ticks, expiry, due>>

\* queue_send_impl and queue_receive without opt_list: one transaction
SendTxJournal(t) ==
    /\ build = "journal"
    /\ At(t, "copied")
    /\ Push(t) /\ Commit(t, "sent")
    /\ WakeFirst(Readers)
    /\ Goto(t, "end")

ReceiveTxJournal(t) ==
    /\ build = "journal"
    /\ At(t, "try") /\ ~ HasCached(t) /\ Op(t) = "receive" /\ ~ IsEmpty
    /\ Dequeue /\ Commit(t, buffer[readPos])
    /\ WakeFirst(Writers)
    /\ Goto(t, "end")

Refused(t) ==
    /\ At(t, "try") /\ ~ HasCached(t)
    /\ IF Sends(t) THEN IsFull ELSE IsEmpty

\* (mutant) the wake-up time is computed again at every attempt
DeadlineAnew(t) == ticks[t]

\* the wake-up time is computed the first time the call blocks
Deadline(t) == IF expiry[t] = Never THEN ticks[t] ELSE expiry[t]

Sleep(t) ==
    /\ BlockOn(t, Own(t), Deadline(t))
    /\ expiry' = [expiry EXCEPT ![t] = Deadline(t)]
    /\ due' = [due EXCEPT ![t] = IF @ = Never THEN ticks[t] ELSE @]
    /\ Goto(t, "yield")

\* the queue is full (empty) and the call may wait: with opt_list the failed
\* transaction is not cached (try_run_relaxed)
Block(t) ==
    /\ build = "opt_list"
    /\ Refused(t) /\ ticks[t] # 0
    /\ Sleep(t)
    /\ UNCHANGED <<persistent, ptr, ticks>>

\* without it the refusal is cached like any result (run_relaxed)
BlockJournal(t) ==
    /\ build = "journal"
    /\ Refused(t) /\ ticks[t] # 0
    /\ Len(txCache[t]) < MaxRetries
    /\ Sleep(t)
    /\ txCache' = [txCache EXCEPT ![t] = Append(@, Refusal)]
    /\ ptr' = [ptr EXCEPT ![t] = @ + 1]
    /\ UNCHANGED <<build, queueVars, results, listDone, ticks>>

\* QueueFull or QueueEmpty, which run_relaxed caches as well
GiveUp(t) ==
    /\ Refused(t) /\ ticks[t] = 0
    /\ IF build = "journal"
       THEN /\ txCache' = [txCache EXCEPT ![t] = Append(@, Refusal)]
            /\ ptr' = [ptr EXCEPT ![t] = @ + 1]
       ELSE UNCHANGED <<txCache, ptr>>
    /\ Goto(t, "end")
    /\ UNCHANGED <<schedVars, build, queueVars, results, listDone, ticks, expiry, due>>

\* arch_yield, behind the critical section
Yield(t) ==
    /\ At(t, "yield")
    /\ YieldNow
    /\ Goto(t, "resume")
    /\ UNCHANGED <<persistent, ptr, ticks, expiry, due>>

\* (mutant) the countdown is not updated
CountdownStale(t) == ticks[t]

\* update_countdown; a wake-up time that was never set is 0
Countdown(t) == IF expiry[t] = Never THEN 0 ELSE expiry[t]

Resume(t) ==
    /\ At(t, "resume") /\ ~ Delayed(t)
    /\ ticks' = [ticks EXCEPT ![t] = Countdown(t)]
    /\ Goto(t, IF Active(t) THEN "try" ELSE "call")
    /\ UNCHANGED <<schedVars, persistent, ptr, expiry, due>>

\* the result of the last transaction this execution has run or passed over;
\* with opt_list a refusal is not cached
Outcome(t) ==
    IF ptr[t] = 0 \/ txCache[t][ptr[t]] = Refusal THEN "refused" ELSE txCache[t][ptr[t]][1]

\* syscall_end!: the result is recorded, TxCache and list_tx_done are reset
EndCall(t) ==
    /\ At(t, "end")
    /\ results' = [results EXCEPT ![t] = Append(@, Outcome(t))]
    /\ txCache' = [txCache EXCEPT ![t] = <<>>]
    /\ listDone' = [listDone EXCEPT ![t] = FALSE]
    /\ Goto(t, "call")
    /\ due' = [due EXCEPT ![t] = Never]
    /\ UNCHANGED <<schedVars, build, queueVars, ptr, ticks, expiry>>

\* the task has made its calls and sleeps for good, as an application would let it:
\* task_exit_error, where a function that returns ends, keeps the processor
\* for ever.  (The idle task spins.)
Finished(t) ==
    /\ At(t, "call") /\ ~ Active(t) /\ t # Idle
    /\ ring' = RemoveFromReadyList(t)
    /\ AddToDelayedList(t, Never)
    /\ UNCHANGED <<cur, wait>>
    /\ Goto(t, "yield")
    /\ UNCHANGED <<persistent, ptr, ticks, expiry, due>>

Less(f) == [t \in Task |-> IF f[t] \in {0, Never} THEN f[t] ELSE f[t] - 1]

Tick ==
    /\ ~ InCritical
    /\ TickAndSwitch
    /\ expiry' = Less(expiry) /\ due' = Less(due)
    /\ UNCHANGED <<persistent, pc, ptr, ticks>>

\* a power failure erases registers and stacks; every task starts again and,
\* past the calls it has completed, makes the interrupted one anew
PowerFailure ==
    /\ Reschedule
    /\ pc' = [t \in Task |-> "call"]
    /\ ptr' = [t \in Task |-> 0] /\ ticks' = [t \in Task |-> 0]
    /\ expiry' = [t \in Task |-> Never] /\ due' = [t \in Task |-> Never]
    /\ UNCHANGED persistent

Init ==
    /\ SchedInit
    /\ build \in Builds
    /\ buffer = [i \in 0 .. Length - 1 |-> None]
    /\ readPos = 0 /\ writePos = 0 /\ items = 0
    /\ results = [t \in Task |-> <<>>] /\ txCache = [t \in Task |-> <<>>]
    /\ listDone = [t \in Task |-> FALSE]
    /\ pc = [t \in Task |-> "call"]
    /\ ptr = [t \in Task |-> 0] /\ ticks = [t \in Task |-> 0]
    /\ expiry = [t \in Task |-> Never] /\ due = [t \in Task |-> Never]

Step(t) ==
    \/ BeginCall(t) \/ Bypass(t) \/ CopyItem(t)
    \/ SendTx(t) \/ ReceiveTx(t) \/ WakeOther(t)
    \/ SendTxJournal(t) \/ ReceiveTxJournal(t)
    \/ Block(t) \/ BlockJournal(t) \/ GiveUp(t)
    \/ Yield(t) \/ Resume(t) \/ EndCall(t) \/ Finished(t)

Next == (\E t \in Task : Step(t)) \/ Tick \/ PowerFailure

Spec == Init /\ [][Next]_vars

\* a task that is given the processor again and again gets on with its code,
\* and the tick interrupt keeps coming
Fairness == (\A t \in Task : SF_vars(Step(t))) /\ WF_vars(Tick)

FairSpec == Spec /\ Fairness

(***************************************************************************)
(* Properties.                                                             *)
(***************************************************************************)
\* Every variable keeps its type and the ring buffer's positions stay in it.
TypeOK ==
    /\ SchedTypeOK /\ ListsAgree
    /\ build \in Builds
    /\ readPos \in 0 .. Length - 1 /\ writePos \in 0 .. Length - 1
    /\ items \in 0 .. Length /\ (readPos + items) % Length = writePos
    /\ pc \in [Task -> {"call", "try", "copied", "wake", "yield", "resume", "end"}]
    /\ listDone \in [Task -> BOOLEAN]

\* a committed transaction whose call has not returned yet
Pending(t) == IF txCache[t] = <<>> THEN <<>> ELSE txCache[t][Len(txCache[t])]

\* the items in the order in which they are received
Contents == [i \in 1 .. items |-> buffer[(readPos + i - 1) % Length]]

\* the results of the completed calls and of the committed one
Answers == [t \in Task |-> results[t] \o Pending(t)]

Fifo == INSTANCE BoundedFifo WITH q <- Contents, out <- Answers

\* The queue is a bounded FIFO: a send or a receive takes effect exactly once,
\* with one result, although the item is copied outside the log, the call is
\* made again after a power failure, and the wake-up is a second transaction.
\* In the build without opt_list this is so as long as no call is refused
\* twice (MaxRetries <= 1), see AnswersItsTransaction.
ImplementsFifo == Fifo!FifoSpec

\* A call whose transaction has committed returns what the transaction did.
\* Without opt_list the time a repeated call has to wait is gone behind the
\* first refusal it passes over, so it ends at the second one.
AnswersItsTransaction ==
    \A t \in Task : pc[t] = "end" /\ Pending(t) # <<>> => ptr[t] = Len(txCache[t])

\* a task that will look at the queue before it sleeps again
Poised(t) == ~ Delayed(t) /\ Active(t) /\ Pending(t) = <<>> /\ pc[t] # "end"

\* a committed call that has yet to wake a task
OwesWake(t) == Pending(t) # <<>> /\ ~ listDone[t]

\* While a reader sleeps there are never more items in the queue than ready
\* readers and senders that have yet to wake one, and the same for writers and
\* free slots: a wake-up is not lost when a third task is faster, or when the
\* power fails between the transaction and the wake-up.
NoLostWakeup ==
    LET Senders   == {t \in Task : Active(t) /\ Sends(t)}
        Receivers == {t \in Task : Active(t) /\ ~ Sends(t)}
        Bound(looking, owing) ==
            Cardinality({t \in looking : Poised(t)} \cup {t \in owing : OwesWake(t)})
    IN  build = "opt_list" =>
            /\ wait[Readers] # <<>> => items <= Bound(Receivers, Senders)
            /\ wait[Writers] # <<>> => Length - items <= Bound(Senders, Receivers)

\* A call that sleeps again because another task was faster still wakes at its
\* first deadline, and it gives up only when that deadline has passed.
TimesOutOnTime ==
    build = "opt_list" =>
        \A t \in Task : Active(t) =>
            /\ Delayed(t) /\ due[t] # Never => left[t] = due[t]
            /\ pc[t] = "end" /\ Pending(t) = <<>> /\ Program[t][CallNo(t)].ticks # 0
                  => due[t] = 0

\* Once the power stays on every task gets through all of its calls.
EveryCallReturns ==
    build = "opt_list" /\ <>[][~ PowerFailure]_vars => <>(\A t \in Task : ~ Active(t))

=============================================================================
