----------------------------- MODULE Semaphore -----------------------------
(***************************************************************************)
(* The semaphore of semaphore.rs, its system calls, and PMutex on top of   *)
(* it.  Every task does some rounds of: lock, one user transaction, unlock.*)
(* The calls are made outside transactions and are not replayed, so after  *)
(* a power failure a task runs its function from the start: it locks and   *)
(* unlocks again, and only its user transactions are bypassed.             *)
(*                                                                         *)
(* With opt_list a give is a kernel transaction and a list transaction     *)
(* behind it; without it both are one kernel transaction.                  *)
(***************************************************************************)
EXTENDS Sched

CONSTANTS
    Builds,     \* the builds under study, of "opt_list" and "journal"
    Size,       \* Semaphore.size: 1 for a mutex
    Rounds,     \* Rounds[t]: how often the task locks
    Wait        \* DEFAULT_MUTEX_WAIT_TIME

Waiters == "waiters"

ASSUME SemaphoreAssumption ==
    /\ Builds \subseteq {"opt_list", "journal"} /\ Builds # {}
    /\ Size \in Nat \ {0}
    /\ Rounds \in [Task -> Nat] /\ Rounds[Idle] = 0
    /\ WaitList = {Waiters}
    /\ Wait \in 1 .. Never - 1

VARIABLES
    build,      \* the build, chosen once
    count,      \* Semaphore.count
    holder,     \* Semaphore.mutex_holder, Idle for None
    listDone,   \* list_tx_done
    worked,     \* for each task its committed user transactions
    pc, round,  \* where a task is, and in which of its rounds
    ticks,      \* the register wait_ticks
    expiry,     \* the register wakeup_time in ticks from now, Never until it is set
    overslept,  \* history: how often the take slept after its deadline
    early,      \* history: a take has failed before its deadline
    failed,     \* history: the power has failed
    retaken     \* history: the last holder took a semaphore that was free

persistent == <<build, count, holder, listDone, worked>>
registers  == <<pc, round, ticks, expiry>>
history    == <<overslept, early, failed, retaken>>
vars       == <<schedVars, persistent, registers, history>>

At(t, p)   == cur = t /\ pc[t] = p
Goto(t, p) == pc' = [pc EXCEPT ![t] = p]

\* with_no_interrupt around the two transactions of a give
InCritical == pc[cur] = "pop"

(***************************************************************************)
(* semaphore_take, called by PMutex::lock until it succeeds.               *)
(***************************************************************************)
Take(t) ==
    /\ At(t, "call") /\ round[t] < Rounds[t] /\ holder # t
    /\ ticks' = [ticks EXCEPT ![t] = Wait]
    /\ expiry' = [expiry EXCEPT ![t] = Never]
    /\ overslept' = [overslept EXCEPT ![t] = 0]
    /\ Goto(t, "try")
    /\ UNCHANGED <<schedVars, persistent, round, early, failed, retaken>>

\* the task is still named as the holder: the take returns at once
TakeAsHolder(t) ==
    /\ At(t, "call") /\ round[t] < Rounds[t] /\ holder = t
    /\ retaken' = (retaken \/ count > 0)
    /\ Goto(t, "taken")
    /\ UNCHANGED <<schedVars, persistent, round, ticks, expiry, overslept, early, failed>>

\* (mutant) the count is not looked at
TakeAnyway(t) ==
    /\ At(t, "try")
    /\ count' = 0
    /\ holder' = t
    /\ Goto(t, "taken")
    /\ UNCHANGED <<schedVars, build, listDone, worked, round, ticks, expiry, history>>

TryTake(t) ==
    /\ At(t, "try") /\ count > 0
    /\ count' = count - 1
    /\ holder' = t
    /\ Goto(t, "taken")
    /\ UNCHANGED <<schedVars, build, listDone, worked, round, ticks, expiry, history>>

Deadline(t) == IF expiry[t] = Never THEN ticks[t] ELSE expiry[t]

\* (mutant) the remaining time is never computed again
SameCountdown(t, k) == ticks[t]

\* update_countdown, k ticks before the wake-up time
Countdown(t, k) == k

\* the take goes to sleep; with opt_list it yields inside the critical
\* section, where the switch is only pended, and so computes the remaining
\* time before it has slept
Block(t) ==
    /\ At(t, "try") /\ count = 0 /\ ticks[t] # 0
    /\ BlockOn(t, Waiters, Deadline(t))
    /\ expiry' = [expiry EXCEPT ![t] = Deadline(t)]
    /\ ticks' = IF build = "opt_list" THEN [ticks EXCEPT ![t] = Countdown(t, Deadline(t))] ELSE ticks
    /\ overslept' = [overslept EXCEPT ![t] = IF expiry[t] = 0 THEN @ + 1 ELSE @]
    /\ Goto(t, "yield")
    /\ UNCHANGED <<persistent, round, early, failed, retaken>>

\* the take fails, and lock calls it again
TakeFails(t) ==
    /\ At(t, "try") /\ count = 0 /\ ticks[t] = 0
    /\ early' = (early \/ expiry[t] # 0)
    /\ listDone' = [listDone EXCEPT ![t] = FALSE]
    /\ Goto(t, "call")
    /\ UNCHANGED <<schedVars, build, count, holder, worked, round, ticks, expiry,
                   overslept, failed, retaken>>

Resume(t) ==
    /\ At(t, "resume") /\ ~ Delayed(t)
    /\ ticks' = IF build = "opt_list" THEN ticks ELSE [ticks EXCEPT ![t] = Countdown(t, expiry[t])]
    /\ Goto(t, "try")
    /\ UNCHANGED <<schedVars, persistent, round, expiry, history>>

\* syscall_end_outside_tx!
EndTake(t) ==
    /\ At(t, "taken")
    /\ listDone' = [listDone EXCEPT ![t] = FALSE]
    /\ Goto(t, "locked")
    /\ UNCHANGED <<schedVars, build, count, holder, worked, round, ticks, expiry, history>>

\* the user transaction on the protected data, bypassed once it has committed
Work(t) ==
    /\ At(t, "locked")
    /\ worked' = [worked EXCEPT ![t] = IF @ > round[t] THEN @ ELSE @ + 1]
    /\ Goto(t, "give")
    /\ UNCHANGED <<schedVars, build, count, holder, listDone, round, ticks, expiry, history>>

(***************************************************************************)
(* semaphore_give, called when the guard is dropped.                       *)
(***************************************************************************)
\* (mutant) a give that finds a task waiting hands nothing over
GiveNothing(t) ==
    /\ At(t, "give")
    /\ Goto(t, "given")
    /\ UNCHANGED <<schedVars, persistent, round, ticks, expiry, history>>

\* the holder stays named
GiveTx(t) ==
    /\ At(t, "give")
    /\ IF count = Size
       THEN Goto(t, "given") /\ UNCHANGED <<schedVars, count>>
       ELSE /\ count' = count + 1
            /\ IF build = "opt_list"
               THEN Goto(t, "pop") /\ UNCHANGED schedVars
               ELSE /\ WakeFirst(Waiters)
                    /\ Goto(t, IF wait[Waiters] # <<>> /\ Prio[Head(wait[Waiters])] < Prio[t]
                               THEN "giveyield" ELSE "given")
    /\ UNCHANGED <<build, holder, listDone, worked, round, ticks, expiry, history>>

\* with opt_list the task to wake is asked whether it is ready while it is
\* still asleep: the give never yields
PopWaiter(t) ==
    /\ At(t, "pop")
    /\ IF listDone[t] THEN UNCHANGED schedVars ELSE WakeFirst(Waiters)
    /\ listDone' = [listDone EXCEPT ![t] = TRUE]
    /\ Goto(t, "given")
    /\ UNCHANGED <<build, count, holder, worked, round, ticks, expiry, history>>

EndGive(t) ==
    /\ At(t, "given")
    /\ listDone' = [listDone EXCEPT ![t] = FALSE]
    /\ round' = [round EXCEPT ![t] = @ + 1]
    /\ Goto(t, "call")
    /\ UNCHANGED <<schedVars, build, count, holder, worked, ticks, expiry, history>>

Yield(t) ==
    /\ cur = t /\ pc[t] \in {"yield", "giveyield"}
    /\ YieldNow
    /\ Goto(t, IF pc[t] = "yield" THEN "resume" ELSE "given")
    /\ UNCHANGED <<persistent, round, ticks, expiry, history>>

\* the task has done its rounds and sleeps for good, as an application would let it:
\* task_exit_error, where a function that returns ends, keeps the processor
\* for ever.  (The idle task spins.)
Finished(t) ==
    /\ At(t, "call") /\ round[t] = Rounds[t] /\ t # Idle
    /\ ring' = RemoveFromReadyList(t)
    /\ AddToDelayedList(t, Never)
    /\ UNCHANGED <<cur, wait>>
    /\ Goto(t, "over")
    /\ UNCHANGED <<persistent, round, ticks, expiry, history>>

\* behind it the processor is given away
Over(t) ==
    /\ At(t, "over")
    /\ YieldNow
    /\ UNCHANGED <<persistent, registers, history>>

Tick ==
    /\ ~ InCritical
    /\ TickAndSwitch
    /\ expiry' = [t \in Task |-> IF expiry[t] \in {0, Never} THEN expiry[t] ELSE expiry[t] - 1]
    /\ UNCHANGED <<persistent, pc, round, ticks, history>>

PowerFailure ==
    /\ Reschedule
    /\ pc' = [t \in Task |-> "call"] /\ round' = [t \in Task |-> 0]
    /\ ticks' = [t \in Task |-> 0] /\ expiry' = [t \in Task |-> Never]
    /\ overslept' = [t \in Task |-> 0]
    /\ failed' = TRUE
    /\ UNCHANGED <<persistent, early, retaken>>

Init ==
    /\ SchedInit
    /\ build \in Builds
    /\ count = Size /\ holder = Idle
    /\ listDone = [t \in Task |-> FALSE] /\ worked = [t \in Task |-> 0]
    /\ pc = [t \in Task |-> "call"] /\ round = [t \in Task |-> 0]
    /\ ticks = [t \in Task |-> 0] /\ expiry = [t \in Task |-> Never]
    /\ overslept = [t \in Task |-> 0]
    /\ early = FALSE /\ failed = FALSE /\ retaken = FALSE

Step(t) ==
    \/ Take(t) \/ TakeAsHolder(t) \/ TryTake(t) \/ Block(t) \/ TakeFails(t) \/ Resume(t)
    \/ EndTake(t) \/ Work(t) \/ GiveTx(t) \/ PopWaiter(t) \/ EndGive(t)
    \/ Yield(t) \/ Finished(t) \/ Over(t)

Next == (\E t \in Task : Step(t)) \/ Tick \/ PowerFailure

Spec == Init /\ [][Next]_vars

\* a task that is given the processor again and again gets on with its code,
\* and the tick interrupt keeps coming
Fairness == (\A t \in Task : SF_vars(Step(t))) /\ WF_vars(Tick)

FairSpec == Spec /\ Fairness

(***************************************************************************)
(* Properties.                                                             *)
(***************************************************************************)
\* Every variable keeps its type, the count its bounds (give asserts them).
TypeOK ==
    /\ SchedTypeOK /\ ListsAgree
    /\ count \in 0 .. Size /\ holder \in Task
    /\ worked \in [Task -> Nat] /\ \A t \in Task : worked[t] <= Rounds[t]
    /\ pc \in [Task -> {"call", "try", "taken", "locked", "give", "pop", "given",
                        "yield", "giveyield", "resume", "over"}]

\* between its lock and its unlock
Holding(t) == pc[t] \in {"taken", "locked", "give"}

\* Of a mutex, at most one task is between its lock and its unlock.
MutualExclusion == Size = 1 => \A t, u \in Task : Holding(t) /\ Holding(u) => t = u

\* Unless the last holder takes a free mutex again without counting it, the
\* mutex is held by the task it names and by no other, also when a power
\* failure sends the holder back to its lock.
HeldByItsHolder ==
    Size = 1 /\ ~ retaken => \A t \in Task : Holding(t) => holder = t /\ count = 0

\* a task that will ask for the semaphore before it sleeps again
Poised(t) ==
    /\ ~ Delayed(t) /\ holder # t
    /\ \/ pc[t] \in {"call", "try", "resume"} /\ round[t] < Rounds[t]
       \/ pc[t] = "yield"

\* While a task waits, a free semaphore is about to be taken by a task that is
\* ready or to be offered by the one that gave it.  With opt_list a power
\* failure between the two transactions of a give breaks this: the give is not
\* finished, and the next one finds nothing to give.
NoLostWakeup ==
    (build = "journal" \/ ~ failed) /\ wait[Waiters] # <<>> =>
        count <= Cardinality({t \in Task : Poised(t) \/ pc[t] = "pop"})

\* A take fails only when its deadline has passed, and then at the latest
\* after one more sleep: with opt_list the remaining time is computed before
\* the sleep, and without it the deadline can pass between the computation and
\* the next attempt.
TakeTimesOut ==
    /\ ~ early
    /\ \A t \in Task : overslept[t] <= 1

\* Once the power stays on every task gets the mutex as often as it asks.
EveryLockIsGranted ==
    <>[][~ PowerFailure]_vars => <>(\A t \in Task : worked[t] = Rounds[t])

=============================================================================
