-------------------------- MODULE Semaphore_proofs --------------------------
(***************************************************************************)
(* Proofs about Semaphore: who holds a mutex and when a take gives up, both*)
(* without a look at the lists (IInv); then, with the lists (WInv), that no*)
(* wake-up is lost.                                                        *)
(***************************************************************************)
EXTENDS Semaphore, Sched_proofs, TLAPS

\* places in the code of a task
Places == {"call", "try", "taken", "locked", "give", "pop", "given",
           "yield", "giveyield", "resume", "over"}

\* The types of the variables the proofs read.
RegistersOK ==
    /\ build \in Builds
    /\ count \in 0 .. Size
    /\ pc \in [Task -> Places]
    /\ ticks \in [Task -> 0 .. Never - 1]
    /\ expiry \in [Task -> 0 .. Never]
    /\ overslept \in [Task -> Nat]

\* A take that has blocked has a deadline; once it has slept behind it, the
\* remaining time is zero when it next looks.
Timely(t) ==
    /\ overslept[t] <= 1
    /\ pc[t] \in {"yield", "resume"} => expiry[t] # Never
    /\ pc[t] = "try" \/ (pc[t] \in {"yield", "resume"} /\ build = "opt_list")
          => (ticks[t] = 0 => expiry[t] = 0)
    /\ overslept[t] = 1 /\ pc[t] \in {"try", "yield", "resume"} =>
          /\ expiry[t] = 0
          /\ pc[t] = "try" \/ build = "opt_list" => ticks[t] = 0

TimeInv == ~ early /\ \A t \in Task : Timely(t)

IInv == RegistersOK /\ HeldByItsHolder /\ TimeInv

\* What the proofs need of the constants.
LEMMA Constants ==
    /\ Size \in Nat /\ Size >= 1
    /\ Never \in Nat /\ Wait \in 1 .. Never - 1
BY SchedAssumption, SemaphoreAssumption DEF SchedAssumption, SemaphoreAssumption

\* The initial state satisfies the invariant.
LEMMA InitIInv == Init => IInv
<1> SUFFICES ASSUME Init PROVE IInv
    OBVIOUS
<1> USE Constants DEF Init
<1>1. RegistersOK
    BY DEF RegistersOK, Places
<1>2. HeldByItsHolder
    BY DEF HeldByItsHolder, Holding
<1>3. TimeInv
    BY DEF TimeInv, Timely
<1>4. QED
    BY <1>1, <1>2, <1>3 DEF IInv

\* Every step keeps the types.
LEMMA RegistersStep == IInv /\ [Next]_vars => RegistersOK'
<1> SUFFICES ASSUME IInv, [Next]_vars PROVE RegistersOK'
    OBVIOUS
<1> USE Constants DEF IInv, RegistersOK, Places, persistent, registers, history, Goto, At
<1>1. ASSUME NEW t \in Task, Take(t) PROVE RegistersOK'
    BY <1>1 DEF Take
<1>2. ASSUME NEW t \in Task, TakeAsHolder(t) PROVE RegistersOK'
    BY <1>2 DEF TakeAsHolder
<1>3. ASSUME NEW t \in Task, TryTake(t) PROVE RegistersOK'
    BY <1>3 DEF TryTake
<1>4. ASSUME NEW t \in Task, Block(t) PROVE RegistersOK'
    BY <1>4 DEF Block, Deadline, Countdown
<1>5. ASSUME NEW t \in Task, TakeFails(t) PROVE RegistersOK'
    BY <1>5 DEF TakeFails
<1>6. ASSUME NEW t \in Task, Resume(t) PROVE RegistersOK'
    BY <1>6 DEF Resume, Countdown, TimeInv, Timely
<1>7. ASSUME NEW t \in Task, EndTake(t) \/ Work(t) \/ PopWaiter(t) \/ EndGive(t)
      PROVE RegistersOK'
    BY <1>7 DEF EndTake, Work, PopWaiter, EndGive
<1>8. ASSUME NEW t \in Task, GiveTx(t) PROVE RegistersOK'
    <2>1. count' = count \/ (count # Size /\ count' = count + 1)
        BY <1>8 DEF GiveTx
    <2>2. count' \in 0 .. Size
        BY <2>1
    <2>3. \E p \in Places : pc' = [pc EXCEPT ![t] = p]
        BY <1>8 DEF GiveTx
    <2>4. pc' \in [Task -> Places]
        BY <2>3
    <2>5. UNCHANGED <<build, ticks, expiry, overslept>>
        BY <1>8 DEF GiveTx
    <2>6. QED
        BY <2>2, <2>4, <2>5
<1>9. ASSUME NEW t \in Task, Yield(t) \/ Finished(t) \/ Over(t) PROVE RegistersOK'
    BY <1>9 DEF Yield, Finished, Over
<1>10. CASE Tick
    BY <1>10 DEF Tick
<1>11. CASE PowerFailure
    BY <1>11 DEF PowerFailure
<1>12. CASE UNCHANGED vars
    BY <1>12 DEF vars
<1>13. QED
    BY <1>1, <1>2, <1>3, <1>4, <1>5, <1>6, <1>7, <1>8, <1>9, <1>10, <1>11, <1>12
       DEF Next, Step

\* Only the holder enters, stays in and leaves the mutex.
LEMMA HolderStep == IInv /\ [Next]_vars => HeldByItsHolder'
<1> SUFFICES ASSUME IInv, [Next]_vars, Size = 1, ~ retaken',
                    NEW u \in Task, Holding(u)'
             PROVE  holder' = u /\ count' = 0
    BY DEF HeldByItsHolder
<1> USE Constants DEF IInv, RegistersOK, HeldByItsHolder, Holding, persistent,
                      registers, history, Goto, At
<1>1. ASSUME NEW t \in Task, TakeAsHolder(t) PROVE holder' = u /\ count' = 0
    <2>1. ~ retaken /\ ~ (count > 0)
        BY <1>1, Zenon DEF TakeAsHolder
    <2>2. count = 0 /\ UNCHANGED <<count, holder>>
        BY <1>1, <2>1 DEF TakeAsHolder
    <2>3. CASE u = t
        BY <1>1, <2>2, <2>3 DEF TakeAsHolder
    <2>4. CASE u # t
        BY <1>1, <2>1, <2>2, <2>4 DEF TakeAsHolder
    <2>5. QED
        BY <2>3, <2>4
<1>2. ASSUME NEW t \in Task, TryTake(t) PROVE holder' = u /\ count' = 0
    BY <1>2 DEF TryTake
<1>3. ASSUME NEW t \in Task, GiveTx(t) PROVE holder' = u /\ count' = 0
    BY <1>3 DEF GiveTx
<1>4. ASSUME NEW t \in Task, Take(t) \/ Block(t) \/ TakeFails(t) \/ Resume(t)
      PROVE holder' = u /\ count' = 0
    BY <1>4 DEF Take, Block, TakeFails, Resume
<1>5. ASSUME NEW t \in Task, EndTake(t) \/ Work(t) \/ PopWaiter(t) \/ EndGive(t)
      PROVE holder' = u /\ count' = 0
    BY <1>5 DEF EndTake, Work, PopWaiter, EndGive
<1>6. ASSUME NEW t \in Task, Yield(t) \/ Finished(t) \/ Over(t)
      PROVE holder' = u /\ count' = 0
    BY <1>6 DEF Yield, Finished, Over
<1>7. CASE Tick
    BY <1>7 DEF Tick
<1>8. CASE PowerFailure
    BY <1>8 DEF PowerFailure
<1>9. CASE UNCHANGED vars
    BY <1>9 DEF vars
<1>10. QED
    BY <1>1, <1>2, <1>3, <1>4, <1>5, <1>6, <1>7, <1>8, <1>9 DEF Next, Step

\* The remaining time of a take and its deadline stay in step.
LEMMA TimeStep == IInv /\ [Next]_vars => TimeInv'
<1> SUFFICES ASSUME IInv, [Next]_vars PROVE TimeInv'
    OBVIOUS
<1> USE Constants DEF IInv, RegistersOK, TimeInv, Timely, persistent,
                      registers, history, Goto, At
<1>1. ASSUME NEW t \in Task, Take(t) PROVE TimeInv'
    BY <1>1 DEF Take
<1>2. ASSUME NEW t \in Task, Block(t) PROVE TimeInv'
    BY <1>2 DEF Block, Deadline, Countdown
<1>3. ASSUME NEW t \in Task, TakeFails(t) PROVE TimeInv'
    BY <1>3 DEF TakeFails
<1>4. ASSUME NEW t \in Task, Resume(t) PROVE TimeInv'
    BY <1>4 DEF Resume, Countdown
<1>5. ASSUME NEW t \in Task, TakeAsHolder(t) \/ TryTake(t) PROVE TimeInv'
    BY <1>5 DEF TakeAsHolder, TryTake
<1>6. ASSUME NEW t \in Task, GiveTx(t) PROVE TimeInv'
    BY <1>6 DEF GiveTx
<1>7. ASSUME NEW t \in Task, EndTake(t) \/ Work(t) \/ PopWaiter(t) \/ EndGive(t)
      PROVE TimeInv'
    BY <1>7 DEF EndTake, Work, PopWaiter, EndGive
<1>8. ASSUME NEW t \in Task, Yield(t) \/ Finished(t) \/ Over(t) PROVE TimeInv'
    BY <1>8 DEF Yield, Finished, Over
<1>9. CASE Tick
    BY <1>9 DEF Tick
<1>10. CASE PowerFailure
    BY <1>10 DEF PowerFailure
<1>11. CASE UNCHANGED vars
    BY <1>11 DEF vars
<1>12. QED
    BY <1>1, <1>2, <1>3, <1>4, <1>5, <1>6, <1>7, <1>8, <1>9, <1>10, <1>11
       DEF Next, Step

\* The invariant holds of every task set, semaphore size and waiting time, and
\* in both builds, after any number of power failures.
THEOREM Inductive == Spec => []IInv
<1>1. IInv /\ [Next]_vars => IInv'
    BY RegistersStep, HolderStep, TimeStep DEF IInv
<1>2. QED
    BY InitIInv, <1>1, PTL DEF Spec

\* As long as nobody takes a free mutex as its last holder, the mutex is held
\* by the task it names and by no other.
THEOREM HolderHolds == Spec => []HeldByItsHolder
<1>1. IInv => HeldByItsHolder
    BY DEF IInv
<1>2. QED
    BY <1>1, Inductive, PTL

\* No take fails before its deadline, and none sleeps twice behind it.
THEOREM TakesTimeOut == Spec => []TakeTimesOut
<1>1. IInv => TakeTimesOut
    BY DEF IInv, TimeInv, Timely, TakeTimesOut
<1>2. QED
    BY <1>1, Inductive, PTL

-----------------------------------------------------------------------------
(***************************************************************************)
(* No wake-up is lost.  This needs the scheduler: a task that goes to      *)
(* sleep is on the lists, and one that is woken is off them.               *)
(***************************************************************************)

\* The lists agree, the idle task never sleeps, and the current task sleeps
\* only behind the place where it is about to yield.
SchedOK ==
    /\ ListsOK
    /\ Idle \notin Asleep /\ pc[Idle] = "call"
    /\ cur \in Asleep => pc[cur] \in {"yield", "over"}

\* in one of its rounds
Busy == Places \ {"call", "over"}

\* Who waits is not named as the holder and has a round to do.
WaitsFor(t) ==
    t \in Waiting(Waiters) => holder # t /\ round[t] < Rounds[t] /\ pc[t] \in {"call", "yield", "resume"}

\* Where a task is, how far it has come and what it has done agree.
RoundOK(t) ==
    /\ round[t] <= Rounds[t] /\ worked[t] <= Rounds[t]
    /\ pc[t] \in Busy => round[t] < Rounds[t]
    /\ pc[t] \in {"try", "yield", "resume"} => holder # t
    /\ pc[t] = "pop" => build = "opt_list"
    /\ listDone[t] => failed \/ pc[t] = "given"

RoundsInv ==
    /\ holder \in Task /\ round \in [Task -> Nat] /\ worked \in [Task -> Nat]
    /\ listDone \in [Task -> BOOLEAN]
    /\ \A t \in Task : RoundOK(t)

WaitersInv == \A t \in Task : WaitsFor(t)

WInv == IInv /\ SchedOK /\ RoundsInv /\ WaitersInv

\* the tasks NoLostWakeup counts
Ready == {t \in Task : Poised(t) \/ pc[t] = "pop"}

\* The initial state satisfies the invariant, and nobody waits.
LEMMA InitWInv == Init => WInv /\ NoLostWakeup
<1> SUFFICES ASSUME Init PROVE WInv /\ NoLostWakeup
    OBVIOUS
<1>1. ListsOK /\ Asleep = {} /\ cur \in Task /\ \A l \in WaitList : Waiting(l) = {}
    BY SchedInitFacts DEF Init
<1>2. Waiters \in WaitList
    BY SemaphoreAssumption DEF SemaphoreAssumption
<1>3. Idle \in Task /\ Rounds \in [Task -> Nat]
    BY SemaphoreAssumption, SchedConstants DEF SemaphoreAssumption
<1>4. SchedOK
    BY <1>1, <1>3 DEF Init, SchedOK
<1>5. RoundsInv
    BY <1>1, <1>2, <1>3 DEF Init, RoundsInv, RoundOK, Busy
<1>w. WaitersInv
    BY <1>1, <1>2 DEF WaitersInv, WaitsFor
<1>6. NoLostWakeup
    BY <1>1, <1>2, SleepersFacts DEF NoLostWakeup
<1>7. QED
    BY <1>4, <1>5, <1>w, <1>6, InitIInv DEF WInv

\* The steps that leave the scheduler alone.
QuietStep(t) ==
    \/ Take(t) \/ TakeAsHolder(t) \/ TryTake(t) \/ TakeFails(t) \/ Resume(t)
    \/ EndTake(t) \/ Work(t) \/ EndGive(t)

\* What the proofs need of the scheduler's state.
LEMMA SchedOKFacts ==
    ASSUME WInv
    PROVE  /\ ListsOK /\ Idle \notin Asleep /\ Idle \in Task /\ Waiters \in WaitList
           /\ Rounds[Idle] = 0 /\ Rounds \in [Task -> Nat]
           /\ pc[Idle] = "call" /\ pc \in [Task -> Places] /\ round \in [Task -> Nat]
           /\ cur \in Asleep => pc[cur] \in {"yield", "over"}
           /\ build \in {"opt_list", "journal"}
BY SemaphoreAssumption, SchedConstants
   DEF WInv, SemaphoreAssumption, SchedOK, RoundsInv, IInv, RegistersOK

\* A step that puts nobody to sleep wakes at most one task.
LEMMA AwakeEffect ==
    ASSUME WInv, NEW t \in Task, QuietStep(t) \/ GiveTx(t) \/ PopWaiter(t)
    PROVE  /\ ListsOK' /\ cur = t /\ t \notin Asleep
           /\ UNCHANGED schedVars \/ \E w \in Task : Woken(w, Waiters)
<1>1. cur = t /\ pc[t] \notin {"yield", "over"}
    BY DEF QuietStep, Take, TakeAsHolder, TryTake, TakeFails, Resume, EndTake, Work, EndGive,
           GiveTx, PopWaiter, At
<1>2. t \notin Asleep
    BY <1>1, SchedOKFacts
<1>3. UNCHANGED schedVars \/ WakeFirst(Waiters)
    BY DEF QuietStep, Take, TakeAsHolder, TryTake, TakeFails, Resume, EndTake, Work, EndGive,
           GiveTx, PopWaiter
<1>4. QED
    BY <1>1, <1>2, <1>3, SchedOKFacts, SameLists, WakeFirstFacts

\* A take that blocks is awake and goes to sleep on the wait list.
LEMMA BlockEffect ==
    ASSUME WInv, NEW t \in Task, Block(t)
    PROVE  ListsOK' /\ cur = t /\ t \notin Asleep /\ Slept(t, Waiters, Deadline(t))
<1>1. cur = t /\ t \notin Asleep /\ ~ Delayed(t) /\ BlockOn(t, Waiters, Deadline(t))
    BY SchedOKFacts DEF Block, At, Asleep, Delayed
<1>2. Deadline(t) \in 0 .. Never
    BY Constants DEF Deadline, WInv, IInv, RegistersOK
<1>3. QED
    BY <1>1, <1>2, SchedOKFacts, BlockOnFacts

\* A task that has done its rounds is awake and goes to sleep for good.
LEMMA FinishedEffect ==
    ASSUME WInv, NEW t \in Task, Finished(t)
    PROVE  /\ ListsOK' /\ cur = t /\ t \notin Asleep
           /\ Asleep' = Asleep \cup {t} /\ UNCHANGED <<cur, wait>>
<1>1. cur = t /\ t \notin Asleep /\ ~ Delayed(t)
    BY SchedOKFacts DEF Finished, At, Asleep, Delayed
<1>2. ring' = RemoveFromReadyList(t) /\ AddToDelayedList(t, Never) /\ UNCHANGED <<cur, wait>>
    BY DEF Finished
<1>3. Never \in 0 .. Never
    BY Constants
<1>4. QED
    BY <1>1, <1>2, <1>3, SchedOKFacts, SleepFacts

\* A yield gives the processor to a task that is awake.
LEMMA YieldEffect ==
    ASSUME WInv, NEW t \in Task, Yield(t) \/ Over(t)
    PROVE  ListsOK' /\ cur = t /\ ~ Delayed(cur)' /\ UNCHANGED <<delay, wait>>
<1>1. YieldNow /\ cur = t
    BY DEF Yield, Over, At
<1>2. QED
    BY <1>1, SchedOKFacts, YieldFacts

\* The tick and a power failure leave a task that is awake as the current one.
LEMMA TickEffect ==
    ASSUME WInv, Tick \/ PowerFailure
    PROVE  /\ ListsOK' /\ cur' \in Task /\ ~ Delayed(cur)'
           /\ Asleep' \subseteq Asleep /\ Waiting(Waiters)' \subseteq Waiting(Waiters)
<1>1. ListsOK /\ Idle \notin Asleep /\ Waiters \in WaitList
    BY SchedOKFacts
<1>2. CASE Tick
    <2>1. TickAndSwitch
        BY <1>2 DEF Tick
    <2>2. QED
        BY <1>1, <1>2, <2>1, TickFacts
<1>3. CASE PowerFailure
    <2>1. Reschedule
        BY <1>3 DEF PowerFailure
    <2>2. ListsOK' /\ ~ Delayed(cur)' /\ cur' \in Task /\ UNCHANGED <<delay, left, wait>>
        BY <1>1, <2>1, YieldFacts
    <2>3. QED
        BY <2>2 DEF Asleep, Waiting
<1>4. QED
    BY <1>2, <1>3

\* Every step keeps the lists in order.
LEMMA SchedStep == WInv /\ [Next]_vars => SchedOK'
<1> SUFFICES ASSUME WInv, [Next]_vars PROVE SchedOK'
    OBVIOUS
<1> USE SchedOKFacts
<1>1. ASSUME NEW t \in Task, Step(t) PROVE SchedOK'
    <2>1. t # Idle /\ \E p \in Places : pc' = [pc EXCEPT ![t] = p]
        BY <1>1 DEF Step, Take, TakeAsHolder, TryTake, Block, TakeFails, Resume, EndTake, Work,
                    GiveTx, PopWaiter, EndGive, Yield, Finished, Over, At, Goto, registers, Places
    <2>2. pc'[Idle] = "call"
        BY <2>1
    <2>3. CASE QuietStep(t) \/ GiveTx(t) \/ PopWaiter(t)
        BY <2>2, <2>3, AwakeEffect, SameLists DEF SchedOK, Woken
    <2>4. CASE Block(t) \/ Finished(t)
        <3>1. pc'[t] \in {"yield", "over"}
            BY <2>4 DEF Block, Finished, Goto
        <3>2. ListsOK' /\ Asleep' = Asleep \cup {t} /\ cur' = t
            BY <2>4, BlockEffect, FinishedEffect DEF Slept
        <3>3. QED
            BY <2>1, <2>2, <3>1, <3>2 DEF SchedOK
    <2>5. CASE Yield(t) \/ Over(t)
        BY <2>2, <2>5, YieldEffect DEF SchedOK, Delayed, Asleep
    <2>6. QED
        BY <1>1, <2>3, <2>4, <2>5 DEF Step, QuietStep
<1>2. CASE Tick \/ PowerFailure
    <2>1. pc'[Idle] = "call"
        BY <1>2 DEF Tick, PowerFailure
    <2>2. QED
        BY <1>2, <2>1, TickEffect DEF SchedOK, Delayed, Asleep
<1>3. CASE UNCHANGED vars
    BY <1>3, SameLists DEF SchedOK, vars, registers
<1>4. QED
    BY <1>1, <1>2, <1>3 DEF Next

\* Every step keeps rounds, holder and places in step.
LEMMA RoundsStep == WInv /\ [Next]_vars => RoundsInv'
<1> SUFFICES ASSUME WInv, [Next]_vars PROVE RoundsInv'
    OBVIOUS
<1>0. RoundsInv
    BY DEF WInv
<1> USE <1>0, SchedOKFacts DEF RoundsInv, RoundOK, Busy, Places, persistent, registers, history, Goto, At
<1>1. ASSUME NEW t \in Task, Take(t) \/ TakeAsHolder(t) PROVE RoundsInv'
    BY <1>1 DEF Take, TakeAsHolder
<1>2. ASSUME NEW t \in Task, TryTake(t) PROVE RoundsInv'
    BY <1>2 DEF TryTake
<1>3. ASSUME NEW t \in Task, Block(t) \/ Resume(t) PROVE RoundsInv'
    BY <1>3 DEF Block, Resume
<1>4. ASSUME NEW t \in Task, TakeFails(t) \/ EndTake(t) PROVE RoundsInv'
    <2>1. CASE TakeFails(t)
        BY <2>1 DEF TakeFails
    <2>2. CASE EndTake(t)
        BY <2>2 DEF EndTake
    <2>3. QED
        BY <1>4, <2>1, <2>2
<1>5. ASSUME NEW t \in Task, Work(t) PROVE RoundsInv'
    BY <1>5 DEF Work
<1>6. ASSUME NEW t \in Task, GiveTx(t) PROVE RoundsInv'
    BY <1>6 DEF GiveTx
<1>7. ASSUME NEW t \in Task, PopWaiter(t) PROVE RoundsInv'
    BY <1>7 DEF PopWaiter
<1>8. ASSUME NEW t \in Task, EndGive(t) PROVE RoundsInv'
    BY <1>8 DEF EndGive
<1>9. ASSUME NEW t \in Task, Yield(t) \/ Finished(t) \/ Over(t) PROVE RoundsInv'
    BY <1>9 DEF Yield, Finished, Over
<1>10. CASE Tick
    BY <1>10 DEF Tick
<1>11. CASE PowerFailure
    BY <1>11 DEF PowerFailure
<1>12. CASE UNCHANGED vars
    BY <1>12 DEF vars
<1>13. QED
    BY <1>1, <1>2, <1>3, <1>4, <1>5, <1>6, <1>7, <1>8, <1>9, <1>10, <1>11, <1>12
       DEF Next, Step

\* A task that waits is left alone until it is awake.
LEMMA WaitersStep == WInv /\ [Next]_vars => WaitersInv'
<1> SUFFICES ASSUME WInv, [Next]_vars PROVE WaitersInv'
    OBVIOUS
<1>0. WaitersInv /\ RoundsInv /\ Waiting(Waiters) \subseteq Asleep
    BY SchedOKFacts, SleepersFacts DEF WInv
<1>1. ASSUME NEW t \in Task, QuietStep(t) \/ GiveTx(t) \/ PopWaiter(t) PROVE WaitersInv'
    <2>1. t \notin Waiting(Waiters) /\ Waiting(Waiters)' \subseteq Waiting(Waiters)
        BY <1>0, <1>1, AwakeEffect, SchedOKFacts, SameLists DEF Woken
    <2>2. \A u \in Task \ {t} : pc'[u] = pc[u] /\ round'[u] = round[u]
        BY <1>0, <1>1, SchedOKFacts
           DEF RoundsInv, QuietStep, Take, TakeAsHolder, TryTake, TakeFails, Resume, EndTake, Work,
               GiveTx, PopWaiter, EndGive, Goto, registers, persistent
    <2>3. holder' \in {holder, t}
        BY <1>1
           DEF QuietStep, Take, TakeAsHolder, TryTake, TakeFails, Resume, EndTake, Work,
               GiveTx, PopWaiter, EndGive, registers, persistent
    <2>4. QED
        BY <1>0, <2>1, <2>2, <2>3 DEF WaitersInv, WaitsFor
<1>2. ASSUME NEW t \in Task, Block(t) PROVE WaitersInv'
    <2>1. Waiting(Waiters)' = Waiting(Waiters) \cup {t}
        BY <1>2, BlockEffect, SchedOKFacts DEF Slept
    <2>2. holder # t /\ round[t] < Rounds[t]
        BY <1>0, <1>2 DEF RoundsInv, RoundOK, Block, At, Busy, Places
    <2>3. UNCHANGED <<holder, round>> /\ pc' = [pc EXCEPT ![t] = "yield"]
        BY <1>2 DEF Block, persistent, Goto
    <2>4. QED
        BY <1>0, <2>1, <2>2, <2>3, SchedOKFacts DEF WaitersInv, WaitsFor
<1>3. ASSUME NEW t \in Task, Finished(t) PROVE WaitersInv'
    <2>1. t \notin Waiting(Waiters) /\ Waiting(Waiters)' = Waiting(Waiters)
        BY <1>0, <1>3, FinishedEffect DEF Waiting
    <2>2. QED
        BY <1>0, <1>3, <2>1, SchedOKFacts DEF WaitersInv, WaitsFor, Finished, Goto, persistent
<1>4. ASSUME NEW t \in Task, Yield(t) \/ Over(t) PROVE WaitersInv'
    <2>1. Waiting(Waiters)' = Waiting(Waiters)
        BY <1>4, YieldEffect DEF Waiting
    <2>2. QED
        BY <1>0, <1>4, <2>1, SchedOKFacts DEF WaitersInv, WaitsFor, Yield, Over, Goto, At, persistent, registers
<1>5. CASE Tick \/ PowerFailure
    <2>1. Waiting(Waiters)' \subseteq Waiting(Waiters)
        BY <1>5, TickEffect
    <2>2. QED
        BY <1>0, <1>5, <2>1, SchedOKFacts
           DEF WaitersInv, WaitsFor, RoundsInv, Tick, PowerFailure, persistent
<1>6. CASE UNCHANGED vars
    BY <1>0, <1>6, SchedOKFacts, SameLists DEF WaitersInv, WaitsFor, vars, persistent, registers
<1>7. QED
    BY <1>1, <1>2, <1>3, <1>4, <1>5, <1>6 DEF Next, Step, QuietStep

\* No step loses a wake-up: the count grows with the tasks that will look at
\* it, and whoever stops looking has taken one.
LEMMA WakeStep == WInv /\ WInv' /\ NoLostWakeup /\ [Next]_vars => NoLostWakeup'
<1> SUFFICES ASSUME WInv, WInv', NoLostWakeup, [Next]_vars,
                    build' = "journal" \/ ~ failed', wait'[Waiters] # <<>>
             PROVE  count' <= Cardinality(Ready')
    BY DEF NoLostWakeup, Ready
<1> USE SchedOKFacts
<1>0. /\ WaitersInv /\ RoundsInv /\ Waiting(Waiters) \subseteq Asleep /\ Size \in Nat
      /\ count \in 0 .. Size /\ count \in Nat
    BY SleepersFacts, Constants DEF WInv, IInv, RegistersOK
<1>1. UNCHANGED build /\ (build = "journal" \/ ~ failed)
    BY DEF Next, Step, Take, TakeAsHolder, TryTake, Block, TakeFails, Resume, EndTake, Work, GiveTx,
           PopWaiter, EndGive, Yield, Finished, Over, Tick, PowerFailure, persistent, history, vars
<1>2. Waiting(Waiters)' # {}
    <2>1. wait' \in [WaitList -> Seq(Task)]
        BY DEF WInv, SchedOK, ListsOK, SchedTypeOK
    <2>2. QED
        BY <2>1, ElemsSubset DEF Waiting
<1>3. Waiting(Waiters) # {} => count <= Cardinality(Ready)
    BY <1>1, SleepersFacts DEF NoLostWakeup, Ready
<1>4. IsFiniteSet(Ready) /\ IsFiniteSet(Ready') /\ Cardinality(Ready) \in Nat /\ Cardinality(Ready') \in Nat
    <2>1. Ready \in SUBSET Task /\ Ready' \in SUBSET Task
        BY DEF Ready
    <2>2. QED
        BY <2>1, SchedConstants, FS_Subset, FS_CardinalityType
<1>5. \A u \in Task : /\ u \in Ready <=> Poised(u) \/ pc[u] = "pop"
                      /\ u \in Ready' <=> Poised(u)' \/ pc'[u] = "pop"
    BY DEF Ready
\* when nobody who was counted is missing
<1>6. ASSUME Ready \subseteq Ready', Waiting(Waiters) # {}, count' <= count, count' \in Nat
      PROVE  count' <= Cardinality(Ready')
    <2>1. Cardinality(Ready) <= Cardinality(Ready')
        BY <1>4, <1>6, SizeGrows
    <2>2. QED
        BY <1>0, <1>3, <1>4, <1>6, <2>1
<1>7. ASSUME count' = 0 PROVE count' <= Cardinality(Ready')
    BY <1>4, <1>7
<1>8. ASSUME NEW t \in Task, TryTake(t) PROVE count' <= Cardinality(Ready')
    <2>1. UNCHANGED schedVars /\ count' = count - 1 /\ count > 0 /\ pc' = [pc EXCEPT ![t] = "taken"]
          /\ holder' = t /\ UNCHANGED round
        BY <1>8 DEF TryTake, Goto
    <2>2. Waiting(Waiters)' = Waiting(Waiters) /\ \A u \in Task : Delayed(u)' <=> Delayed(u)
        BY <2>1 DEF Waiting, Delayed, schedVars
    <2>3. ASSUME NEW u \in Ready \ {t} PROVE u \in Ready'
        BY <1>5, <2>1, <2>2 DEF Poised, Ready
    <2>4. Cardinality(Ready) <= Cardinality(Ready') + 1
        BY <1>4, <2>3, SizeLoses
    <2>5. QED
        BY <1>0, <1>2, <1>3, <1>4, <2>1, <2>2, <2>4
<1>9. ASSUME NEW t \in Task, Take(t) \/ TakeAsHolder(t) \/ Resume(t) \/ EndTake(t) \/ Work(t) \/ EndGive(t)
      PROVE  count' <= Cardinality(Ready')
    <2>1. UNCHANGED <<schedVars, count, holder>>
        BY <1>9 DEF Take, TakeAsHolder, Resume, EndTake, Work, EndGive, persistent
    <2>2. Waiting(Waiters)' = Waiting(Waiters) /\ \A u \in Task : Delayed(u)' <=> Delayed(u)
        BY <2>1 DEF Waiting, Delayed, schedVars
    <2>3. ASSUME NEW u \in Ready PROVE u \in Ready'
        BY <1>0, <1>5, <1>9, <2>1, <2>2
           DEF Poised, Ready, Take, TakeAsHolder, Resume, EndTake, Work, EndGive, At, Goto, RoundsInv
    <2>4. QED
        BY <1>0, <1>2, <1>6, <2>1, <2>2, <2>3
<1>10. ASSUME NEW t \in Task, Block(t) \/ TakeFails(t) PROVE count' <= Cardinality(Ready')
    BY <1>7, <1>10 DEF Block, TakeFails, persistent
<1>11. ASSUME NEW t \in Task, GiveTx(t) PROVE count' <= Cardinality(Ready')
    <2>1. t \notin Ready /\ pc[t] = "give" /\ cur = t
        BY <1>5, <1>11 DEF GiveTx, At, Poised
    <2>2. UNCHANGED <<holder, round>>
        BY <1>11 DEF GiveTx
    <2>3. CASE count = Size
        <3>1. UNCHANGED <<schedVars, count>> /\ pc' = [pc EXCEPT ![t] = "given"]
            BY <1>11, <2>3 DEF GiveTx, Goto
        <3>2. Waiting(Waiters)' = Waiting(Waiters) /\ \A u \in Task : Delayed(u)' <=> Delayed(u)
            BY <3>1 DEF Waiting, Delayed, schedVars
        <3>3. ASSUME NEW u \in Ready PROVE u \in Ready'
            BY <1>5, <2>1, <2>2, <3>1, <3>2 DEF Poised, Ready
        <3>4. QED
            BY <1>0, <1>2, <1>6, <3>1, <3>2, <3>3
    <2>4. CASE count # Size /\ build = "opt_list"
        <3>1. UNCHANGED schedVars /\ pc' = [pc EXCEPT ![t] = "pop"] /\ count' = count + 1
            BY <1>11, <2>4 DEF GiveTx, Goto
        <3>2. Waiting(Waiters)' = Waiting(Waiters) /\ \A u \in Task : Delayed(u)' <=> Delayed(u)
            BY <3>1 DEF Waiting, Delayed, schedVars
        <3>3. ASSUME NEW u \in Ready PROVE u \in Ready'
            BY <1>5, <2>1, <2>2, <3>1, <3>2 DEF Poised, Ready
        <3>4. t \in Ready'
            BY <1>5, <3>1
        <3>5. Cardinality(Ready) + 1 <= Cardinality(Ready')
            BY <1>4, <2>1, <3>3, <3>4, SizeGains
        <3>6. QED
            BY <1>0, <1>2, <1>3, <1>4, <3>1, <3>2, <3>5
    <2>5. CASE count # Size /\ build # "opt_list"
        <3>1. WakeFirst(Waiters) /\ count' = count + 1 /\ pc'[t] \in {"giveyield", "given"}
              /\ \A u \in Task \ {t} : pc'[u] = pc[u]
            BY <1>11, <2>5 DEF GiveTx, Goto
        <3>2. (Waiting(Waiters) = {} /\ UNCHANGED schedVars) \/ \E w \in Task : Woken(w, Waiters)
            BY <3>1, WakeFirstFacts
        <3>3. PICK w \in Task : Woken(w, Waiters)
            <4>1. ~ (Waiting(Waiters) = {} /\ UNCHANGED schedVars)
                BY <1>2 DEF Waiting, schedVars
            <4>2. QED
                BY <3>2, <4>1
        <3>4. w \in Waiting(Waiters) /\ w \in Asleep /\ w \notin Asleep' /\ Asleep' \subseteq Asleep
            BY <1>0, <3>3 DEF Woken
        <3>5. w # t /\ w \notin Ready /\ w \in Ready'
            <4>1. holder # w /\ round[w] < Rounds[w] /\ pc[w] \in {"call", "yield", "resume"}
                BY <1>0, <3>4 DEF WaitersInv, WaitsFor
            <4>2. QED
                BY <1>5, <2>1, <2>2, <3>1, <3>4, <4>1 DEF Poised, Delayed, Asleep
        <3>6. ASSUME NEW u \in Ready PROVE u \in Ready'
            BY <1>5, <2>1, <2>2, <3>1, <3>4 DEF Poised, Ready, Delayed, Asleep
        <3>7. Cardinality(Ready) + 1 <= Cardinality(Ready')
            BY <1>4, <3>5, <3>6, SizeGains
        <3>8. QED
            BY <1>0, <1>3, <1>4, <3>1, <3>4, <3>7
    <2>6. QED
        BY <2>3, <2>4, <2>5
<1>12. ASSUME NEW t \in Task, PopWaiter(t) PROVE count' <= Cardinality(Ready')
    <2>1. pc[t] = "pop" /\ cur = t /\ UNCHANGED <<count, holder, round>>
          /\ pc' = [pc EXCEPT ![t] = "given"]
        BY <1>12 DEF PopWaiter, At, Goto
    <2>2. ~ listDone[t]
        BY <1>0, <1>1, <2>1 DEF RoundsInv, RoundOK
    <2>3. WakeFirst(Waiters)
        BY <1>12, <2>2 DEF PopWaiter
    <2>4. PICK w \in Task : Woken(w, Waiters)
        <3>1. ~ (Waiting(Waiters) = {} /\ UNCHANGED schedVars)
            BY <1>2 DEF Waiting, schedVars
        <3>2. QED
            BY <2>3, <3>1, WakeFirstFacts
    <2>5. w \in Waiting(Waiters) /\ w \in Asleep /\ w \notin Asleep' /\ Asleep' \subseteq Asleep
        BY <1>0, <2>4 DEF Woken
    <2>6. w # t /\ w \notin Ready /\ w \in Ready'
        <3>1. holder # w /\ round[w] < Rounds[w] /\ pc[w] \in {"call", "yield", "resume"}
            BY <1>0, <2>5 DEF WaitersInv, WaitsFor
        <3>2. QED
            BY <1>5, <2>1, <2>5, <3>1 DEF Poised, Delayed, Asleep
    <2>7. ASSUME NEW u \in Ready \ {t} PROVE u \in Ready'
        BY <1>5, <2>1, <2>5 DEF Poised, Ready, Delayed, Asleep
    <2>8. Cardinality(Ready) <= Cardinality(Ready')
        BY <1>4, <2>6, <2>7, SizeExchange
    <2>9. QED
        BY <1>0, <1>3, <1>4, <2>1, <2>5, <2>8
<1>13. ASSUME NEW t \in Task, Yield(t) \/ Over(t) PROVE count' <= Cardinality(Ready')
    <2>1. UNCHANGED <<delay, wait, count, holder, round>>
        BY <1>13, YieldEffect DEF Yield, Over, persistent, registers
    <2>2. Waiting(Waiters)' = Waiting(Waiters) /\ \A u \in Task : Delayed(u)' <=> Delayed(u)
        BY <2>1 DEF Waiting, Delayed
    <2>3. ASSUME NEW u \in Ready PROVE u \in Ready'
        BY <1>0, <1>5, <1>13, <2>1, <2>2
           DEF Poised, Ready, Yield, Over, At, Goto, registers, RoundsInv, RoundOK, Busy, Places
    <2>4. QED
        BY <1>0, <1>2, <1>6, <2>1, <2>2, <2>3
<1>14. ASSUME NEW t \in Task, Finished(t) PROVE count' <= Cardinality(Ready')
    <2>1. UNCHANGED <<wait, count, holder, round>> /\ Asleep' = Asleep \cup {t}
        BY <1>14, FinishedEffect DEF Finished, persistent
    <2>2. Waiting(Waiters)' = Waiting(Waiters)
        BY <2>1 DEF Waiting
    <2>3. ASSUME NEW u \in Ready PROVE u \in Ready'
        BY <1>0, <1>5, <1>14, <2>1 DEF Poised, Ready, Finished, At, Goto, Delayed, Asleep, RoundsInv
    <2>4. QED
        BY <1>0, <1>2, <1>6, <2>1, <2>2, <2>3
<1>15. CASE Tick \/ PowerFailure
    <2>1. /\ Asleep' \subseteq Asleep /\ Waiting(Waiters)' \subseteq Waiting(Waiters)
          /\ UNCHANGED <<count, holder>>
        BY <1>15, TickEffect DEF Tick, PowerFailure, persistent
    <2>2. CASE Tick
        <3>1. ASSUME NEW u \in Ready PROVE u \in Ready'
            BY <1>5, <2>1, <2>2 DEF Poised, Ready, Tick, Delayed, Asleep
        <3>2. QED
            BY <1>0, <1>2, <1>6, <2>1, <3>1
    <2>3. CASE PowerFailure
        <3>1. build = "journal" /\ \A u \in Task : pc'[u] = "call" /\ round'[u] = 0
            BY <1>1, <2>3 DEF PowerFailure
        <3>2. \A u \in Task : pc[u] # "pop"
            BY <1>0, <3>1 DEF RoundsInv, RoundOK
        <3>3. ASSUME NEW u \in Ready PROVE u \in Ready'
            <4>1. u \in Task /\ Poised(u)
                BY <1>5, <3>2 DEF Ready
            <4>2. 0 < Rounds[u]
                BY <1>0, <4>1 DEF Poised, RoundsInv, RoundOK, Busy, Places
            <4>3. QED
                BY <1>5, <2>1, <3>1, <4>1, <4>2 DEF Poised, Delayed, Asleep
        <3>4. QED
            BY <1>0, <1>2, <1>6, <2>1, <3>3
    <2>4. QED
        BY <1>15, <2>2, <2>3
<1>16. CASE UNCHANGED vars
    <2>1. UNCHANGED <<wait, count, Ready>>
        BY <1>16 DEF vars, schedVars, persistent, registers, Ready, Poised, Delayed
    <2>2. QED
        BY <1>0, <1>2, <1>6, <2>1 DEF Waiting
<1>17. QED
    BY <1>8, <1>9, <1>10, <1>11, <1>12, <1>13, <1>14, <1>15, <1>16 DEF Next, Step

\* The lists, the rounds and the holder stay in step.
THEOREM WaitInductive == Spec => []WInv
<1>1. WInv /\ [Next]_vars => WInv'
    <2>1. WInv => IInv
        BY DEF WInv
    <2>2. QED
        BY <2>1, RegistersStep, HolderStep, TimeStep, SchedStep, RoundsStep, WaitersStep DEF WInv, IInv
<1>2. QED
    BY InitWInv, <1>1, PTL DEF Spec

\* The type invariant of the module, with the agreement of all the lists.
THEOREM TypesHold == Spec => []TypeOK
<1>1. WInv => TypeOK
    BY DEF WInv, IInv, RegistersOK, Places, SchedOK, ListsOK, RoundsInv, RoundOK, TypeOK
<1>2. QED
    BY <1>1, WaitInductive, PTL

\* While a task waits, a free semaphore is about to be taken by a ready task
\* or to be offered by the one that gave it: in the build without opt_list
\* whatever fails, in the other one until the power fails.
THEOREM NoWakeupIsLost == Spec => []NoLostWakeup
<1>1. Init => NoLostWakeup
    BY InitWInv
<1>2. WInv /\ WInv' /\ NoLostWakeup /\ [Next]_vars => NoLostWakeup'
    BY WakeStep
<1>3. QED
    BY <1>1, <1>2, WaitInductive, PTL DEF Spec

=============================================================================
