------------------------------- MODULE Sched -------------------------------
(***************************************************************************)
(* The scheduler as the blocking objects (Queue, Semaphore, EventGroup)    *)
(* use it: every list is a sequence of tasks and a list operation is one   *)
(* step.  This is what the build without opt_list does inside one          *)
(* transaction, and what ListTx shows of the build with it.                *)
(*                                                                         *)
(* A ready list is a ring, written from its cursor on.  Times are kept as  *)
(* the ticks that are still to go, so the clock does not grow.             *)
(***************************************************************************)
EXTENDS Naturals, Sequences, FiniteSets

CONSTANTS
    Task,       \* tasks, the idle task among them
    Idle,       \* the idle task, which never blocks
    Prio,       \* Prio[t]: a smaller number is more important
    WaitList,   \* the wait lists of the objects
    Never       \* Time::MAX

ASSUME SchedAssumption ==
    /\ IsFiniteSet(Task) /\ Idle \in Task
    /\ Prio \in [Task -> Nat]
    /\ \A t \in Task \ {Idle} : Prio[t] < Prio[Idle]
    /\ Never \in Nat

VARIABLES
    cur,        \* the current task
    ring,       \* for each priority the ready tasks, the cursor first
    delay,      \* the delayed tasks, the first to be due first
    left,       \* for each delayed task the ticks until it is due
    wait        \* for each wait list its tasks, the first to be woken first

schedVars == <<cur, ring, delay, left, wait>>

Levels == {Prio[t] : t \in Task}

Elems(s)   == {s[i] : i \in DOMAIN s}
Delayed(t) == t \in Elems(delay)

\* the elements of s that are in S, in their order (SelectSeq, written without
\* recursion: I holds their positions)
Filter(s, S) ==
    LET I == {i \in DOMAIN s : s[i] \in S}
        Position(k) == CHOOSE i \in I : Cardinality({j \in I : j <= i}) = k
    IN  [k \in 1 .. Cardinality(I) |-> s[Position(k)]]

Without(s, t) == Filter(s, Elems(s) \ {t})

\* insert_sorted_impl: in front of the first element that is not smaller
InsertSorted(s, t, smaller) ==
    LET k == Cardinality({i \in DOMAIN s : \A j \in 1 .. i : s[j] \in smaller})
    IN  SubSeq(s, 1, k) \o <<t>> \o SubSeq(s, k + 1, Len(s))

\* BlockedListItem as Ord: the less important task is the smaller one
LessImportant(t) == {x \in Task : Prio[x] > Prio[t]}

RemoveFromReadyList(t) == [ring EXCEPT ![Prio[t]] = Without(@, t)]

\* insert_before_cursor, for each task of a sequence in turn: the ring is
\* written from its cursor on
InsertBeforeCursor(r, s) == r \o s

AddToReadyList(s) ==
    [p \in Levels |-> InsertBeforeCursor(ring[p], Filter(s, {t \in Task : Prio[t] = p}))]

\* add_node_to_delayed_list, with the wake-up time k ticks away
AddToDelayedList(t, k) ==
    /\ delay' = InsertSorted(delay, t, {x \in Task : left[x] < k})
    /\ left'  = [left EXCEPT ![t] = k]

RemoveFromDelayedList(t) ==
    /\ delay' = Without(delay, t)
    /\ left'  = [left EXCEPT ![t] = 0]

\* the current task goes to sleep on a wait list
BlockOn(t, l, k) ==
    /\ ring' = RemoveFromReadyList(t)
    /\ wait' = [wait EXCEPT ![l] = InsertSorted(@, t, LessImportant(t))]
    /\ AddToDelayedList(t, k)
    /\ UNCHANGED cur

\* the same on an unsorted wait list (insert_front)
BlockOnUnsorted(t, l, k) ==
    /\ ring' = RemoveFromReadyList(t)
    /\ wait' = [wait EXCEPT ![l] = <<t>> \o @]
    /\ AddToDelayedList(t, k)
    /\ UNCHANGED cur

\* a task that waits on l is made ready
Wake(t, l) ==
    /\ wait' = [wait EXCEPT ![l] = Without(@, t)]
    /\ RemoveFromDelayedList(t)
    /\ ring' = AddToReadyList(<<t>>)
    /\ UNCHANGED cur

\* (mutant) the task that waits is left where it is
WakeNobody(l) == UNCHANGED schedVars

\* wakeup_blocked_task: the first task of the wait list, if there is one
WakeFirst(l) ==
    IF wait[l] = <<>> THEN UNCHANGED schedVars ELSE Wake(Head(wait[l]), l)

(***************************************************************************)
(* process_tick and task_switch.                                           *)
(***************************************************************************)
FirstLevel(r) == CHOOSE p \in Levels : r[p] # <<>> /\ \A q \in Levels : r[q] # <<>> => p <= q

\* peek_next: the task behind the cursor of the first ring that is not empty
PeekNext(r) == LET s == r[FirstLevel(r)] IN IF Len(s) = 1 THEN s[1] ELSE s[2]

\* task_switch, when the rings are r
Switch(r) ==
    /\ cur'  = PeekNext(r)
    /\ ring' = IF PeekNext(r) = cur THEN r
               ELSE [r EXCEPT ![FirstLevel(r)] = Tail(@) \o <<Head(@)>>]

Due == Filter(delay, {t \in Task : left[t] <= 1})

\* the tick interrupt: process_tick wakes the tasks that are due, then
\* task_switch
TickAndSwitch ==
    /\ delay' = Filter(delay, {t \in Task : left[t] > 1})
    /\ left'  = [t \in Task |-> IF left[t] \in {0, Never} THEN left[t] ELSE left[t] - 1]
    /\ wait'  = [l \in WaitList |-> Filter(wait[l], Task \ Elems(Due))]
    /\ Switch(AddToReadyList(Due))

\* arch_yield
YieldNow == Switch(ring) /\ UNCHANGED <<delay, left, wait>>

\* recover, after the lists have been recovered: another task is chosen when
\* the current one is blocked
Reschedule ==
    /\ IF Delayed(cur) THEN Switch(ring) ELSE UNCHANGED <<cur, ring>>
    /\ UNCHANGED <<delay, left, wait>>

SchedInit ==
    /\ ring = [p \in Levels |-> CHOOSE s \in [1 .. Cardinality({t \in Task : Prio[t] = p}) -> Task] :
                                   Elems(s) = {t \in Task : Prio[t] = p}]
    /\ cur \in {t \in Task : \A u \in Task : Prio[t] <= Prio[u]}
    /\ delay = <<>>
    /\ left = [t \in Task |-> 0]
    /\ wait = [l \in WaitList |-> <<>>]

SchedTypeOK ==
    /\ cur \in Task
    /\ ring \in [Levels -> Seq(Task)]
    /\ delay \in Seq(Task)
    /\ left \in [Task -> 0 .. Never]
    /\ wait \in [WaitList -> Seq(Task)]

\* no task is in s twice
Distinct(s) == \A i, j \in DOMAIN s : s[i] = s[j] => i = j

\* Every task is in exactly one of the ready ring of its priority and the
\* delay list, a task on a wait list is in the delay list as well and on no
\* other wait list, no task is anywhere twice, and the delay list is in the
\* order in which its tasks are due.
ListsAgree ==
    /\ \A t \in Task :
          /\ Delayed(t) <=> t \notin Elems(ring[Prio[t]])
          /\ \A p \in Levels \ {Prio[t]} : t \notin Elems(ring[p])
          /\ \A l \in WaitList : t \in Elems(wait[l]) => Delayed(t)
          /\ \A l, m \in WaitList : t \in Elems(wait[l]) /\ t \in Elems(wait[m]) => l = m
    /\ \A p \in Levels : Distinct(ring[p])
    /\ \A l \in WaitList : Distinct(wait[l])
    /\ Distinct(delay)
    /\ \A i, j \in DOMAIN delay : i < j => left[delay[i]] <= left[delay[j]]

\* task_switch asserts that the task it finds next is the current one only
\* when no other task of that priority is ready.
KeepsOnlyAlone ==
    [][cur' = cur /\ ring' # ring /\ ~ Delayed(cur)' /\ Delayed(cur)
          => Len(ring'[Prio[cur]]) = 1]_schedVars

=============================================================================
