----------------------------- MODULE SchedLists -----------------------------
(***************************************************************************)
(* What the list transactions of list.rs promise: the ready, delay and     *)
(* wait lists are sequences of tasks, a task that blocks, is woken, times  *)
(* out or is dispatched moves between them in a single step, and no power  *)
(* failure can be seen in between.  ListTx implements this specification.  *)
(***************************************************************************)
EXTENDS Naturals, Sequences, SequencesExt

CONSTANTS
    Task,       \* tasks
    Prio,       \* Prio[t]: a smaller number is more important
    Key,        \* wake-up times
    None        \* no task runs yet

VARIABLES
    ready,      \* for each priority the ring of ready tasks, from its cursor
    delay,      \* delayed tasks with their wake-up times, the earliest first
    wait,       \* tasks waiting on a queue or semaphore, the first to be woken first
    group,      \* tasks waiting on an event group, in any order
    cur         \* the task that runs

lvars == <<ready, delay, wait, group, cur>>

Levels == {Prio[t] : t \in Task}

Without(s, t) == SelectSeq(s, LAMBDA x : x # t)

\* put e in front of the first element that it does not sort behind
SortedInsert(s, e, Behind(_, _)) ==
    LET keep == {k \in DOMAIN s : \A j \in 1 .. k : Behind(e, s[j])}
    IN  InsertAt(s, Cardinality(keep) + 1, e)

\* the wake-up order: SchedListItem and BlockedListItem as Ord
Later(e, f)         == e.time > f.time
MoreImportant(t, u) == Prio[t] < Prio[u]

LeaveReady(t)  == ready' = [ready EXCEPT ![Prio[t]] = Without(@, t)]
EnterReady(t)  == ready' = [ready EXCEPT ![Prio[t]] = Append(@, t)]
EnterDelay(t, k) == delay' = SortedInsert(delay, [task |-> t, time |-> k], Later)
LeaveDelay(t)  == delay' = SelectSeq(delay, LAMBDA e : e.task # t)

IsReady(t) == \E i \in DOMAIN ready[Prio[t]] : ready[Prio[t]][i] = t

\* the running task goes to sleep on a wait list, an event group or neither
Block(k) ==
    /\ cur # None /\ IsReady(cur)
    /\ LeaveReady(cur) /\ EnterDelay(cur, k)
    /\ \/ wait' = SortedInsert(wait, cur, MoreImportant) /\ UNCHANGED group
       \/ /\ \E i \in 1 .. Len(group) + 1 : group' = InsertAt(group, i, cur)
          /\ UNCHANGED wait
       \/ UNCHANGED <<wait, group>>
    /\ UNCHANGED cur

\* a sleeping task is woken: the first of the wait list, a task of the event
\* group, or the first of the delay list
Wake(t) ==
    /\ \/ wait # <<>> /\ t = wait[1]
       \/ \E i \in DOMAIN group : t = group[i]
       \/ delay # <<>> /\ t = delay[1].task
    /\ EnterReady(t) /\ LeaveDelay(t)
    /\ wait' = Without(wait, t) /\ group' = Without(group, t)
    /\ UNCHANGED cur

\* the first task of the most important ring runs, after the ring has moved
\* on by one task or has stayed
Dispatch(t) ==
    /\ IsReady(t) /\ \A l \in Levels : l < Prio[t] => ready[l] = <<>>
    /\ \E r \in {ready[Prio[t]], Tail(ready[Prio[t]]) \o <<Head(ready[Prio[t]])>>} :
          /\ Head(r) = t
          /\ ready' = [ready EXCEPT ![Prio[t]] = r]
    /\ cur' = t
    /\ UNCHANGED <<delay, wait, group>>

\* during boot the most important task created so far becomes the current one,
\* before it is in any list
Appoint(t) ==
    /\ cur = None \/ MoreImportant(t, cur)
    /\ ~ IsReady(t)
    /\ cur' = t
    /\ UNCHANGED <<ready, delay, wait, group>>

\* a created task enters the ring of its priority
Create(t) ==
    /\ ~ IsReady(t) /\ \A i \in DOMAIN delay : delay[i].task # t
    /\ EnterReady(t)
    /\ UNCHANGED <<delay, wait, group, cur>>

Init ==
    /\ ready = [l \in Levels |-> <<>>]
    /\ delay = <<>> /\ wait = <<>> /\ group = <<>>
    /\ cur = None

Next ==
    \/ \E k \in Key : Block(k)
    \/ \E t \in Task : Wake(t) \/ Dispatch(t) \/ Appoint(t) \/ Create(t)

Spec == Init /\ [][Next]_lvars
=============================================================================
