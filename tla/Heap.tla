-------------------------------- MODULE Heap --------------------------------
(***************************************************************************)
(* The persistent heaps of heap.rs through boot, the creation of tasks and *)
(* the allocation system calls, with a power failure at any store.         *)
(*                                                                         *)
(* PM_HEAP_AREA is handed out in regions, one for each task, and a task    *)
(* allocates from its own region; boot allocates from a heap of its own.   *)
(* Nothing is ever given back (dealloc does nothing).  Boot and each task  *)
(* run a program of calls, each of them one kernel transaction with its    *)
(* own journal.  The transactions of different tasks interleave, except    *)
(* for create_task_static, which runs with the interrupts off.             *)
(*                                                                         *)
(* Recording a result at the end of a system call is one step here         *)
(* (SyscallReplay), and so is a list operation (ListTx).                   *)
(***************************************************************************)
EXTENDS Integers, Sequences, FiniteSets, FiniteSetsExt

CONSTANTS
    TaskLimit,      \* TASK_NUM_LIMIT
    BootSize,       \* BOOT_PM_HEAP_SIZE
    PmSize,         \* PM_HEAP_SIZE
    BootProgram,    \* the calls of the boot sequence
    Programs        \* the programs of the tasks, a function of task_func

Tid   == 0 .. TaskLimit - 1
Boot  == TaskLimit              \* what runs before the scheduler starts
Exec  == Tid \cup {Boot}
Cnt   == -1                     \* TASK_CNT
Glob  == -2                     \* GLOBAL_PM_HEAP
Flag  == -3                     \* HEAP_FIRST_INIT_DONE
Obj   == Exec \cup {Cnt, Glob, Flag}

\* the two areas; address 0 is the null pointer
BootStart == 1
PmStart   == BootStart + BootSize
NoFunc    == "none"

\* palloc of an object, palloc_array (alignment 1), Queue::new with its
\* buffer, pfree, and create_task_static; a queue without a buffer is left
\* out: Queue::new refuses a length of 0 before it begins its transaction
Calls ==
    [op : {"palloc"}, size : Nat, align : Nat \ {0}]
    \cup [op : {"palloc_array", "pfree"}, size : Nat]
    \cup [op : {"queue_new"}, size : Nat, align : Nat \ {0}, buffer : Nat \ {0}]
    \cup [op : {"create"}, heap : Nat, valid : BOOLEAN, func : DOMAIN Programs]

ASSUME HeapAssumption ==
    /\ TaskLimit \in Nat \ {0}
    /\ BootSize \in Nat /\ PmSize \in Nat
    /\ BootProgram \in Seq(Calls)
    /\ \A f \in DOMAIN Programs : Programs[f] \in Seq(Calls)
    /\ BootProgram # <<>> /\ BootProgram[1].op = "create"

VARIABLES
    mem,        \* the persistent objects
    bootDone,   \* FIRST_BOOT_DONE
    ready,      \* the tasks that are in a list of the scheduler
    log,        \* for boot and each task its journal
    open,       \* its transaction has begun and is not committed
    cache,      \* the results in its TxCache: of all of boot, of a task's call
    replay,     \* for each task the results of its completed calls
    alive,      \* it has been restarted since the last power failure
    todo,       \* the steps left of the call it is in
    given,      \* the results this execution of its program has been given
    seen        \* history: the results any execution has been given

persistent == <<mem, bootDone, ready, log, open, cache, replay>>
vars == <<persistent, alive, todo, given, seen>>

(***************************************************************************)
(* A call as the steps it takes.  A step logs an object, stores into one,  *)
(* commits, enters the created task into its ready list, or returns.       *)
(***************************************************************************)
LogOf(o)     == [step |-> "log", obj |-> o]
Set(o, v)    == [step |-> "set", obj |-> o, val |-> v]
Commits(r)   == [step |-> "commit", res |-> r]
Inserts(t)   == [step |-> "insert", task |-> t]
Returns(r)   == [step |-> "return", res |-> r]

None      == {}                         \* None, Err or ()
Handle(t) == {<<t>>}
Block(a, b) == <<a, b>>                 \* the addresses from a to b - 1

AlignUp(a, align) == ((a + align - 1) \div align) * align

\* (mutant) the check is made against the unaligned address
FitsUnaligned(h, size, align) == h.next + size <= h.end

\* per_task_alloc: does it fit, and where does it end
Fits(h, size, align) == AlignUp(h.next, align) + size <= h.end
Bump(h, size, align) ==
    IF Fits(h, size, align) THEN [h EXCEPT !.next = AlignUp(@, align) + size] ELSE h
BlockOf(h, size, align) ==
    IF Fits(h, size, align)
    THEN {Block(AlignUp(h.next, align), AlignUp(h.next, align) + size)} ELSE None

\* (mutant) the bump pointer is not logged
AllocUnlogged(e, h, size, align) == <<Set(e, Bump(h, size, align))>>

\* PerTaskPMBumpAllocator::alloc logs the allocator before it looks
Alloc(e, h, size, align) == <<LogOf(e), Set(e, Bump(h, size, align))>>

\* Queue::new: the queue, then its buffer; if that does not fit, the memory of
\* the queue stays taken
QueueNew(e, h, c) ==
    LET h2 == Bump(h, c.size, c.align)
        second == Fits(h, c.size, c.align) /\ Fits(h2, c.buffer, 1)
    IN  Alloc(e, h, c.size, c.align)
        \o (IF Fits(h, c.size, c.align) THEN Alloc(e, h2, c.buffer, 1) ELSE <<>>)
        \o <<Commits(IF second THEN BlockOf(h, c.size, c.align) \cup BlockOf(h2, c.buffer, 1)
                     ELSE None)>>

Empty(f) == [start |-> 0, end |-> 0, next |-> 0, func |-> f]

\* BumpAllocator::init
InitHeap(o, h, start, size) ==
    <<Set(o, [h EXCEPT !.start = start]),
      Set(o, [h EXCEPT !.start = start, !.end = start + size]),
      Set(o, [h EXCEPT !.start = start, !.end = start + size, !.next = start])>>

\* create_per_task_pm_heap: without a region, or for size 0, the heap is empty
CreatePmHeap(t, c) ==
    LET g == mem[Glob]
    IN  IF c.heap = 0 \/ g.next + c.heap > g.end THEN <<>>
        ELSE <<LogOf(Glob), Set(Glob, [g EXCEPT !.next = @ + c.heap])>>
             \o InitHeap(t, Empty(c.func), g.next, c.heap)

\* create_task_static: TASK_CNT is logged when it is borrowed, the task
\* control block is initialised without a log
CreateTask(c) ==
    LET t == mem[Cnt]
    IN  <<LogOf(Cnt)>>
        \o IF t >= TaskLimit \/ ~ c.valid THEN <<Commits(None)>>
           ELSE <<Set(Cnt, t + 1), Set(t, Empty(c.func))>>
                \o CreatePmHeap(t, c) \o <<Commits(Handle(t))>>

\* the transaction of call c of e
Body(e, c) ==
    LET h == mem[e]
    IN  CASE c.op = "palloc"       -> Alloc(e, h, c.size, c.align)
                                      \o <<Commits(BlockOf(h, c.size, c.align))>>
          [] c.op = "palloc_array" -> Alloc(e, h, c.size, 1)
                                      \o <<Commits(BlockOf(h, c.size, 1))>>
          [] c.op = "pfree"        -> <<Commits(None)>>
          [] c.op = "queue_new"    -> QueueNew(e, h, c)
          [] c.op = "create"       -> CreateTask(c)

\* what follows it once its result is r: the task is made ready, outside the
\* transaction, and the call returns
Epilogue(c, r) ==
    (IF c.op = "create" /\ r # None
     THEN <<Inserts((CHOOSE x \in r : TRUE)[1])>> ELSE <<>>) \o <<Returns(r)>>

(***************************************************************************)
(* Who runs.                                                               *)
(***************************************************************************)
Prog(e) ==
    IF e = Boot THEN BootProgram
    ELSE IF mem[e].func = NoFunc THEN <<>> ELSE Programs[mem[e].func]

AtEnd(e) == Len(given[e]) = Len(Prog(e))
Call(e)  == Prog(e)[Len(given[e]) + 1]

\* with_no_interrupt around create_task_static; syscall_end! is behind it
InCritical(e) ==
    todo[e] # <<>> /\ Head(todo[e]).step # "return" /\ ~ AtEnd(e) /\ Call(e).op = "create"

Runs(e) ==
    /\ IF e = Boot THEN ~ bootDone ELSE bootDone /\ e \in ready
    /\ \A x \in Exec \ {e} : ~ InCritical(x)

BetweenCalls(e) == Runs(e) /\ alive[e] /\ todo[e] = <<>>

\* the results on record, in the order of the calls
Results(e) == replay[e] \o cache[e]

Give(e, r) ==
    /\ given' = [given EXCEPT ![e] = Append(@, r)]
    /\ seen' = [seen EXCEPT ![e] = IF Len(given[e]) = Len(@) THEN Append(@, r) ELSE @]

(***************************************************************************)
(* Boot.                                                                   *)
(***************************************************************************)
\* heap::init, the first time
FirstInit ==
    InitHeap(Boot, mem[Boot], BootStart, BootSize)
    \o <<Set(Glob, [mem[Glob] EXCEPT !.next = PmStart]),
         Set(Glob, [next |-> PmStart, end |-> PmStart + PmSize]),
         Set(Flag, TRUE)>>

\* idempotent_boot, unless boot has been completed before, starts with
\* heap::init
StartBoot ==
    /\ Runs(Boot) /\ ~ alive[Boot]
    /\ alive' = [alive EXCEPT ![Boot] = TRUE]
    /\ todo' = [todo EXCEPT ![Boot] = IF mem[Flag] THEN <<>> ELSE FirstInit]
    /\ UNCHANGED <<persistent, given, seen>>

CompleteFirstBoot ==
    /\ BetweenCalls(Boot) /\ AtEnd(Boot)
    /\ bootDone' = TRUE
    /\ UNCHANGED <<mem, ready, log, open, cache, replay, alive, todo, given, seen>>

(***************************************************************************)
(* The steps of a call.                                                    *)
(***************************************************************************)
\* (mutant) the entry pointer is not advanced
ReplayFirst(e) ==
    /\ BetweenCalls(e) /\ e # Boot /\ Len(given[e]) < Len(replay[e])
    /\ Give(e, replay[e][1])
    /\ UNCHANGED <<persistent, alive, todo>>

\* syscall_begin!: a call that completed before a failure answers again
Replay(e) ==
    /\ BetweenCalls(e) /\ e # Boot /\ Len(given[e]) < Len(replay[e])
    /\ Give(e, replay[e][Len(given[e]) + 1])
    /\ UNCHANGED <<persistent, alive, todo>>

\* (mutant) a transaction that is passed over ends the call
BypassReturns(e) ==
    /\ BetweenCalls(e) /\ ~ AtEnd(e)
    /\ Len(replay[e]) <= Len(given[e]) /\ Len(given[e]) < Len(Results(e))
    /\ todo' = [todo EXCEPT ![e] = <<Returns(Results(e)[Len(given[e]) + 1])>>]
    /\ UNCHANGED <<persistent, alive, given, seen>>

\* transaction::run: the transaction has committed before
Bypass(e) ==
    /\ BetweenCalls(e) /\ ~ AtEnd(e)
    /\ Len(replay[e]) <= Len(given[e]) /\ Len(given[e]) < Len(Results(e))
    /\ todo' = [todo EXCEPT ![e] = Epilogue(Call(e), Results(e)[Len(given[e]) + 1])]
    /\ UNCHANGED <<persistent, alive, given, seen>>

Begin(e) ==
    /\ BetweenCalls(e) /\ ~ AtEnd(e) /\ Len(given[e]) = Len(Results(e))
    /\ open' = [open EXCEPT ![e] = TRUE]
    /\ LET body == Body(e, Call(e))
       IN  todo' = [todo EXCEPT ![e] = body \o Epilogue(Call(e), body[Len(body)].res)]
    /\ UNCHANGED <<mem, bootDone, ready, log, cache, replay, alive, given, seen>>

Advance(e, s) ==
    /\ Runs(e) /\ todo[e] # <<>> /\ Head(todo[e]).step = s
    /\ todo' = [todo EXCEPT ![e] = Tail(@)]
    /\ UNCHANGED <<bootDone, alive>>

AppendLog(e) ==
    /\ Advance(e, "log")
    /\ LET o == Head(todo[e]).obj
       IN  log' = [log EXCEPT ![e] = Append(@, [obj |-> o, old |-> mem[o]])]
    /\ UNCHANGED <<mem, ready, open, cache, replay, given, seen>>

Store(e) ==
    /\ Advance(e, "set")
    /\ mem' = [mem EXCEPT ![Head(todo[e]).obj] = Head(todo[e]).val]
    /\ UNCHANGED <<ready, log, open, cache, replay, given, seen>>

\* Transaction::commit: the result is cached, then the journal is cleared
Commit(e) ==
    /\ Advance(e, "commit")
    /\ cache' = [cache EXCEPT ![e] = Append(@, Head(todo[e]).res)]
    /\ open' = [open EXCEPT ![e] = FALSE]
    /\ log' = [log EXCEPT ![e] = <<>>]
    /\ UNCHANGED <<mem, ready, replay, given, seen>>

\* atomic_roll_forward_insert_into_readylist; a task in a list stays there
Insert(e) ==
    /\ Advance(e, "insert")
    /\ ready' = ready \cup {Head(todo[e]).task}
    /\ UNCHANGED <<mem, log, open, cache, replay, given, seen>>

\* syscall_end! of a task; boot goes on
Return(e) ==
    /\ Advance(e, "return")
    /\ IF e = Boot THEN UNCHANGED <<cache, replay>>
       ELSE /\ replay' = [replay EXCEPT ![e] = Append(@, Head(todo[e]).res)]
            /\ cache' = [cache EXCEPT ![e] = <<>>]
    /\ Give(e, Head(todo[e]).res)
    /\ UNCHANGED <<mem, ready, log, open>>

(***************************************************************************)
(* Power failure and recovery.                                             *)
(***************************************************************************)
\* Journal::recover goes through the entries backwards: the oldest one counts
RollBack(e) ==
    [o \in Obj |->
        LET at == {i \in DOMAIN log[e] : log[e][i].obj = o}
        IN  IF ~ open[e] \/ at = {} THEN mem[o] ELSE log[e][Min(at)].old]

Recovered(e) ==
    /\ mem' = RollBack(e)
    /\ log' = [log EXCEPT ![e] = <<>>]

\* recover: boot's transaction, or the one that was interrupted in a critical
\* section, is rolled back at once
PowerFailure ==
    /\ IF ~ bootDone THEN Recovered(Boot)
       ELSE \/ \E e \in Tid : InCritical(e) /\ Recovered(e)
            \/ (\A e \in Tid : ~ InCritical(e)) /\ UNCHANGED <<mem, log>>
    /\ alive' = [e \in Exec |-> FALSE]
    /\ todo' = [e \in Exec |-> <<>>]
    /\ given' = [e \in Exec |-> <<>>]
    /\ UNCHANGED <<bootDone, ready, open, cache, replay, seen>>

\* jit_recovery: any other transaction when its task is next switched to
JitRecovery(e) ==
    /\ e # Boot /\ Runs(e) /\ ~ alive[e]
    /\ Recovered(e)
    /\ alive' = [alive EXCEPT ![e] = TRUE]
    /\ UNCHANGED <<bootDone, ready, open, cache, replay, todo, given, seen>>

Init ==
    /\ mem = [o \in Obj |-> CASE o = Cnt  -> 0
                              [] o = Glob -> [next |-> 0, end |-> 0]
                              [] o = Flag -> FALSE
                              [] OTHER    -> Empty(NoFunc)]
    /\ bootDone = FALSE /\ ready = {}
    /\ log = [e \in Exec |-> <<>>] /\ open = [e \in Exec |-> FALSE]
    /\ cache = [e \in Exec |-> <<>>] /\ replay = [e \in Exec |-> <<>>]
    /\ alive = [e \in Exec |-> FALSE] /\ todo = [e \in Exec |-> <<>>]
    /\ given = [e \in Exec |-> <<>>] /\ seen = [e \in Exec |-> <<>>]

Step(e) ==
    \/ Replay(e) \/ Bypass(e) \/ Begin(e) \/ AppendLog(e) \/ Store(e)
    \/ Commit(e) \/ Insert(e) \/ Return(e) \/ JitRecovery(e)
    \/ e = Boot /\ (StartBoot \/ CompleteFirstBoot)

Next == (\E e \in Exec : Step(e)) \/ PowerFailure

Spec == Init /\ [][Next]_vars

\* whoever is given the processor again and again gets on with its code
FairSpec == Spec /\ \A e \in Exec : SF_vars(Step(e))

(***************************************************************************)
(* Properties.                                                             *)
(***************************************************************************)
HeapType == [start : Nat, end : Nat, next : Nat, func : DOMAIN Programs \cup {NoFunc}]

\* Every variable keeps its type, and the journals are empty outside of
\* transactions.
TypeOK ==
    /\ \A e \in Exec : mem[e] \in HeapType
    /\ mem[Cnt] \in 0 .. TaskLimit
    /\ mem[Glob] \in [next : Nat, end : Nat] /\ mem[Flag] \in BOOLEAN
    /\ bootDone \in BOOLEAN /\ ready \subseteq Tid
    /\ \A e \in Exec : ~ open[e] => log[e] = <<>>
    /\ alive \in [Exec -> BOOLEAN]

\* the tasks that a committed call has created
Made == {t \in Tid : \E e \in Exec : \E i \in DOMAIN Results(e) : Results(e)[i] = Handle(t)}

\* the blocks that committed calls have handed out to e
Blocks(e) ==
    {b \in UNION {Results(e)[i] : i \in DOMAIN Results(e)} : Len(b) = 2}

Disjoint(b, c) == b[2] <= c[1] \/ c[2] <= b[1]

\* Whatever was allocated before a failure is never handed out again: the
\* regions of the tasks are disjoint and inside PM_HEAP_AREA, no block leaves
\* the region of its owner, no two blocks overlap, and no two tasks have the
\* same handle.
NothingSharedOut ==
    /\ \A t \in Made :
          /\ mem[t].end # 0 => PmStart <= mem[t].start /\ mem[t].end <= PmStart + PmSize
          /\ \A u \in Made \ {t} :
                Disjoint(<<mem[t].start, mem[t].end>>, <<mem[u].start, mem[u].end>>)
    /\ \A e \in Exec :
          /\ \A b \in Blocks(e) : mem[e].start <= b[1] /\ b[2] <= mem[e].end
          /\ \A i, j \in DOMAIN Results(e) : i # j =>
                \A b \in Results(e)[i], c \in Results(e)[j] :
                    Len(b) = 2 /\ Len(c) = 2 => Disjoint(b, c)
    /\ \A e, f \in Exec : \A i \in DOMAIN Results(e), j \in DOMAIN Results(f) :
          /\ <<e, i>> # <<f, j>> /\ Results(e)[i] = Results(f)[j]
          /\ Results(e)[i] # None
          => Prog(e)[i].op # "create"

\* the bump pointer of e behind its first n calls, had none been interrupted
PointerAfter(e) ==
    LET p[n \in 0 .. Len(Prog(e))] ==
            IF n = 0 THEN mem[e].start
            ELSE LET c == Prog(e)[n]
                     h == [mem[e] EXCEPT !.next = p[n - 1]]
                 IN  CASE c.op = "palloc" -> Bump(h, c.size, c.align).next
                       [] c.op = "palloc_array" -> Bump(h, c.size, 1).next
                       [] c.op = "queue_new" ->
                            LET h2 == Bump(h, c.size, c.align)
                            IN  IF Fits(h, c.size, c.align) THEN Bump(h2, c.buffer, 1).next
                                ELSE h.next
                       [] OTHER -> h.next
    IN  p[Len(Results(e))]

\* Between calls the heaps and the task count are what the committed calls
\* make of them when each runs once: a call that is interrupted and made again
\* costs no more memory and no more tasks than one that is not. Neither does
\* a refused call cost any, with one exception: the object of a queue_new that
\* is refused for want of its buffer stays taken, once (PointerAfter).
AsIfOnce ==
    /\ \A e \in Made \cup {Boot} : alive[e] /\ todo[e] = <<>> => mem[e].next = PointerAfter(e)
    /\ (\A e \in Exec : ~ InCritical(e)) /\ mem[Flag] =>
          /\ mem[Cnt] = Cardinality(Made)
          /\ mem[Glob].next = PmStart + MapThenSumSet(LAMBDA t : mem[t].end - mem[t].start, Made)

\* A program that is run again after a failure is given the answers it was
\* given before, addresses and handles included.
SameAnswers ==
    \A e \in Exec : \A i \in DOMAIN given[e] : given[e][i] = seen[e][i]

\* Once the power stays on boot completes, every task that was created runs,
\* and every task gets to the end of its program.
EverythingRuns ==
    <>[][~ PowerFailure]_vars => <>(bootDone /\ \A t \in Made : t \in ready /\ AtEnd(t))

=============================================================================
