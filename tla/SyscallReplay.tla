--------------------------- MODULE SyscallReplay ---------------------------
(***************************************************************************)
(* System calls inside user transactions: the SyscallReplayCache of        *)
(* syscalls.rs, the TxCache of the kernel transactions of one system call, *)
(* the list_tx_done flag, and the just-in-time recovery of a task          *)
(* (Task::jit_recovery, Task::user_recovery).                              *)
(*                                                                         *)
(* A user transaction is rolled back after a power failure, but the system *)
(* calls it made are not: it is run again, and the calls that completed    *)
(* are answered from the replay cache.  A call that was under way resumes  *)
(* behind its last committed kernel transaction.                           *)
(*                                                                         *)
(* Transaction shows that one transaction is atomic; here the body of a    *)
(* kernel transaction is one step with its commit, the roll-forward list   *)
(* operation of a call is one step with ListTxOpLog::commit, and a TxCache *)
(* is its pair of transaction ids.  A replay entry is one slot.  A call    *)
(* without a result (noret) has a slot too, which is neither written nor   *)
(* read: add_empty_entry_start moves the tail without looking at the size, *)
(* so the tail may leave the cache.                                        *)
(***************************************************************************)
EXTENDS Naturals, Sequences, FiniteSets

CONSTANTS
    Value,         \* what a system call can return
    NoValue,       \* a result that does not exist yet
    ReplaySize,    \* SYSCALL_REPLAY_CACHE_SZ, in entries
    Tasks          \* the tasks under study: their code, a sequence of
                   \* instructions, and a bound on the power failures

(* An instruction: the start or the end of transaction::run_sys, a system  *)
(* call that takes a SyscallToken ("sys"), or one that does not ("out").   *)
(* A call runs ktx kernel transactions, then a list operation if it wakes  *)
(* or delays a task, and returns something (res) or is a noret one.        *)
Instr == [op : {"begin", "end", "sys", "out"}, ktx : 0 .. 2, list : BOOLEAN, res : BOOLEAN]

VARIABLE task      \* the task, chosen once
Program    == task.code
MaxCrashes == task.crashes
Positions  == 1 .. Len(Program)
Op(p)      == Program[p].op
Ktx(p)     == Program[p].ktx
Returns(p) == Program[p].res
EndOf(p)   == CHOOSE e \in Positions : /\ e > p /\ Op(e) = "end"
                                       /\ \A q \in p .. e - 1 : Op(q) # "end"

\* transactions do not nest, each has its end, and only the closure of one has
\* the SyscallToken that a "sys" call takes
CallsBetween(code, b, e) == \A q \in b + 1 .. e - 1 : code[q].op \in {"sys", "out"}
Bracketed(code) ==
    \A p \in DOMAIN code :
        /\ code[p].op = "begin" =>
              \E e \in DOMAIN code : e > p /\ code[e].op = "end" /\ CallsBetween(code, p, e)
        /\ code[p].op \in {"sys", "end"} =>
              \E b \in DOMAIN code : b < p /\ code[b].op = "begin" /\ CallsBetween(code, b, p)

ASSUME ReplayAssumption ==
    /\ ReplaySize \in Nat
    /\ NoValue \notin Value
    /\ \A t \in Tasks : t.code \in Seq(Instr) /\ t.crashes \in Nat /\ Bracketed(t.code)

VARIABLES
    (* persistent memory of the task *)
    uptr,      \* user TxCache.ptr
    utail,     \* user TxCache.tail without the commit flag
    ucom,      \* user TxCache.tail: TX_COMMITTED
    kptr,      \* syscall_tx_cache.ptr
    ktail,     \* syscall_tx_cache.tail without the commit flag
    kcache,    \* results of kernel transactions in syscall_tx_cache
    listDone,  \* list_tx_done
    entries,   \* SyscallReplayCache.cache
    rptr,      \* SyscallReplayCache.ptr
    rtail,     \* SyscallReplayCache.tail
    recovery,  \* recovery_mode
    (* registers and stack *)
    pc, pos,
    knum,      \* which kernel transaction of the call is next
    ret,       \* result of the call
    view,      \* the results the task's code has seen since it was started
    (* history *)
    kruns,     \* how often each kernel transaction of each call committed
    lruns,     \* how often the list operation of each call took effect
    first,     \* the result of each call that completed
    crashes

userCache   == <<uptr, utail, ucom>>
kernelCache == <<kptr, ktail, kcache>>
replayCache == <<entries, rptr, rtail>>
locals      == <<pos, knum, ret, view>>
history     == <<kruns, lruns, first>>
vars == <<uptr, utail, ucom, kptr, ktail, kcache, listDone, entries, rptr,
          rtail, recovery, pc, pos, knum, ret, view, kruns, lruns, first, crashes, task>>

\* slots of the kernel TxCache: a call outside a transaction may add its two
\* results again after every power failure, since nothing resets kptr for it
KernelSlots == 1 .. 2 * (1 + MaxCrashes)

NoView == [p \in Positions |-> NoValue]

Init ==
    /\ task \in Tasks
    /\ uptr = 0 /\ utail = 0 /\ ucom = FALSE
    /\ kptr = 0 /\ ktail = 0
    /\ kcache = [k \in KernelSlots |-> NoValue]
    /\ listDone = FALSE
    /\ entries = [i \in 1 .. ReplaySize |-> NoValue]
    /\ rptr = 0 /\ rtail = 0
    /\ recovery = FALSE
    /\ pc = "run" /\ pos = 1 /\ knum = 1 /\ ret = NoValue
    /\ view = NoView
    /\ kruns = [p \in Positions |-> [k \in 1 .. 2 |-> 0]]
    /\ lruns = [p \in Positions |-> 0]
    /\ first = NoView
    /\ crashes = 0

At(p, op) == pc = p /\ pos \in Positions /\ Op(pos) = op

-----------------------------------------------------------------------------
(* transaction::run_sys                                                    *)

\* try_get_cached_result: the whole user transaction is bypassed
BypassTx ==
    /\ At("run", "begin")
    /\ uptr < utail
    /\ uptr' = uptr + 1
    /\ pos' = EndOf(pos) + 1
    /\ UNCHANGED <<utail, ucom, kernelCache, listDone, replayCache, recovery,
                   pc, knum, ret, view, history, crashes>>

\* Task::user_tx_start: SyscallReplayCache::restart
UserTxStart ==
    /\ At("run", "begin")
    /\ uptr >= utail
    /\ rptr' = 0
    /\ pc' = "begin"
    /\ UNCHANGED <<userCache, kernelCache, listDone, entries, rtail, recovery,
                   locals, history, crashes>>

\* Transaction::begin: clear_commit_flag
BeginTx ==
    /\ pc = "begin"
    /\ ucom' = FALSE
    /\ pos' = pos + 1
    /\ pc' = "run"
    /\ UNCHANGED <<uptr, utail, kernelCache, listDone, replayCache, recovery,
                   knum, ret, view, history, crashes>>

\* TxCache::cache_result, the atomic commit
CommitTx ==
    /\ At("run", "end")
    /\ utail' = utail + 1
    /\ ucom' = TRUE
    /\ pc' = "uptr"
    /\ UNCHANGED <<uptr, kernelCache, listDone, replayCache, recovery, locals,
                   history, crashes>>

AdvanceUserPtr ==
    /\ pc = "uptr"
    /\ uptr' = utail
    /\ pc' = "uend"
    /\ UNCHANGED <<utail, ucom, kernelCache, listDone, replayCache, recovery,
                   locals, history, crashes>>

\* Task::user_tx_end: SyscallReplayCache::reset
UserTxEnd ==
    /\ pc = "uend"
    /\ rtail' = 0
    /\ pos' = pos + 1
    /\ pc' = "run"
    /\ UNCHANGED <<userCache, kernelCache, listDone, entries, rptr, recovery,
                   knum, ret, view, history, crashes>>

-----------------------------------------------------------------------------
(* syscall_begin!, and the kernel transactions of a call                   *)

HasEntry == rptr < rtail

\* get_entry; get_empty_entry passes over the slot
BypassSyscall ==
    /\ At("run", "sys")
    /\ HasEntry
    /\ view' = [view EXCEPT ![pos] = IF Returns(pos) THEN entries[rptr + 1] ELSE @]
    /\ rptr' = rptr + 1
    /\ pos' = pos + 1
    /\ UNCHANGED <<userCache, kernelCache, listDone, entries, rtail, recovery,
                   pc, knum, ret, history, crashes>>

\* restart_syscall_tx_cache
EnterSyscall ==
    /\ At("run", "sys")
    /\ ~HasEntry
    /\ kptr' = 0
    /\ pc' = "kernel"
    /\ knum' = 1
    /\ UNCHANGED <<userCache, ktail, kcache, listDone, replayCache, recovery,
                   pos, ret, view, history, crashes>>

\* syscall_begin_outside_tx!: kptr is left where it is
EnterOutside ==
    /\ At("run", "out")
    /\ pc' = "kernel"
    /\ knum' = 1
    /\ UNCHANGED <<userCache, kernelCache, listDone, replayCache, recovery,
                   pos, ret, view, history, crashes>>

\* transaction::run in the kernel: try_get_cached_result
BypassKernelTx ==
    /\ pc = "kernel"
    /\ knum <= Ktx(pos)
    /\ kptr < ktail
    /\ ret' = kcache[kptr + 1]
    /\ kptr' = kptr + 1
    /\ knum' = knum + 1
    /\ UNCHANGED <<userCache, ktail, kcache, listDone, replayCache, recovery,
                   pc, pos, view, history, crashes>>

\* transaction::run in the kernel: the closure, and the atomic commit
RunKernelTx(v) ==
    /\ pc = "kernel"
    /\ knum <= Ktx(pos)
    /\ kptr >= ktail
    /\ ret' = v
    /\ kcache' = [kcache EXCEPT ![ktail + 1] = v]
    /\ ktail' = ktail + 1
    /\ kruns' = [kruns EXCEPT ![pos][knum] = @ + 1]
    /\ pc' = "kptr"
    /\ UNCHANGED <<userCache, kptr, listDone, replayCache, recovery, pos, knum,
                   view, lruns, first, crashes>>

AdvanceKernelPtr ==
    /\ pc = "kptr"
    /\ kptr' = ktail
    /\ knum' = knum + 1
    /\ pc' = "kernel"
    /\ UNCHANGED <<userCache, ktail, kcache, listDone, replayCache, recovery,
                   pos, ret, view, history, crashes>>

\* The list operation of the call, "commit bypass" included, and the branch to
\* the two forms of syscall_end!, or to syscall_end_outside_tx!.
ListOp ==
    /\ pc = "kernel"
    /\ knum > Ktx(pos)
    /\ IF Program[pos].list /\ ~listDone
       THEN /\ listDone' = TRUE
            /\ lruns' = IF Op(pos) = "sys" THEN [lruns EXCEPT ![pos] = @ + 1]
                                           ELSE lruns
       ELSE UNCHANGED <<listDone, lruns>>
    /\ pc' = IF Op(pos) = "out" THEN "kreset" ELSE IF Returns(pos) THEN "entry" ELSE "bump"
    /\ UNCHANGED <<userCache, kernelCache, replayCache, recovery, locals,
                   kruns, first, crashes>>

-----------------------------------------------------------------------------
(* syscall_end!: five writes, and a power failure may come after each      *)

\* (mutant) the bound is off by one
EntryFits_OffByOne == rtail <= ReplaySize

EntryFits == rtail < ReplaySize

\* add_entry_start: the copy, beyond the tail
WriteEntry ==
    /\ pc = "entry"
    /\ EntryFits
    /\ entries' = [entries EXCEPT ![rtail + 1] = ret]
    /\ pc' = "bump"
    /\ UNCHANGED <<userCache, kernelCache, listDone, rptr, rtail, recovery,
                   locals, history, crashes>>

\* assert!(self.tail + aligned_sz <= SYSCALL_REPLAY_CACHE_SZ) fails
ReplayCacheFull ==
    /\ pc = "entry"
    /\ ~EntryFits
    /\ pc' = "panic"
    /\ UNCHANGED <<userCache, kernelCache, listDone, replayCache, recovery,
                   locals, history, crashes>>

\* add_entry_start, add_empty_entry_start: self.tail += aligned_sz
BumpEntryTail ==
    /\ pc = "bump"
    /\ rtail' = rtail + 1
    /\ first' = [first EXCEPT ![pos] = IF Returns(pos) THEN ret ELSE @]
    /\ pc' = "kreset"
    /\ UNCHANGED <<userCache, kernelCache, listDone, entries, rptr, recovery,
                   locals, kruns, lruns, crashes>>

\* get_sys_tx_cache().commit_reset_tail()
ResetKernelCache ==
    /\ pc = "kreset"
    /\ ktail' = 0
    /\ pc' = "lreset"
    /\ UNCHANGED <<userCache, kptr, kcache, listDone, replayCache, recovery,
                   locals, history, crashes>>

\* reset_list_transaction(); a call outside a transaction returns here
ResetListTx ==
    /\ pc = "lreset"
    /\ listDone' = FALSE
    /\ IF Op(pos) = "out"
       THEN pos' = pos + 1 /\ pc' = "run"
       ELSE UNCHANGED pos /\ pc' = "commit"
    /\ UNCHANGED <<userCache, kernelCache, replayCache, recovery, knum, ret,
                   view, history, crashes>>

\* add_entry_commit(), and the return
CommitEntry ==
    /\ pc = "commit"
    /\ rptr' = rtail
    /\ view' = [view EXCEPT ![pos] = IF Returns(pos) THEN ret ELSE @]
    /\ pos' = pos + 1
    /\ pc' = "run"
    /\ UNCHANGED <<userCache, kernelCache, listDone, entries, rtail, recovery,
                   knum, ret, history, crashes>>

-----------------------------------------------------------------------------
(* Power failure, and Task::jit_recovery                                   *)

Crash ==
    /\ crashes < MaxCrashes
    /\ crashes' = crashes + 1
    /\ pc' = "jit"
    /\ pos' = 1 /\ knum' = 1 /\ ret' = NoValue /\ view' = NoView
    /\ UNCHANGED <<userCache, kernelCache, listDone, replayCache, recovery,
                   history>>

\* "This indicates a incomplete syscall return": ptr < tail
JitCheckReplay ==
    /\ pc = "jit"
    /\ recovery' = TRUE
    /\ pc' = IF HasEntry THEN "jit_kernel" ELSE "jit_user"
    /\ UNCHANGED <<userCache, kernelCache, listDone, replayCache, locals,
                   history, crashes>>

\* commit_syscall_tx_cache
JitResetKernelCache ==
    /\ pc = "jit_kernel"
    /\ ktail' = 0
    /\ pc' = "jit_list"
    /\ UNCHANGED <<userCache, kptr, kcache, listDone, replayCache, recovery,
                   locals, history, crashes>>

JitResetListTx ==
    /\ pc = "jit_list"
    /\ listDone' = FALSE
    /\ pc' = "jit_user"
    /\ UNCHANGED <<userCache, kernelCache, replayCache, recovery, locals,
                   history, crashes>>

\* (mutant) the replay entries survive the transaction that made them
UserRecovery_KeepEntries ==
    /\ pc = "jit_user"
    /\ pc' = "jit_restart"
    /\ UNCHANGED <<userCache, kernelCache, listDone, replayCache, recovery,
                   locals, history, crashes>>

\* (mutant) the replay entries are dropped although the transaction runs again
UserRecovery_DropEntries ==
    /\ pc = "jit_user"
    /\ rtail' = 0
    /\ pc' = "jit_restart"
    /\ UNCHANGED <<userCache, kernelCache, listDone, entries, rptr, recovery,
                   locals, history, crashes>>

\* user_recovery: user_tx_end if the transaction had committed
UserRecovery ==
    /\ pc = "jit_user"
    /\ rtail' = IF ucom THEN 0 ELSE rtail
    /\ pc' = "jit_restart"
    /\ UNCHANGED <<userCache, kernelCache, listDone, entries, rptr, recovery,
                   locals, history, crashes>>

\* (mutant) the generation is not updated: the task is recovered for ever
UserRestart_StaleGeneration ==
    /\ pc = "jit_restart"
    /\ uptr' = 0
    /\ pc' = "jit"
    /\ UNCHANGED <<utail, ucom, kernelCache, listDone, replayCache, recovery,
                   locals, history, crashes>>

\* UserTxInfo::restart, self.generation = current_generation(); the task
\* starts again from its first line
UserRestart ==
    /\ pc = "jit_restart"
    /\ uptr' = 0
    /\ pc' = "run"
    /\ UNCHANGED <<utail, ucom, kernelCache, listDone, replayCache, recovery,
                   locals, history, crashes>>

-----------------------------------------------------------------------------

Step ==
    \/ BypassTx \/ UserTxStart \/ BeginTx
    \/ CommitTx \/ AdvanceUserPtr \/ UserTxEnd
    \/ BypassSyscall \/ EnterSyscall \/ EnterOutside
    \/ BypassKernelTx \/ (\E v \in Value : RunKernelTx(v)) \/ AdvanceKernelPtr
    \/ ListOp
    \/ WriteEntry \/ ReplayCacheFull \/ BumpEntryTail
    \/ ResetKernelCache \/ ResetListTx \/ CommitEntry
    \/ JitCheckReplay \/ JitResetKernelCache \/ JitResetListTx
    \/ UserRecovery \/ UserRestart

Next == (Step \/ Crash) /\ UNCHANGED task

Spec == Init /\ [][Next]_vars

\* a task that is powered and scheduled keeps running
FairSpec == Spec /\ WF_vars(Step /\ UNCHANGED task)

-----------------------------------------------------------------------------
(* Properties                                                              *)

PCs == { "run", "begin", "uptr", "uend", "kernel", "kptr", "entry", "bump",
         "kreset", "lreset", "commit", "panic", "jit", "jit_kernel",
         "jit_list", "jit_user", "jit_restart" }

\* the types of the task's persistent record and of its local state
Types ==
    /\ uptr \in Nat /\ utail \in Nat /\ ucom \in BOOLEAN
    /\ kptr \in Nat /\ ktail \in KernelSlots \union {0}
    /\ kcache \in [KernelSlots -> Value \union {NoValue}]
    /\ listDone \in BOOLEAN
    /\ entries \in [1 .. ReplaySize -> Value \union {NoValue}]
    /\ rptr \in Nat /\ rtail \in Nat
    /\ recovery \in BOOLEAN
    /\ pc \in PCs
    /\ pos \in 1 .. Len(Program) + 1
    /\ knum \in 1 .. 3
    /\ ret \in Value \union {NoValue}
    /\ view \in [Positions -> Value \union {NoValue}]
    /\ kruns \in [Positions -> [1 .. 2 -> Nat]]
    /\ lruns \in [Positions -> Nat]
    /\ first \in [Positions -> Value \union {NoValue}]
    /\ crashes \in 0 .. MaxCrashes

\* add_entry_start has just copied a result; get_entry will copy one out
Writing == pc = "bump" /\ Returns(pos)
Reading == At("run", "sys") /\ HasEntry /\ Returns(pos)

\* The types, and: whatever is copied into the replay cache or out of it lies
\* inside its array.  Calls without a result move both pointers out of the
\* array, but add_entry_start then refuses the next result, so that get_entry
\* never looks for one out there.
TypeOK ==
    /\ Types
    /\ Writing => rtail + 1 \in DOMAIN entries
    /\ Reading => rptr + 1 \in DOMAIN entries

Syscalls == {p \in Positions : Op(p) = "sys"}

\* the number of the user transaction that position p belongs to
TxOf(p) == Cardinality({q \in 1 .. p : Op(q) = "begin"})

\* A system call made in a user transaction takes effect exactly once, however
\* often the transaction is rolled back and run again: each of its kernel
\* transactions commits at most once, its list operation (the wake-up of a
\* waiting task, the insertion into the delay list) happens at most once, and
\* both have happened when the user transaction commits.
SyscallsExactlyOnce ==
    \A p \in Syscalls :
        /\ \A k \in 1 .. Ktx(p) :
              /\ kruns[p][k] <= 1
              /\ TxOf(p) <= utail => kruns[p][k] = 1
        /\ lruns[p] <= 1
        /\ (TxOf(p) <= utail /\ Program[p].list) => lruns[p] = 1

\* A transaction that is run again sees the results its calls had when they
\* completed: get_entry returns to each call its own entry, the slots of calls
\* without a result in between.
ReplayedResults ==
    \A p \in Syscalls :
        (Returns(p) /\ p < pos /\ TxOf(p) > uptr) => view[p] = first[p]

\* When the power failures stop, the task runs to its end, or overflows the
\* replay cache.
Completes == <>(pos = Len(Program) + 1 \/ pc = "panic")

=============================================================================
