------------------------------ MODULE NvLoop -------------------------------
(***************************************************************************)
(* Persistent loops: nv_for_loop! and nv_loop! of user/transaction.rs, the *)
(* stack of TxCache tails of UserTxInfo, the loop-counter log, and the     *)
(* loop part of Task::jit_recovery.                                        *)
(*                                                                         *)
(* A loop saves the position of the TxCache when an iteration starts and   *)
(* restores it when the iteration ends, so that the cached results of one  *)
(* iteration do not answer for the next.  TxCache.ptr and TxCache.tail are *)
(* words packed from a commit flag, an offset into the cache and a         *)
(* transaction id; the stack holds them cut to TailBits bits.              *)
(*                                                                         *)
(* A user transaction is its writes to the TxCache (Transaction has its    *)
(* journal); a result takes one byte of the cache or none.                 *)
(***************************************************************************)
EXTENDS Integers, Sequences

CONSTANTS
    IdBits,        \* TX_CACHE_PTR_SHIFT
    ComBit,        \* the bit of TX_COMMITTED
    TailBits,      \* width of TxTail
    CacheSize,     \* TX_CACHE_SZ
    StackDepth,    \* DEFAULT_STACK_DEPTH
    Value,         \* what a transaction can return
    NoValue,       \* no result, or a byte of the cache never written
    None,          \* loop_cnt_ptr before the first log_loop_cnt
    Programs,      \* the code of the tasks under study, sequences of instructions
    MaxCrashes,    \* bound on the number of power failures
    MaxLaps        \* bound on the iterations of an nv_loop

(* An instruction: a transaction whose result has the given size; the      *)
(* fast_run that sets a loop counter to its first value; the head of an    *)
(* nv_for_loop with counter 0 => arg, or of an nv_loop; the end of either  *)
(* loop, with the position of its head.                                    *)
Instr == [op : {"tx", "init", "for", "next", "loop", "again"}, arg : Nat]

VARIABLE Program   \* the task's code, chosen once

Positions == 1 .. Len(Program)
Op(p)     == Program[p].op
Size(p)   == IF Op(p) = "tx" THEN Program[p].arg ELSE 0
Heads     == {p \in Positions : Op(p) \in {"for", "loop"}}
Ends      == {p \in Positions : Op(p) \in {"next", "again"}}

HeadOf(e) == Program[e].arg
EndOf(h)  == CHOOSE e \in Ends : HeadOf(e) = h

ASSUME LoopAssumption ==
    /\ Programs \subseteq Seq(Instr)
    /\ {IdBits, ComBit, TailBits, CacheSize, StackDepth, MaxCrashes, MaxLaps} \subseteq Nat
    /\ IdBits < ComBit
    /\ NoValue \notin Value

VARIABLES
    (* persistent memory *)
    ptr, tail,     \* user_tx_cache.ptr and .tail, as words
    cache,         \* user_tx_cache.cache
    tailStack,     \* tail_stack
    top,           \* stack_top
    cntLog,        \* loop_cnt_log; the step is 1
    cntPtr,        \* loop_cnt_ptr: the loop whose counter it points to
    counter,       \* the loop counters
    (* registers and stack *)
    pc, pos,
    cnt,           \* the local copy of each counter
    ret,           \* result of the transaction
    view,          \* what the code knows of each transaction it has passed
    (* history *)
    laps,          \* completed iterations of each nv_loop
    done,          \* the commits: [pos, it, val]
    crashes

txCache   == <<ptr, tail, cache>>
tailSaved == <<tailStack, top>>
counters  == <<cntLog, cntPtr, counter>>
locals    == <<pos, cnt, ret, view>>
history   == <<laps, done>>
vars == <<ptr, tail, cache, tailStack, top, cntLog, cntPtr, counter,
          pc, pos, cnt, ret, view, laps, done, crashes, Program>>

COMMITTED       == 2 ^ ComBit
IdOf(w)         == w % 2 ^ IdBits
OffsetOf(w)     == (w % COMMITTED) \div 2 ^ IdBits
IsCommitted(w)  == w >= COMMITTED
SetFlag(w)      == IF IsCommitted(w) THEN w ELSE w + COMMITTED
ClearFlag(w)    == w % COMMITTED

\* advance_composite_id
Advance(w, sz)  == IdOf(w) + 1 + (OffsetOf(w) + sz) * 2 ^ IdBits

NoView == [p \in Positions |-> NoValue]

Init ==
    /\ Program \in Programs
    /\ ptr = 0 /\ tail = 0
    /\ cache = [i \in 0 .. CacheSize - 1 |-> NoValue]
    /\ tailStack = [i \in 1 .. StackDepth |-> 0]
    /\ top = 0
    /\ cntLog = 0 /\ cntPtr = None
    /\ counter = [h \in Heads |-> 0]
    /\ pc = "run" /\ pos = 1
    /\ cnt = [h \in Heads |-> 0]
    /\ ret = NoValue
    /\ view = NoView
    /\ laps = [h \in Heads |-> 0]
    /\ done = <<>>
    /\ crashes = 0

At(ops) == pc = "run" /\ pos \in Positions /\ Op(pos) \in ops

-----------------------------------------------------------------------------
(* A transaction of the task                                               *)

\* the iteration that the code at position p is in
Iteration(p) ==
    [h \in {g \in Heads : g < p /\ p < EndOf(g)} |->
        IF Op(h) = "for" THEN cnt[h] ELSE laps[h]]

\* try_retrieve_result
HasCachedResult == IdOf(ptr) < IdOf(tail)

Bypass ==
    /\ At({"tx", "init"})
    /\ HasCachedResult
    /\ view' = [view EXCEPT ![pos] =
                   [it |-> Iteration(pos),
                    val |-> IF Size(pos) > 0 THEN cache[OffsetOf(ptr)] ELSE NoValue]]
    /\ ptr' = IF Size(pos) > 0 THEN Advance(ptr, Size(pos)) ELSE ptr + 1
    /\ pos' = pos + 1
    /\ UNCHANGED <<tail, cache, tailSaved, counters, pc, cnt, ret, history,
                   crashes>>

BeginTx ==
    /\ At({"tx", "init"})
    /\ ~HasCachedResult
    /\ tail' = ClearFlag(tail)
    /\ pc' = "body"
    /\ UNCHANGED <<ptr, cache, tailSaved, counters, locals, history, crashes>>

\* the closure; that of the loop's fast_run sets the counter, unlogged
Body(v) ==
    /\ pc = "body"
    /\ IF Op(pos) = "init"
       THEN /\ counter' = [counter EXCEPT ![pos + 1] = 0]
            /\ UNCHANGED ret
       ELSE /\ ret' = IF Size(pos) > 0 THEN v ELSE NoValue
            /\ UNCHANGED counter
    /\ pc' = IF Size(pos) > 0 THEN "cache" ELSE "commit"
    /\ UNCHANGED <<txCache, tailSaved, cntLog, cntPtr, pos, cnt, view, history,
                   crashes>>

\* cache_result: the copy, at the offset of the tail
CacheResult ==
    /\ pc = "cache"
    /\ OffsetOf(tail) < CacheSize
    /\ cache' = [cache EXCEPT ![OffsetOf(tail)] = ret]
    /\ pc' = "commit"
    /\ UNCHANGED <<ptr, tail, tailSaved, counters, locals, history, crashes>>

\* cache_result, commit_no_ret_value: the atomic commit
CommitTail ==
    /\ pc = "commit"
    /\ tail' = SetFlag(IF Size(pos) > 0 THEN Advance(tail, Size(pos)) ELSE tail + 1)
    /\ done' = IF Op(pos) = "tx"
               THEN Append(done, [pos |-> pos, it |-> Iteration(pos), val |-> ret])
               ELSE done
    /\ pc' = "advance"
    /\ UNCHANGED <<ptr, cache, tailSaved, counters, locals, laps, crashes>>

AdvancePtr ==
    /\ pc = "advance"
    /\ ptr' = IF Size(pos) > 0 THEN ClearFlag(tail) ELSE ptr + 1
    /\ view' = [view EXCEPT ![pos] =
                   [it |-> Iteration(pos),
                    val |-> IF Op(pos) = "tx" THEN ret ELSE NoValue]]
    /\ pos' = pos + 1
    /\ pc' = "run"
    /\ UNCHANGED <<tail, cache, tailSaved, counters, cnt, ret, history, crashes>>

-----------------------------------------------------------------------------
(* The start of an iteration                                               *)

\* (mutant) the tail is saved where the program's results end, not where the
\* replay stands
EnterLoop_SaveTail ==
    /\ tailStack' = [tailStack EXCEPT ![top + 1] = SetFlag(tail) % 2 ^ TailBits]
    /\ top' = top + 1

\* enter_idempotent_loop
EnterLoop ==
    /\ tailStack' = [tailStack EXCEPT ![top + 1] = SetFlag(ptr) % 2 ^ TailBits]
    /\ top' = top + 1

ForHead ==
    /\ At({"for"})
    /\ cnt' = [cnt EXCEPT ![pos] = counter[pos]]
    /\ IF counter[pos] >= Program[pos].arg
       THEN /\ pos' = EndOf(pos) + 1
            /\ UNCHANGED tailSaved
       ELSE /\ EnterLoop
            /\ pos' = pos + 1
    /\ UNCHANGED <<txCache, counters, pc, ret, view, history, crashes>>

LoopHead ==
    /\ At({"loop"})
    /\ laps[pos] < MaxLaps
    /\ EnterLoop
    /\ pos' = pos + 1
    /\ UNCHANGED <<txCache, counters, pc, cnt, ret, view, history, crashes>>

-----------------------------------------------------------------------------
(* The end of an iteration                                                 *)

\* log_loop_cnt
LogLoopPtr ==
    /\ At({"next"})
    /\ cntPtr' = HeadOf(pos)
    /\ pc' = "log"
    /\ UNCHANGED <<txCache, tailSaved, cntLog, counter, locals, history, crashes>>

LogLoopCnt ==
    /\ pc = "log"
    /\ cntLog' = cnt[HeadOf(pos)]
    /\ pc' = "settail"
    /\ UNCHANGED <<txCache, tailSaved, cntPtr, counter, locals, history, crashes>>

\* exit_idempotent_loop: set_tail, the point of no return of the iteration
ForSetTail ==
    /\ pc = "settail"
    /\ tail' = tailStack[top]
    /\ pc' = "setcnt"
    /\ UNCHANGED <<ptr, cache, tailSaved, counters, locals, history, crashes>>

\* UserTxInfo::set_loop_cnt
SetLoopCnt == counter' = [counter EXCEPT ![cntPtr] = cntLog + 1]

ForSetLoopCnt ==
    /\ pc = "setcnt"
    /\ SetLoopCnt
    /\ pc' = "setptr"
    /\ UNCHANGED <<txCache, tailSaved, cntLog, cntPtr, locals, history, crashes>>

\* exit_infinite_idempotent_loop: set_tail, with no counter to log
LoopSetTail ==
    /\ At({"again"})
    /\ tail' = tailStack[top]
    /\ laps' = [laps EXCEPT ![HeadOf(pos)] = @ + 1]
    /\ pc' = "setptr"
    /\ UNCHANGED <<ptr, cache, tailSaved, counters, locals, done, crashes>>

\* both: set_ptr, decrease the stack top, and back to the head
LeaveIteration ==
    /\ pc = "setptr"
    /\ ptr' = tailStack[top]
    /\ top' = top - 1
    /\ pos' = HeadOf(pos)
    /\ view' = [p \in Positions |->
                   IF HeadOf(pos) < p /\ p < pos THEN NoValue ELSE view[p]]
    /\ pc' = "run"
    /\ UNCHANGED <<tail, cache, tailStack, counters, cnt, ret, history, crashes>>

-----------------------------------------------------------------------------
(* Power failure and recovery                                              *)

Crash ==
    /\ crashes < MaxCrashes
    /\ crashes' = crashes + 1
    /\ pc' = "jit" /\ pos' = 1 /\ ret' = NoValue /\ view' = NoView
    /\ cnt' = [h \in Heads |-> 0]
    /\ UNCHANGED <<txCache, tailSaved, counters, history>>

\* (mutant) an iteration that just ended is not recognised
NearLoopEnd_Never == FALSE

\* jit_recovery: "Detected crash just before nvloop end"
NearLoopEnd == IdOf(ptr) > IdOf(tail)

JitCheckLoop ==
    /\ pc = "jit"
    /\ pc' = IF NearLoopEnd THEN "jit_loop" ELSE "jit_user"
    /\ UNCHANGED <<txCache, tailSaved, counters, locals, history, crashes>>

\* (mutant) the condition is tested again, before the pointer is reset
JitSetLoopCnt_Repeat ==
    /\ pc = "jit_loop"
    /\ cntPtr # None
    /\ SetLoopCnt
    /\ pc' = "jit"
    /\ UNCHANGED <<txCache, tailSaved, cntLog, cntPtr, locals, history, crashes>>

JitSetLoopCnt ==
    /\ pc = "jit_loop"
    /\ cntPtr # None
    /\ SetLoopCnt
    /\ pc' = "jit_user"
    /\ UNCHANGED <<txCache, tailSaved, cntLog, cntPtr, locals, history, crashes>>

\* unwrap_unchecked of None: a write to the null address, which is ignored or
\* stops the processor
JitNullCounter ==
    /\ pc = "jit_loop"
    /\ cntPtr = None
    /\ pc' \in {"jit_user", "fault"}
    /\ UNCHANGED <<txCache, tailSaved, counters, locals, history, crashes>>

\* user_recovery, UserTxInfo::restart
UserRestart ==
    /\ pc = "jit_user"
    /\ ptr' = 0
    /\ top' = 0
    /\ pc' = "run"
    /\ UNCHANGED <<tail, cache, tailStack, counters, locals, history, crashes>>

-----------------------------------------------------------------------------

Step ==
    \/ Bypass \/ BeginTx \/ (\E v \in Value : Body(v)) \/ CacheResult
    \/ CommitTail \/ AdvancePtr
    \/ ForHead \/ LoopHead
    \/ LogLoopPtr \/ LogLoopCnt \/ ForSetTail \/ ForSetLoopCnt
    \/ LoopSetTail \/ LeaveIteration
    \/ JitCheckLoop \/ JitSetLoopCnt \/ UserRestart

Next == (Step \/ JitNullCounter \/ Crash) /\ UNCHANGED Program

Spec == Init /\ [][Next]_vars

\* a task that is powered and scheduled keeps running
FairSpec == Spec /\ WF_vars(Step /\ UNCHANGED Program)

-----------------------------------------------------------------------------
(* Properties                                                              *)

PCs == { "run", "body", "cache", "commit", "advance", "log", "settail",
         "setcnt", "setptr", "jit", "jit_loop", "jit_user", "fault" }

Words == 0 .. 2 ^ (ComBit + 1) - 1

\* Types; in particular ptr and tail stay words of their width, and the stack
\* of tails does not overflow.
TypeOK ==
    /\ ptr \in Words /\ tail \in Words
    /\ cache \in [0 .. CacheSize - 1 -> Value \union {NoValue}]
    /\ tailStack \in [1 .. StackDepth -> Words]
    /\ top \in 0 .. StackDepth
    /\ cntLog \in Nat /\ cntPtr \in Heads \union {None}
    /\ counter \in [Heads -> Nat]
    /\ pc \in PCs
    /\ pos \in 1 .. Len(Program) + 1
    /\ cnt \in [Heads -> Nat]
    /\ ret \in Value \union {NoValue}
    /\ laps \in [Heads -> 0 .. MaxLaps]
    /\ crashes \in 0 .. MaxCrashes

\* no iteration that has ended is run again
IterationOnce ==
    \A i, j \in 1 .. Len(done) :
        (done[i].pos = done[j].pos /\ done[i].it = done[j].it) => i = j

\* the iterations in which the transaction at position p commits when the
\* loops around it run to their ends
Iterations(p) ==
    LET around == {h \in Heads : h < p /\ p < EndOf(h)}
        bound(h) == IF Op(h) = "for" THEN Program[h].arg ELSE MaxLaps
    IN  {f \in [around -> UNION {0 .. bound(h) - 1 : h \in around}] :
            \A h \in around : f[h] < bound(h)}

\* a task that is past its loops has committed each transaction of their
\* bodies in every iteration from the first to the last
NoIterationSkipped ==
    (pc = "run" /\ pos = Len(Program) + 1) =>
        \A p \in Positions : Op(p) = "tx" =>
            \A f \in Iterations(p) :
                \E k \in 1 .. Len(done) : done[k].pos = p /\ done[k].it = f

\* Each transaction of a loop body commits once in every iteration: none is run
\* again and none is skipped, wherever between log_loop_cnt and the end of
\* exit_idempotent_loop power fails.
IterationsOnceEach == IterationOnce /\ NoIterationSkipped

\* A restarted task sees, for each transaction before, in and behind its
\* loops, the result that the transaction had when it committed in the same
\* iteration: restoring the tail of the TxCache ("recover old tx tail & ptr")
\* keeps the results that were cached before the loop.
ReplayFaithful ==
    \A p \in Positions :
        (Op(p) = "tx" /\ view[p] # NoValue) =>
            \E k \in 1 .. Len(done) : /\ done[k].pos = p
                                      /\ done[k].it = view[p].it
                                      /\ done[k].val = view[p].val

\* jit_recovery writes a loop counter only through a pointer that some
\* log_loop_cnt has set.
CounterKnown == pc = "jit_loop" => cntPtr # None

\* When the power failures stop, every for loop ends, and the task with it
\* unless it has an infinite loop.
LoopsEnd ==
    (\A p \in Positions : Op(p) # "loop") => <>(pos = Len(Program) + 1)

=============================================================================
