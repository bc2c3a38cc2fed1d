---------------------------- MODULE Transaction ----------------------------
(***************************************************************************)
(* One IntOS transaction object: the undo journal of pmem.rs and the       *)
(* commit / replay / bypass protocol of transaction.rs.  The kernel        *)
(* transaction of a task, its user transaction and the boot transaction    *)
(* all run this code.                                                      *)
(*                                                                         *)
(* A sequential program runs the transactions Program[1], Program[2], ...  *)
(* Power can fail between any two writes to persistent memory.  Registers  *)
(* and the stack are then lost; the journal is rolled back or dropped, and *)
(* the program is started again from its first line, bypassing every       *)
(* transaction whose result it finds in the TxCache.                       *)
(*                                                                         *)
(* A result is abstracted to one cell of the TxCache (size 1) or to the    *)
(* unit value (size 0), which takes the other path of cache_result.        *)
(***************************************************************************)
EXTENDS Naturals, Sequences

CONSTANTS
    Cell,          \* the persistent objects that transactions modify
    Value,         \* what an object or a result can hold
    InitVal,       \* value of every object in the program image
    Unit,          \* the value of a zero-sized result
    NoResult,      \* a local variable that has not been assigned yet
    Null,          \* the null address, in a record never written
    JournalSize,   \* JOURNAL_SIZE, in records
    CacheSize,     \* TX_CACHE_SZ, in results
    Program        \* the transactions of the program, in program order

Kinds ==
    { "run",    \* Transaction::run, run_sys: journal, cached result
      "fast",   \* fast_run, run_pure_sys: no journal, cached result
      "try",    \* try_run: journal, cached unless it returns TxRetry
      "once" }  \* run_no_replay: journal, result never cached

ASSUME ProgramAssumption ==
    Program \in Seq([kind : Kinds, size : {0, 1}])

ASSUME SizeAssumption ==
    /\ JournalSize \in Nat
    /\ CacheSize \in Nat
    /\ InitVal \in Value
    /\ Unit \notin Value
    /\ NoResult \notin Value
    /\ NoResult # Unit
    /\ Null \notin Cell

VARIABLES
    (* persistent memory *)
    mem,        \* the objects themselves
    jlog,       \* Journal.logs: records [addr, old]
    jtail,      \* Journal.tail
    cache,      \* TxCache.cache
    ptr,        \* TxCache.ptr  = [off, id]
    tail,       \* TxCache.tail = [com, off, id]
    recovery,   \* Task.recovery_mode
    (* registers and stack, lost at a power failure *)
    pc,         \* the next write to persistent memory
    pos,        \* which transaction of the program is next
    view,       \* the results held in the program's local variables
    ret,        \* value returned by the closure
    retry,      \* the closure returned Err(TxRetry)
    rptr,       \* `ptr' of Journal::recover
    (* history, read by no action *)
    stable,     \* the objects as of the last commit
    hist        \* the cached results, in commit order: [pos, off, val]

journalVars == <<jlog, jtail>>
cacheVars   == <<cache, ptr, tail>>
localVars   == <<pos, view, ret, retry>>
history     == <<stable, hist>>
vars == <<mem, jlog, jtail, cache, ptr, tail, recovery,
          pc, pos, view, ret, retry, rptr, stable, hist>>

Positions == 1 .. Len(Program)
Kind      == Program[pos].kind
Size      == Program[pos].size
Cached(p) == Program[p].kind # "once"

Result    == Value \union {Unit}
Record    == [addr : Cell \union {Null}, old : Value]
InitView  == [p \in Positions |-> NoResult]

PCs == { "idle", "body", "bump", "cache", "settail", "setptr", "clear",
         "nr_set", "nr_clear", "panic", "check", "undo", "restart" }

Init ==
    /\ mem = [c \in Cell |-> InitVal]
    /\ jlog = [i \in 1 .. JournalSize |-> [addr |-> Null, old |-> InitVal]]
    /\ jtail = 0
    /\ cache = [i \in 0 .. CacheSize - 1 |-> InitVal]
    /\ ptr = [off |-> 0, id |-> 0]
    /\ tail = [com |-> FALSE, off |-> 0, id |-> 0]
    /\ recovery = FALSE
    /\ pc = "idle"
    /\ pos = 1
    /\ view = InitView
    /\ ret = Unit
    /\ retry = FALSE
    /\ rptr = 0
    /\ stable = mem
    /\ hist = <<>>

-----------------------------------------------------------------------------
(* Starting a transaction.                                                 *)

\* TxCache::try_retrieve_result finds a result for this transaction
HasCachedResult == ptr.id < tail.id

\* (mutant) the offset does not follow the id
Bypass_KeepOffset ==
    /\ pc = "idle"
    /\ pos \in Positions
    /\ Cached(pos)
    /\ HasCachedResult
    /\ view' = [view EXCEPT ![pos] = IF Size > 0 THEN cache[ptr.off] ELSE Unit]
    /\ ptr' = [ptr EXCEPT !.id = @ + 1]
    /\ pos' = pos + 1
    /\ UNCHANGED <<mem, journalVars, cache, tail, recovery, pc, ret, retry,
                   rptr, history>>

\* run, try_run, fast_run: bypass the transaction and return the cached result
Bypass ==
    /\ pc = "idle"
    /\ pos \in Positions
    /\ Cached(pos)
    /\ HasCachedResult
    /\ view' = [view EXCEPT ![pos] = IF Size > 0 THEN cache[ptr.off] ELSE Unit]
    /\ ptr' = [off |-> ptr.off + Size, id |-> ptr.id + 1]
    /\ pos' = pos + 1
    /\ UNCHANGED <<mem, journalVars, cache, tail, recovery, pc, ret, retry,
                   rptr, history>>

\* Transaction::begin: clear_commit_flag
Begin ==
    /\ pc = "idle"
    /\ pos \in Positions
    /\ ~(Cached(pos) /\ HasCachedResult)
    /\ tail' = [tail EXCEPT !.com = FALSE]
    /\ pc' = "body"
    /\ UNCHANGED <<mem, journalVars, cache, ptr, recovery, localVars, rptr,
                   history>>

-----------------------------------------------------------------------------
(* The closure.  It may log any object, and write to what it has logged.   *)

\* (mutant) an object may be written before it is logged
Logged_Unlogged == Cell

Logged == {jlog[i].addr : i \in 1 .. jtail}

\* (mutant) the bound of the journal is off by one
JournalHasRoom_OffByOne == jtail <= JournalSize

\* self.tail + record_sz <= JOURNAL_SIZE
JournalHasRoom == jtail < JournalSize

\* Journal::append_log_of, up to the fence: the record beyond the tail
AppendLog(c) ==
    /\ pc = "body"
    /\ Kind # "fast"
    /\ JournalHasRoom
    /\ jlog' = [jlog EXCEPT ![jtail + 1] = [addr |-> c, old |-> mem[c]]]
    /\ pc' = "bump"
    /\ UNCHANGED <<mem, jtail, cacheVars, recovery, localVars, rptr, history>>

\* assert!(self.tail + record_sz <= JOURNAL_SIZE) fails
JournalFull ==
    /\ pc = "body"
    /\ Kind # "fast"
    /\ ~JournalHasRoom
    /\ pc' = "panic"
    /\ UNCHANGED <<mem, journalVars, cacheVars, recovery, localVars, rptr,
                   history>>

\* Journal::append_log_of, after the fence: self.tail += record_sz
BumpTail ==
    /\ pc = "bump"
    /\ jtail' = jtail + 1
    /\ pc' = "body"
    /\ UNCHANGED <<mem, jlog, cacheVars, recovery, localVars, rptr, history>>

\* a write through the reference that borrow_mut / as_mut returned
Write(c, v) ==
    /\ pc = "body"
    /\ c \in Logged
    /\ mem' = [mem EXCEPT ![c] = v]
    /\ UNCHANGED <<journalVars, cacheVars, recovery, pc, localVars, rptr,
                   history>>

\* the closure returns r
EndBody(r) ==
    /\ pc = "body"
    /\ r \in IF Size > 0 THEN Value ELSE {Unit}
    /\ ret' = r
    /\ retry' = FALSE
    /\ pc' = IF Cached(pos) THEN "cache" ELSE "nr_set"
    /\ UNCHANGED <<mem, journalVars, cacheVars, recovery, pos, view, rptr,
                   history>>

\* the closure of try_run returns Err(TxRetry)
EndBodyRetry ==
    /\ pc = "body"
    /\ Kind = "try"
    /\ ret' = Unit
    /\ retry' = TRUE
    /\ pc' = "nr_set"
    /\ UNCHANGED <<mem, journalVars, cacheVars, recovery, pos, view, rptr,
                   history>>

-----------------------------------------------------------------------------
(* Commit with a cached result: TxCache::cache_result, Journal::clear.     *)

\* debug_assert!: "Running out of cache size".  (A build without debug
\* assertions checks only that cache_ptr is inside, and copies beyond the end.)
CacheFull ==
    /\ pc = "cache"
    /\ tail.off + Size > CacheSize
    /\ pc' = "panic"
    /\ UNCHANGED <<mem, journalVars, cacheVars, recovery, localVars, rptr,
                   history>>

\* (mutant) the offset field of the tail is masked off
CacheResult_NoOffset ==
    /\ pc = "cache"
    /\ tail.off + Size <= CacheSize
    /\ cache' = IF Size > 0 THEN [cache EXCEPT ![0] = ret] ELSE cache
    /\ pc' = "settail"
    /\ UNCHANGED <<mem, journalVars, ptr, tail, recovery, localVars, rptr,
                   history>>

\* the result is written beyond the tail
CacheResult ==
    /\ pc = "cache"
    /\ tail.off + Size <= CacheSize
    /\ cache' = IF Size > 0 THEN [cache EXCEPT ![tail.off] = ret] ELSE cache
    /\ pc' = "settail"
    /\ UNCHANGED <<mem, journalVars, ptr, tail, recovery, localVars, rptr,
                   history>>

\* "atomic commit": the id, the offset and the commit flag are one word
CommitTail ==
    /\ pc = "settail"
    /\ tail' = [com |-> TRUE, off |-> tail.off + Size, id |-> tail.id + 1]
    /\ pc' = "setptr"
    /\ stable' = mem
    /\ hist' = Append(hist, [pos |-> pos, off |-> tail.off, val |-> ret])
    /\ UNCHANGED <<mem, journalVars, cache, ptr, recovery, localVars, rptr>>

\* fast_run and run_pure_sys return here, without resetting the journal
AdvancePtr ==
    /\ pc = "setptr"
    /\ ptr' = IF Size > 0 THEN [off |-> tail.off, id |-> tail.id]
                          ELSE [ptr EXCEPT !.id = @ + 1]
    /\ IF Kind = "fast"
       THEN /\ view' = [view EXCEPT ![pos] = ret]
            /\ pos' = pos + 1
            /\ pc' = "idle"
       ELSE /\ pc' = "clear"
            /\ UNCHANGED <<view, pos>>
    /\ UNCHANGED <<mem, journalVars, cache, tail, recovery, ret, retry, rptr,
                   history>>

ClearJournal ==
    /\ pc = "clear"
    /\ jtail' = 0
    /\ view' = [view EXCEPT ![pos] = ret]
    /\ pos' = pos + 1
    /\ pc' = "idle"
    /\ UNCHANGED <<mem, jlog, cacheVars, recovery, ret, retry, rptr, history>>

-----------------------------------------------------------------------------
(* Commit without a cached result: commit_no_replay.                       *)

CommitNoReplay ==
    /\ pc = "nr_set"
    /\ tail' = [tail EXCEPT !.com = TRUE]
    /\ pc' = "nr_clear"
    /\ stable' = mem
    /\ UNCHANGED <<mem, journalVars, cache, ptr, recovery, localVars, rptr,
                   hist>>

\* after TxRetry the caller runs the same transaction again
ClearNoReplay ==
    /\ pc = "nr_clear"
    /\ jtail' = 0
    /\ view' = [view EXCEPT ![pos] = IF retry THEN @ ELSE ret]
    /\ pos' = IF retry THEN pos ELSE pos + 1
    /\ pc' = "idle"
    /\ UNCHANGED <<mem, jlog, cacheVars, recovery, ret, retry, rptr, history>>

-----------------------------------------------------------------------------
(* Power failure and recovery.                                             *)

Crash ==
    /\ pc' = "check"
    /\ pos' = 1
    /\ view' = InitView
    /\ ret' = Unit
    /\ retry' = FALSE
    /\ rptr' = 0
    /\ UNCHANGED <<mem, journalVars, cacheVars, recovery, history>>

\* roll_back_if_uncommitted: check_committed
CheckCommitted ==
    /\ pc = "check"
    /\ recovery' = TRUE
    /\ IF tail.com
       THEN /\ jtail' = 0
            /\ pc' = "restart"
            /\ UNCHANGED rptr
       ELSE /\ rptr' = jtail
            /\ pc' = "undo"
            /\ UNCHANGED jtail
    /\ UNCHANGED <<mem, jlog, cacheVars, localVars, history>>

\* (mutant) the records are undone oldest first
UndoRecord_OldestFirst ==
    /\ pc = "undo"
    /\ rptr > 0
    /\ mem' = LET i == jtail - rptr + 1
              IN  [mem EXCEPT ![jlog[i].addr] = jlog[i].old]
    /\ rptr' = rptr - 1
    /\ UNCHANGED <<journalVars, cacheVars, recovery, pc, localVars, history>>

\* (mutant) the loop does not move to the next record
UndoRecord_NoDecrement ==
    /\ pc = "undo"
    /\ rptr > 0
    /\ mem' = [mem EXCEPT ![jlog[rptr].addr] = jlog[rptr].old]
    /\ UNCHANGED <<journalVars, cacheVars, recovery, pc, localVars, rptr,
                   history>>

\* one turn of the loop of Journal::recover, newest record first
UndoRecord ==
    /\ pc = "undo"
    /\ rptr > 0
    /\ mem' = [mem EXCEPT ![jlog[rptr].addr] = jlog[rptr].old]
    /\ rptr' = rptr - 1
    /\ UNCHANGED <<journalVars, cacheVars, recovery, pc, localVars, history>>

UndoDone ==
    /\ pc = "undo"
    /\ rptr = 0
    /\ jtail' = 0
    /\ pc' = "restart"
    /\ UNCHANGED <<mem, jlog, cacheVars, recovery, localVars, rptr, history>>

\* (mutant) the replay pointer is not reset
Restart_KeepPtr ==
    /\ pc = "restart"
    /\ pc' = "idle"
    /\ UNCHANGED <<mem, journalVars, cacheVars, recovery, localVars, rptr,
                   history>>

\* UserTxInfo::restart, TxCache::reset_ptr: replay from the first transaction
Restart ==
    /\ pc = "restart"
    /\ ptr' = [off |-> 0, id |-> 0]
    /\ pc' = "idle"
    /\ UNCHANGED <<mem, journalVars, cache, tail, recovery, localVars, rptr,
                   history>>

-----------------------------------------------------------------------------

Execute ==
    \/ Bypass
    \/ Begin
    \/ \E c \in Cell : AppendLog(c)
    \/ JournalFull
    \/ BumpTail
    \/ \E c \in Cell, v \in Value : Write(c, v)
    \/ \E r \in Result : EndBody(r)
    \/ EndBodyRetry
    \/ CacheFull
    \/ CacheResult
    \/ CommitTail
    \/ AdvancePtr
    \/ ClearJournal
    \/ CommitNoReplay
    \/ ClearNoReplay

Recover ==
    \/ CheckCommitted
    \/ UndoRecord
    \/ UndoDone
    \/ Restart

Next == Execute \/ Recover \/ Crash

Spec == Init /\ [][Next]_vars

\* What a processor that stays powered does: a closure returns in the end
\* (EndBody), and no step that can be taken is put off for ever.
Fairness ==
    /\ WF_vars(Execute)
    /\ WF_vars(\E r \in Result : EndBody(r))
    /\ WF_vars(Recover)

FairSpec == Spec /\ Fairness

-----------------------------------------------------------------------------
(* Properties.                                                             *)

\* Types of the journal, the TxCache and the program's local state.
TypeOK ==
    /\ mem \in [Cell -> Value]
    /\ jlog \in [1 .. JournalSize -> Record]
    /\ jtail \in 0 .. JournalSize
    /\ cache \in [0 .. CacheSize - 1 -> Value]
    /\ ptr \in [off : Nat, id : Nat]
    /\ tail \in [com : BOOLEAN, off : Nat, id : Nat]
    /\ recovery \in BOOLEAN
    /\ pc \in PCs
    /\ pos \in 1 .. Len(Program) + 1
    /\ view \in [Positions -> Result \union {NoResult}]
    /\ ret \in Result
    /\ retry \in BOOLEAN
    /\ rptr \in 0 .. JournalSize
    /\ stable \in [Cell -> Value]
    /\ hist \in Seq([pos : Positions, off : Nat, val : Result])

\* What the objects would be if power failed now and recovery ran: the oldest
\* record of an object holds its value from before the transaction.
RecordsOf(c) == {i \in 1 .. jtail : jlog[i].addr = c}
OldestRecord(c) == CHOOSE i \in RecordsOf(c) : \A k \in RecordsOf(c) : i <= k
Recoverable ==
    IF tail.com THEN mem
    ELSE [c \in Cell |-> IF RecordsOf(c) = {} THEN mem[c]
                                              ELSE jlog[OldestRecord(c)].old]

\* Crash atomicity of Transaction::run: whenever the program is between two
\* transactions, and whenever recovery has finished, the objects are exactly
\* as the last commit left them, however many power failures came in between
\* and wherever they hit, inside Journal::recover included.
CrashAtomicity ==
    pc \in {"idle", "restart"} => mem = stable

\* The state on which CrashAtomicity rests: at every moment, what recovery
\* would restore is what the last commit left.
RecoverableIsStable == Recoverable = stable

\* try_retrieve_result returns, for each transaction, the result it had when
\* it committed: the results in the local variables of the restarted program
\* are those of its first run.
ReplayFaithful ==
    \A p \in Positions :
        (p < pos /\ Cached(p)) =>
            \E k \in 1 .. Len(hist) : /\ hist[k].pos = p
                                      /\ view[p] = hist[k].val

\* A transaction with a cached result commits once, in program order, however
\* often the program is restarted: the k-th commit is that of the k-th
\* transaction that is cached.
ExactlyOnce ==
    \A k \in 1 .. Len(hist) :
        /\ Cached(hist[k].pos)
        /\ \A p \in 1 .. hist[k].pos - 1 :
              Cached(p) => \E m \in 1 .. k - 1 : hist[m].pos = p
        /\ \A m \in 1 .. k - 1 : hist[m].pos < hist[k].pos

\* debug_assert!(in_recovery_mode(), "Can't bypass TX when not recovering")
BypassOnlyInRecovery ==
    (pc = "idle" /\ pos \in Positions /\ Cached(pos) /\ HasCachedResult)
        => recovery

\* When power stays on and try_run is not told to retry for ever, the program
\* runs to its end whatever state the earlier failures left, unless it
\* overflows the journal or the TxCache and panics.
Progress ==
    <>[][~Crash]_vars /\ <>[](~retry)
        => \/ <>[](pc = "idle" /\ pos = Len(Program) + 1)
           \/ <>[](pc = "panic")

-----------------------------------------------------------------------------
(* Refinement: the abstract state is read off persistent memory.           *)

RecordedResults ==
    [k \in 1 .. Len(hist) |->
        [pos |-> hist[k].pos,
         val |-> IF Program[hist[k].pos].size > 0 THEN cache[hist[k].off]
                                                  ELSE Unit]]

Atomic == INSTANCE AtomicTx WITH store   <- Recoverable,
                                 results <- RecordedResults

\* The journal and the TxCache implement atomic transactions: what a power
\* failure would leave changes only at the commit write, together with the
\* recorded result, and no recorded result is ever overwritten or dropped.
RefinesAtomicTx == Atomic!Spec

=============================================================================
