---------------------------- MODULE EventGroup ----------------------------
(***************************************************************************)
(* The event group of event_group.rs in the build with opt_list, with its  *)
(* system calls: wait, set and sync (set and wait for all, a rendezvous).  *)
(*                                                                         *)
(* A call is made of kernel transactions, which a repetition of the call   *)
(* passes over by counting, and of list transactions and stores that are   *)
(* not counted: a power failure in between makes the call start again from *)
(* its first line with some of its effects in place.  The task gets there  *)
(* by running its user transaction again, passing over the calls that are  *)
(* complete.                                                               *)
(***************************************************************************)
EXTENDS Sched

CONSTANTS
    Bit,        \* event bits
    Program     \* Program[t]: the calls the task makes

Waiters == "waiters"

Call == [op : {"wait", "set", "sync"}, set : SUBSET Bit, for : SUBSET Bit,
         clear : BOOLEAN, all : BOOLEAN, ticks : 0 .. Never,
         tx : Nat]      \* the user transaction that makes it

ASSUME EventGroupAssumption ==
    /\ Program \in [Task -> Seq(Call)] /\ Program[Idle] = <<>>
    /\ WaitList = {Waiters}

\* the value of a BlockedListItem: bits and three control flags
Opaque == [bits : SUBSET Bit, clear : BOOLEAN, all : BOOLEAN, unblocked : BOOLEAN]
Zero   == [bits |-> {}, clear |-> FALSE, all |-> FALSE, unblocked |-> FALSE]

VARIABLES
    bits,       \* EventGroup.event_bits
    opaque,     \* for each task the value of its event node
    results,    \* the results of its completed calls
    txDone,     \* how many kernel transactions of the call under way are committed
    original,   \* the result of the first one of a sync: the bits it found
    pc, ptr,    \* where a task is, and how many of them it has passed
    replaying,  \* the task has yet to pass over the calls it has completed
    shot, todo, toClear, yld,   \* the registers of set_event_group_bits: it is
                                \* never interrupted, so there is one of each
    released,   \* history: the call under way has been woken by a set
    failed      \* history: the power has failed

persistent == <<bits, opaque, results, txDone, original>>
registers  == <<pc, ptr, replaying, shot, todo, toClear, yld>>
history    == <<released, failed>>
vars       == <<schedVars, persistent, registers, history>>

CallNo(t) == Len(results[t]) + 1
Active(t) == CallNo(t) <= Len(Program[t])
This(t)   == Program[t][CallNo(t)]

At(t, p)   == cur = t /\ pc[t] = p
Goto(t, p) == pc' = [pc EXCEPT ![t] = p] /\ UNCHANGED replaying

InCritical == pc[cur] \in {"set", "scan", "remove", "clear", "decide"}

\* wait_condition_ok
WaitConditionOk(present, want, all) ==
    IF all THEN want \subseteq present ELSE want \cap present # {}

\* transaction::run of a transaction without a result: it is passed over when
\* it has committed in an earlier execution of the call
RunTx(t, new) ==
    /\ ptr' = [ptr EXCEPT ![t] = @ + 1]
    /\ IF ptr[t] < txDone[t]
       THEN UNCHANGED <<bits, txDone>>
       ELSE bits' = new /\ txDone' = [txDone EXCEPT ![t] = @ + 1]

ScanRegisters == <<shot, todo, toClear, yld>>

\* the user transaction of the call has made a wait before it
EarlierWait(t) ==
    \E i \in 1 .. Len(results[t]) : Program[t][i].op = "wait" /\ Program[t][i].tx = This(t).tx

\* Behind a power failure the user transaction is run again up to the call
\* that was under way.  Passing over a wait resets the value of the event
\* node, which the call under way may have to look at; passing over a set or
\* a sync changes nothing.  (One step: nobody else looks at the node of a
\* task that runs, and between two calls the value is zero.)
Replay(t) ==
    /\ At(t, "call") /\ Active(t) /\ replaying[t]
    /\ replaying' = [replaying EXCEPT ![t] = FALSE]
    /\ opaque' = IF EarlierWait(t) THEN [opaque EXCEPT ![t] = Zero] ELSE opaque
    /\ UNCHANGED <<schedVars, bits, results, txDone, original, pc, ptr, ScanRegisters, history>>

(***************************************************************************)
(* wait_for_event_group_bits.                                              *)
(***************************************************************************)
\* (mutant) the value a set has left is not looked at
BeginWaitAfresh(t) ==
    /\ At(t, "call") /\ Active(t) /\ ~ replaying[t] /\ This(t).op = "wait"
    /\ ptr' = [ptr EXCEPT ![t] = 0]
    /\ Goto(t, "check")
    /\ UNCHANGED <<schedVars, persistent, ScanRegisters, history>>

\* a power failure just behind the wake-up: the set's value is still there,
\* unless the transaction has passed over an earlier wait
BeginWait(t) ==
    /\ At(t, "call") /\ Active(t) /\ ~ replaying[t] /\ This(t).op = "wait"
    /\ ptr' = [ptr EXCEPT ![t] = 0]
    /\ Goto(t, IF opaque[t].unblocked THEN "ok" ELSE "check")
    /\ UNCHANGED <<schedVars, persistent, ScanRegisters, history>>

Satisfied(t) == WaitConditionOk(bits, This(t).for, This(t).all \/ This(t).op = "sync")

\* the bits a wait clears when it finds them set
Consume(t) ==
    IF This(t).clear \/ This(t).op = "sync" THEN RunTx(t, bits \ This(t).for)
    ELSE UNCHANGED <<bits, txDone, ptr>>

FindBits(t) ==
    /\ At(t, "check") /\ Satisfied(t)
    /\ Consume(t)
    /\ Goto(t, "ok")
    /\ UNCHANGED <<schedVars, opaque, results, original, ScanRegisters, history>>

\* without the bits and without time to wait the call returns what there is
Poll(t) ==
    /\ At(t, "check") /\ ~ Satisfied(t) /\ This(t).ticks = 0
    /\ Goto(t, "ok")
    /\ UNCHANGED <<schedVars, persistent, ptr, ScanRegisters, history>>

Sleep(t, clear, all) ==
    /\ opaque' = [opaque EXCEPT ![t] = [bits |-> This(t).for, clear |-> clear, all |-> all,
                                        unblocked |-> FALSE]]
    /\ BlockOnUnsorted(t, Waiters, This(t).ticks)

Block(t) ==
    /\ At(t, "check") /\ ~ Satisfied(t) /\ This(t).ticks # 0
    /\ Sleep(t, This(t).clear, This(t).all)
    /\ Goto(t, "yield")
    /\ UNCHANGED <<bits, results, txDone, original, ptr, ScanRegisters, history>>

\* arch_yield: the switch is taken as soon as interrupts are on
Yield(t) ==
    /\ cur = t
    /\ \/ pc[t] = "pended" /\ Goto(t, "yield")
       \/ pc[t] = "yield" /\ Goto(t, "resume")
       \/ pc[t] = "setyield" /\ Goto(t, "ok")
    /\ YieldNow
    /\ UNCHANGED <<persistent, ptr, ScanRegisters, history>>

\* woken by a set, or by the clock: then the bits may have come all the same
WokenUp(t) ==
    /\ At(t, "resume") /\ Active(t) /\ ~ Delayed(t)
    /\ IF ~ opaque[t].unblocked /\ Satisfied(t) THEN Consume(t)
       ELSE UNCHANGED <<bits, txDone, ptr>>
    /\ Goto(t, IF opaque[t].unblocked \/ Satisfied(t) THEN "ok" ELSE "timeout")
    /\ UNCHANGED <<schedVars, results, original, ScanRegisters, history>>

\* a wait keeps the value of its event node until its result is recorded
Resume(t) == WokenUp(t) /\ This(t).op = "wait" /\ UNCHANGED opaque

(***************************************************************************)
(* set_event_group_bits.                                                   *)
(***************************************************************************)
BeginSet(t) ==
    /\ At(t, "call") /\ Active(t) /\ ~ replaying[t] /\ This(t).op # "wait"
    /\ ptr' = [ptr EXCEPT ![t] = 0]
    /\ Goto(t, IF This(t).op = "sync" THEN "original" ELSE "set")
    /\ UNCHANGED <<schedVars, persistent, ScanRegisters, history>>

\* (mutant) the bits are read before they are set
SetTxReadFirst(t) ==
    /\ At(t, "set")
    /\ RunTx(t, bits \cup This(t).set)
    /\ shot' = bits /\ todo' = wait[Waiters] /\ toClear' = {} /\ yld' = FALSE
    /\ Goto(t, "scan")
    /\ UNCHANGED <<schedVars, opaque, results, original, history>>

\* the bits are set and the waiting tasks looked at one after the other
SetTx(t) ==
    /\ At(t, "set")
    /\ RunTx(t, bits \cup This(t).set)
    /\ shot' = bits' /\ todo' = wait[Waiters] /\ toClear' = {} /\ yld' = FALSE
    /\ Goto(t, "scan")
    /\ UNCHANGED <<schedVars, opaque, results, original, history>>

Unblocks(w) == WaitConditionOk(shot, opaque[w].bits, opaque[w].all)

Hits == {i \in DOMAIN todo : Unblocks(todo[i])}

\* the next task to be released: its value is overwritten outside any log
MarkWaiter(t) ==
    /\ At(t, "scan") /\ Hits # {}
    /\ LET i == CHOOSE i \in Hits : \A j \in Hits : i <= j
           w == todo[i]
       IN  /\ opaque' = [opaque EXCEPT ![w] = [bits |-> shot, clear |-> FALSE, all |-> FALSE,
                                               unblocked |-> TRUE]]
           /\ toClear' = IF opaque[w].clear THEN toClear \cup opaque[w].bits ELSE toClear
           /\ yld' = (yld \/ Prio[w] < Prio[t])
           /\ todo' = SubSeq(todo, i, Len(todo))
    /\ Goto(t, "remove")
    /\ UNCHANGED <<schedVars, bits, results, txDone, original, ptr, shot, history>>

\* (mutant) the task stays on the list
RemoveNobody(t) ==
    /\ At(t, "remove")
    /\ todo' = Tail(todo)
    /\ Goto(t, "scan")
    /\ UNCHANGED <<schedVars, persistent, ptr, shot, toClear, yld, history>>

RemoveWaiter(t) ==
    /\ At(t, "remove")
    /\ Wake(Head(todo), Waiters)
    /\ released' = [released EXCEPT ![Head(todo)] = TRUE]
    /\ todo' = Tail(todo)
    /\ Goto(t, "scan")
    /\ UNCHANGED <<persistent, ptr, shot, toClear, yld, failed>>

EndScan(t) ==
    /\ At(t, "scan") /\ Hits = {}
    /\ Goto(t, "clear")
    /\ UNCHANGED <<schedVars, persistent, ptr, ScanRegisters, history>>

\* where a set or a sync goes that need not wait
Leave(t) == Goto(t, IF yld THEN "setyield" ELSE "ok")

\* the bits that the released tasks wanted cleared
ClearTx(t) ==
    /\ At(t, "clear")
    /\ RunTx(t, bits \ toClear)
    /\ IF This(t).op = "sync" THEN Goto(t, "decide") ELSE Leave(t)
    /\ UNCHANGED <<schedVars, opaque, results, original, ScanRegisters, history>>

(***************************************************************************)
(* sync_event_group_bits.                                                  *)
(***************************************************************************)
OriginalTx(t) ==
    /\ At(t, "original")
    /\ RunTx(t, bits)
    /\ original' = IF ptr[t] < txDone[t] THEN original ELSE [original EXCEPT ![t] = bits]
    /\ Goto(t, "set")
    /\ UNCHANGED <<schedVars, opaque, results, ScanRegisters, history>>

\* (mutant) any of the bits will do
MetAny(t) == This(t).for \cap (original[t] \cup This(t).set) # {}

Met(t) == This(t).for \subseteq original[t] \cup This(t).set

\* the last one to arrive clears the bits
SyncMet(t) ==
    /\ At(t, "decide") /\ Met(t)
    /\ RunTx(t, bits \ This(t).for)
    /\ Leave(t)
    /\ UNCHANGED <<schedVars, opaque, results, original, ScanRegisters, history>>

\* the switch that the set has asked for comes at the end of the critical
\* section, before the one by which the sync gives way
SyncBlock(t) ==
    /\ At(t, "decide") /\ ~ Met(t) /\ This(t).ticks # 0
    /\ Sleep(t, TRUE, TRUE)
    /\ Goto(t, IF yld THEN "pended" ELSE "yield")
    /\ UNCHANGED <<bits, results, txDone, original, ptr, ScanRegisters, history>>

SyncPoll(t) ==
    /\ At(t, "decide") /\ ~ Met(t) /\ This(t).ticks = 0
    /\ Leave(t)
    /\ UNCHANGED <<schedVars, persistent, ptr, ScanRegisters, history>>

\* a sync forgets the value of its event node as soon as it is awake
ResumeSync(t) ==
    /\ WokenUp(t) /\ This(t).op = "sync"
    /\ opaque' = [opaque EXCEPT ![t] = Zero]

\* syscall_end!: the result is recorded and the call's transactions forgotten;
\* behind that a wait resets the value of its event node (a failure in between
\* leaves that to Replay, which passes over the wait first of all)
EndCall(t) ==
    /\ cur = t /\ pc[t] \in {"ok", "timeout"}
    /\ results' = [results EXCEPT ![t] = Append(@, pc[t])]
    /\ txDone' = [txDone EXCEPT ![t] = 0]
    /\ opaque' = [opaque EXCEPT ![t] = IF This(t).op = "wait" THEN Zero ELSE @]
    /\ released' = [released EXCEPT ![t] = FALSE]
    /\ Goto(t, "call")
    /\ UNCHANGED <<schedVars, bits, original, ptr, ScanRegisters, failed>>

\* the task has made its calls and sleeps for good, as an application would let it:
\* task_exit_error, where a function that returns ends, keeps the processor
\* for ever.  (The idle task spins.)
Finished(t) ==
    /\ cur = t /\ ~ Active(t) /\ t # Idle
    /\ \/ /\ pc[t] = "over"
          /\ YieldNow
          /\ UNCHANGED <<pc, replaying>>
       \/ /\ pc[t] = "call"
          /\ ring' = RemoveFromReadyList(t)
          /\ AddToDelayedList(t, Never)
          /\ Goto(t, "over")
          /\ UNCHANGED <<cur, wait>>
    /\ UNCHANGED <<persistent, ptr, ScanRegisters, history>>

Tick ==
    /\ ~ InCritical
    /\ TickAndSwitch
    /\ UNCHANGED <<persistent, registers, history>>

PowerFailure ==
    /\ Reschedule
    /\ pc' = [t \in Task |-> "call"] /\ replaying' = [t \in Task |-> TRUE]
    /\ ptr' = [t \in Task |-> 0]
    /\ shot' = {} /\ todo' = <<>> /\ toClear' = {} /\ yld' = FALSE
    /\ failed' = TRUE
    /\ UNCHANGED <<persistent, released>>

Init ==
    /\ SchedInit
    /\ bits = {}
    /\ opaque = [t \in Task |-> Zero] /\ results = [t \in Task |-> <<>>]
    /\ txDone = [t \in Task |-> 0] /\ original = [t \in Task |-> {}]
    /\ pc = [t \in Task |-> "call"] /\ ptr = [t \in Task |-> 0]
    /\ replaying = [t \in Task |-> FALSE]
    /\ shot = {} /\ todo = <<>> /\ toClear = {} /\ yld = FALSE
    /\ released = [t \in Task |-> FALSE] /\ failed = FALSE

Step(t) ==
    \/ Replay(t)
    \/ BeginWait(t) \/ FindBits(t) \/ Poll(t) \/ Block(t) \/ Yield(t) \/ Resume(t)
    \/ BeginSet(t) \/ SetTx(t) \/ MarkWaiter(t) \/ RemoveWaiter(t) \/ EndScan(t) \/ ClearTx(t)
    \/ OriginalTx(t) \/ SyncMet(t) \/ SyncBlock(t) \/ SyncPoll(t) \/ ResumeSync(t)
    \/ EndCall(t) \/ Finished(t)

Next == (\E t \in Task : Step(t)) \/ Tick \/ PowerFailure

Spec == Init /\ [][Next]_vars

\* a task that is given the processor again and again gets on with its code,
\* and the tick interrupt keeps coming
Fairness == (\A t \in Task : SF_vars(Step(t))) /\ WF_vars(Tick)

FairSpec == Spec /\ Fairness

(***************************************************************************)
(* Properties.                                                             *)
(***************************************************************************)
\* Every variable keeps its type; no call runs more transactions than it has.
TypeOK ==
    /\ SchedTypeOK /\ ListsAgree
    /\ bits \subseteq Bit /\ opaque \in [Task -> Opaque]
    /\ txDone \in [Task -> 0 .. 4] /\ original \in [Task -> SUBSET Bit]
    /\ toClear \subseteq Bit /\ todo \in Seq(Task)

\* a set or sync whose bits are set and whose waiting tasks are yet to be woken
OwesRelease(t) ==
    /\ ~ Delayed(t) /\ Active(t) /\ This(t).op # "wait"
    /\ pc[t] \in {"call", "original", "set", "scan", "remove", "clear"}
    /\ txDone[t] >= IF This(t).op = "sync" THEN 2 ELSE 1

\* No task sleeps on bits that are there, except while a set that will wake it
\* is under way, a power failure in the middle of that set included.  After a
\* power failure this is not so of a sync, which goes by the bits it found
\* first, and of a wait that a set had marked and not yet taken off the list:
\* its node holds the bits of that set and no longer the ones it waits for.
NobodySleepsOnItsBits ==
    \A t \in Task :
        /\ t \in Elems(wait[Waiters]) /\ Satisfied(t)
        /\ failed => This(t).op = "wait" /\ ~ opaque[t].unblocked
        => \E u \in Task : OwesRelease(u)

\* A wait that a set has released does not go back to sleep, wherever the
\* power fails: its event may have been cleared by the set.  After a failure
\* this is so only of the first wait of a user transaction: the repetition of
\* the transaction passes over the earlier waits and erases the set's mark.
ReleasedWaitReturns ==
    [][\A t \in Task :
          /\ released[t] /\ This(t).op = "wait" /\ ~ Delayed(t)
          /\ failed => ~ EarlierWait(t)
          => ~ Delayed(t)']_vars

\* The same of every wait.
LaterWaitReturns ==
    [][\A t \in Task : released[t] /\ This(t).op = "wait" /\ ~ Delayed(t) => ~ Delayed(t)']_vars

\* The same of a sync.
ReleasedSyncReturns ==
    [][\A t \in Task : released[t] /\ This(t).op = "sync" /\ ~ Delayed(t) => ~ Delayed(t)']_vars

\* the task has set its bit in its k-th call
Arrived(t, k) == CallNo(t) > k \/ (CallNo(t) = k /\ txDone[t] >= 2)

\* in its k-th call t waits for the bits that u sets in its k-th call
Expects(t, u, k) ==
    /\ Program[t][k].op = "sync" /\ Program[t][k].ticks # 0
    /\ Program[u][k].op = "sync" /\ Program[u][k].set \subseteq Program[t][k].for

\* What a rendezvous asks of the programs: the bits by which a task is expected
\* are its own, and who meets it in a round has met it in the rounds before,
\* however long that took.
Meeting ==
    /\ Never > 1
    /\ \A t, u \in Task : \A k \in DOMAIN Program[t] \cap DOMAIN Program[u] :
          t # u /\ Expects(t, u, k) =>
              /\ Program[u][k].set # {}
              /\ \A v \in Task \ {u} : \A i \in DOMAIN Program[v] :
                    Program[v][i].set \cap Program[u][k].set = {}
              /\ \A j \in 1 .. k - 1 : /\ Expects(t, u, j) /\ Program[t][j].ticks = Never
                                       /\ Program[u][k].set \subseteq Program[t][j].for

\* No sync that waits returns before every task it waits for has arrived: in the first
\* round whatever fails, in the later ones as long as the power stays on (a
\* failure between a set's wake-ups and its clearing leaves the old bits).
Rendezvous ==
    \A t, u \in Task : \A k \in DOMAIN results[t] \cap DOMAIN Program[u] :
        (k = 1 \/ ~ failed) /\ Expects(t, u, k) /\ results[t][k] = "ok" => Arrived(u, k)

\* Without a power failure every call returns, the ones that wait for ever for
\* each other too.
EveryCallReturns == [](~ failed) => <>(\A t \in Task : ~ Active(t))

=============================================================================
