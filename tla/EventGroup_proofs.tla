-------------------------- MODULE EventGroup_proofs --------------------------
(***************************************************************************)
(* Proofs about EventGroup: its type invariant, that nobody sleeps on bits *)
(* that are set, that a released wait returns, and that syncs meet.        *)
(***************************************************************************)
EXTENDS EventGroup, Sched_proofs, TLAPS

\* places in the code of a task, and the ones inside with_no_interrupt
Places   == {"call", "check", "pended", "yield", "resume", "original", "set", "scan", "remove", "clear",
             "decide", "setyield", "ok", "timeout", "over"}
Critical == {"set", "scan", "remove", "clear", "decide"}
Scanning == {"scan", "remove", "clear"}

IsSync(t) == This(t).op = "sync"

\* The types of the variables.
TypesInv ==
    /\ bits \in SUBSET Bit /\ opaque \in [Task -> Opaque]
    /\ results \in [Task -> Seq({"ok", "timeout"})]
    /\ txDone \in [Task -> Nat] /\ ptr \in [Task -> Nat]
    /\ original \in [Task -> SUBSET Bit]
    /\ pc \in [Task -> Places]
    /\ shot \in SUBSET Bit /\ toClear \in SUBSET Bit /\ todo \in Seq(Task)

\* Where a task is, the call it makes and the transactions it has passed agree.
PlaceOK(t) ==
    /\ pc[t] \notin {"call", "over"} => Active(t) /\ ptr[t] <= txDone[t]
    /\ pc[t] = "check" => This(t).op = "wait" /\ ptr[t] = 0
    /\ pc[t] = "original" => IsSync(t) /\ ptr[t] = 0
    /\ pc[t] = "set" => This(t).op # "wait" /\ ptr[t] = IF IsSync(t) THEN 1 ELSE 0
    /\ pc[t] \in Scanning => This(t).op # "wait" /\ ptr[t] = IF IsSync(t) THEN 2 ELSE 1
    /\ pc[t] = "decide" => IsSync(t) /\ ptr[t] = 3
    /\ pc[t] \in {"pended", "yield", "resume"} => This(t).op # "set" /\ ptr[t] <= 3
    /\ pc[t] = "pended" => IsSync(t)
    /\ txDone[t] <= 4

PlacesInv == \A t \in Task : PlaceOK(t)

\* The lists agree, the idle task never sleeps, the current task sleeps only
\* where it is about to yield, and nobody else is in a critical section.
SchedOK ==
    /\ ListsOK
    /\ Idle \notin Asleep /\ pc[Idle] = "call"
    /\ cur \in Asleep => pc[cur] \in {"pended", "yield", "over"}
    /\ \A t \in Task : pc[t] \in Critical => t = cur

\* While nothing has failed a sync's bits are among the ones it found and set.
OriginalOK(t) ==
    ~ failed =>
        /\ pc[t] \in {"call", "check", "original"} => txDone[t] = 0
        /\ pc[t] = "set" /\ IsSync(t) => bits \subseteq original[t]
        /\ pc[t] \in Scanning \cup {"decide"} /\ IsSync(t) =>
              bits \subseteq original[t] \cup This(t).set

\* The node of a task that waits says what the task waits for, until a set
\* marks it; unless the power fails it is then taken off the list.
WaiterOK(w) ==
    w \in Waiting(Waiters) =>
        /\ Active(w) /\ This(w).op # "set" /\ pc[w] \in {"call", "pended", "yield", "resume"}
        /\ ~ opaque[w].unblocked => /\ opaque[w].bits = This(w).for
                                    /\ opaque[w].all <=> This(w).all \/ IsSync(w)
        /\ opaque[w].unblocked /\ ~ failed => pc[cur] = "remove" /\ w = Head(todo)

\* The tasks that a scan has passed are not to be released.
ScanOK ==
    pc[cur] \in Scanning =>
        /\ shot = bits
        /\ Distinct(todo) /\ Elems(todo) \subseteq Waiting(Waiters)
        /\ \A w \in Waiting(Waiters) \ Elems(todo) : ~ Unblocks(w)
        /\ pc[cur] = "remove" => todo # <<>> /\ opaque[Head(todo)].unblocked
        /\ pc[cur] = "clear" => \A w \in Waiting(Waiters) : ~ Unblocks(w)

\* A wait that has been released carries the mark until it returns, unless the
\* repetition of the user transaction may erase it.
ReleasedOK(t) ==
    released[t] =>
        /\ Active(t)
        /\ This(t).op = "wait" /\ (failed => ~ EarlierWait(t)) =>
              opaque[t].unblocked /\ pc[t] \in {"call", "yield", "resume", "ok"}

\* Only behind a failure is there something to pass over.
ReplayOK == failed \/ \A t \in Task : ~ replaying[t]

EInv ==
    /\ TypesInv /\ PlacesInv /\ SchedOK /\ ScanOK /\ ReplayOK /\ released \in [Task -> BOOLEAN]
    /\ \A t \in Task : OriginalOK(t) /\ WaiterOK(t) /\ ReleasedOK(t)

-----------------------------------------------------------------------------

\* A call of the program is a call.
LEMMA CallType ==
    ASSUME TypesInv, NEW t \in Task, Active(t)
    PROVE  /\ This(t) \in Call
           /\ This(t).for \in SUBSET Bit /\ This(t).set \in SUBSET Bit
           /\ This(t).op \in {"wait", "set", "sync"} /\ This(t).ticks \in 0 .. Never
           /\ This(t).clear \in BOOLEAN /\ This(t).all \in BOOLEAN
<1>1. Program[t] \in Seq(Call) /\ results[t] \in Seq({"ok", "timeout"})
    BY EventGroupAssumption DEF EventGroupAssumption, TypesInv
<1>2. CallNo(t) \in 1 .. Len(Program[t])
    BY <1>1 DEF Active, CallNo
<1>3. This(t) \in Call
    BY <1>1, <1>2 DEF This
<1>4. QED
    BY <1>3 DEF Call

\* The idle task makes no call.
LEMMA IdleFacts ==
    ASSUME TypesInv
    PROVE  Idle \in Task /\ ~ Active(Idle)
<1>1. Idle \in Task /\ Program[Idle] = <<>> /\ results[Idle] \in Seq({"ok", "timeout"})
    BY SchedConstants, EventGroupAssumption DEF EventGroupAssumption, TypesInv
<1>2. QED
    BY <1>1 DEF Active, CallNo

\* Only the end of a call changes which call a task makes.
LEMMA SameCalls ==
    ASSUME UNCHANGED results
    PROVE  \A u \in Task : /\ This(u)' = This(u) /\ (Active(u)' <=> Active(u))
                           /\ IsSync(u)' <=> IsSync(u)
                           /\ EarlierWait(u)' <=> EarlierWait(u)
BY DEF This, Active, CallNo, IsSync, EarlierWait

\* The end of a call changes it for that task.
LEMMA OtherCalls ==
    ASSUME TypesInv, NEW t \in Task, EndCall(t)
    PROVE  \A u \in Task \ {t} : /\ This(u)' = This(u) /\ (Active(u)' <=> Active(u))
                                 /\ IsSync(u)' <=> IsSync(u)
                                 /\ EarlierWait(u)' <=> EarlierWait(u)
<1>1. \A u \in Task \ {t} : results'[u] = results[u]
    BY DEF EndCall, TypesInv
<1>2. QED
    BY <1>1 DEF This, Active, CallNo, IsSync, EarlierWait

\* The task MarkWaiter marks is the first one of todo that is to be released.
Marks(t, i) ==
    /\ i \in DOMAIN todo /\ Unblocks(todo[i])
    /\ \A j \in DOMAIN todo : Unblocks(todo[j]) => i <= j
    /\ opaque' = [opaque EXCEPT ![todo[i]] = [bits |-> shot, clear |-> FALSE, all |-> FALSE,
                                              unblocked |-> TRUE]]
    /\ toClear' = IF opaque[todo[i]].clear THEN toClear \cup opaque[todo[i]].bits ELSE toClear
    /\ todo' = SubSeq(todo, i, Len(todo))
    /\ pc' = [pc EXCEPT ![t] = "remove"]
    /\ UNCHANGED <<schedVars, bits, results, txDone, original, ptr, shot, history>>

\* There is a first one.
LEMMA MarkFacts ==
    ASSUME TypesInv, NEW t \in Task, MarkWaiter(t)
    PROVE  \E i \in DOMAIN todo : Marks(t, i)
<1>1. PICK m \in Hits : \A j \in Hits : m <= j
    <2>1. Hits # {}
        BY DEF MarkWaiter
    <2>2. Hits \in SUBSET Nat
        BY DEF Hits, TypesInv
    <2>3. QED
        BY <2>1, <2>2, LeastElement
<1> DEFINE k == CHOOSE i \in Hits : \A j \in Hits : i <= j
<1>2. k \in Hits /\ \A j \in Hits : k <= j
    BY <1>1
<1>3. /\ opaque' = [opaque EXCEPT ![todo[k]] = [bits |-> shot, clear |-> FALSE, all |-> FALSE,
                                                unblocked |-> TRUE]]
      /\ toClear' = IF opaque[todo[k]].clear THEN toClear \cup opaque[todo[k]].bits ELSE toClear
      /\ todo' = SubSeq(todo, k, Len(todo))
      /\ pc' = [pc EXCEPT ![t] = "remove"]
      /\ UNCHANGED <<schedVars, bits, results, txDone, original, ptr, shot, history>>
    BY DEF MarkWaiter, Goto
<1> HIDE DEF k
<1>4. k \in DOMAIN todo /\ Unblocks(todo[k]) /\ \A j \in DOMAIN todo : Unblocks(todo[j]) => k <= j
    BY <1>2 DEF Hits
<1>5. QED
    BY <1>3, <1>4 DEF Marks

\* Every step keeps the types.
LEMMA TypesStep == EInv /\ [Next]_vars => TypesInv'
<1> SUFFICES ASSUME EInv, [Next]_vars PROVE TypesInv'
    OBVIOUS
<1>0. TypesInv /\ PlacesInv
    BY DEF EInv
<1> USE <1>0 DEF persistent, registers, history, ScanRegisters, Goto, At
<1>1. ASSUME NEW t \in Task, BeginWait(t) \/ BeginSet(t) \/ Poll(t) \/ SyncPoll(t) \/ EndScan(t)
      PROVE  TypesInv'
    <2>1. \E p \in Places : pc' = [pc EXCEPT ![t] = p]
        BY <1>1 DEF BeginWait, BeginSet, Replay, Poll, SyncPoll, EndScan, Leave, Places
    <2>2. pc' \in [Task -> Places]
        BY <2>1 DEF TypesInv
    <2>3. ptr' \in [Task -> Nat]
        BY <1>1 DEF TypesInv, BeginWait, BeginSet, Replay, Poll, SyncPoll, EndScan
    <2>4. UNCHANGED <<bits, opaque, results, txDone, original, shot, todo, toClear>>
        BY <1>1 DEF BeginWait, BeginSet, Replay, Poll, SyncPoll, EndScan
    <2>5. QED
        BY <2>2, <2>3, <2>4 DEF TypesInv
<1>2. ASSUME NEW t \in Task, NEW new \in SUBSET Bit, RunTx(t, new)
      PROVE  ptr' \in [Task -> Nat] /\ txDone' \in [Task -> Nat] /\ bits' \in SUBSET Bit
    BY <1>2 DEF TypesInv, RunTx
<1>3. ASSUME NEW t \in Task, Consume(t)
      PROVE  ptr' \in [Task -> Nat] /\ txDone' \in [Task -> Nat] /\ bits' \in SUBSET Bit
    <2>1. bits \ This(t).for \in SUBSET Bit
        BY DEF TypesInv
    <2>2. QED
        BY <1>2, <1>3, <2>1 DEF Consume, TypesInv
<1>4. ASSUME NEW t \in Task, FindBits(t) PROVE TypesInv'
    BY <1>3, <1>4 DEF FindBits, TypesInv, Places
<1>5. ASSUME NEW t \in Task, Active(t), NEW c \in BOOLEAN, NEW al \in BOOLEAN, Sleep(t, c, al)
      PROVE  opaque' \in [Task -> Opaque]
    <2>1. [bits |-> This(t).for, clear |-> c, all |-> al, unblocked |-> FALSE] \in Opaque
        BY <1>5, CallType DEF Opaque
    <2>2. QED
        BY <1>5, <2>1 DEF Sleep, TypesInv
<1>6. ASSUME NEW t \in Task, Block(t) PROVE TypesInv'
    <2>1. Active(t)
        BY <1>6 DEF Block, PlacesInv, PlaceOK
    <2>2. opaque' \in [Task -> Opaque]
        BY <1>5, <1>6, <2>1, CallType DEF Block
    <2>3. QED
        BY <1>6, <2>2 DEF Block, TypesInv, Places
<1>7. ASSUME NEW t \in Task, SyncBlock(t) PROVE TypesInv'
    <2>1. Active(t)
        BY <1>7 DEF SyncBlock, PlacesInv, PlaceOK
    <2>2. opaque' \in [Task -> Opaque]
        BY <1>5, <1>7, <2>1 DEF SyncBlock
    <2>3. QED
        BY <1>7, <2>2 DEF SyncBlock, TypesInv, Places
<1>8. ASSUME NEW t \in Task, Yield(t) PROVE TypesInv'
    BY <1>8 DEF Yield, TypesInv, Places
<1>9. ASSUME NEW t \in Task, WokenUp(t)
      PROVE  /\ ptr' \in [Task -> Nat] /\ txDone' \in [Task -> Nat] /\ bits' \in SUBSET Bit
             /\ pc' \in [Task -> Places] /\ UNCHANGED <<results, original, ScanRegisters>>
    <2>1. Consume(t) \/ UNCHANGED <<bits, txDone, ptr>>
        BY <1>9 DEF WokenUp
    <2>2. \E p \in {"ok", "timeout"} : pc' = [pc EXCEPT ![t] = p]
        BY <1>9 DEF WokenUp
    <2>3. pc' \in [Task -> Places]
        BY <2>2 DEF TypesInv, Places
    <2>4. QED
        BY <1>3, <1>9, <2>1, <2>3 DEF WokenUp, TypesInv
<1>10. ASSUME NEW t \in Task, Resume(t) PROVE TypesInv'
    BY <1>9, <1>10 DEF Resume, TypesInv
<1>11. ASSUME NEW t \in Task, ResumeSync(t) PROVE TypesInv'
    <2>1. Zero \in Opaque
        BY DEF Zero, Opaque
    <2>2. opaque' \in [Task -> Opaque]
        BY <1>11, <2>1 DEF ResumeSync, TypesInv
    <2>3. QED
        BY <1>9, <1>11, <2>2 DEF ResumeSync, TypesInv
<1>12. ASSUME NEW t \in Task, SetTx(t) PROVE TypesInv'
    <2>1. bits \cup This(t).set \in SUBSET Bit
        BY <1>12, CallType DEF SetTx, PlacesInv, PlaceOK, TypesInv
    <2>2. bits' \in SUBSET Bit /\ ptr' \in [Task -> Nat] /\ txDone' \in [Task -> Nat]
        BY <1>2, <1>12, <2>1 DEF SetTx
    <2>3. shot' = bits' /\ todo' = wait[Waiters] /\ toClear' = {} /\ pc' = [pc EXCEPT ![t] = "scan"]
          /\ UNCHANGED <<opaque, results, original>>
        BY <1>12 DEF SetTx
    <2>4. wait[Waiters] \in Seq(Task)
        BY EventGroupAssumption DEF EInv, SchedOK, ListsOK, SchedTypeOK, EventGroupAssumption
    <2>5. QED
        BY <2>2, <2>3, <2>4 DEF TypesInv, Places
<1>13. ASSUME NEW t \in Task, MarkWaiter(t) PROVE TypesInv'
    <2>1. PICK i \in DOMAIN todo : Marks(t, i)
        BY <1>13, MarkFacts
    <2>2. todo[i] \in Task /\ opaque[todo[i]].bits \in SUBSET Bit
        BY DEF TypesInv, Opaque
    <2>3. todo' \in Seq(Task)
        <3>1. todo \in Seq(Task) /\ i \in 1 .. Len(todo) /\ Len(todo) \in Nat
            BY DEF TypesInv
        <3>2. SubSeq(todo, i, Len(todo)) \in Seq(Task)
            BY <3>1
        <3>3. QED
            BY <2>1, <3>2 DEF Marks
    <2>4. [bits |-> shot, clear |-> FALSE, all |-> FALSE, unblocked |-> TRUE] \in Opaque
        BY DEF TypesInv, Opaque
    <2>5. opaque' \in [Task -> Opaque]
        BY <2>1, <2>2, <2>4 DEF Marks, TypesInv
    <2>6. QED
        BY <2>1, <2>2, <2>3, <2>5 DEF Marks, TypesInv, Places
<1>14. ASSUME NEW t \in Task, RemoveWaiter(t) PROVE TypesInv'
    <2>1. todo # <<>>
        BY <1>14 DEF RemoveWaiter, EInv, ScanOK, Scanning
    <2>2. Tail(todo) \in Seq(Task)
        BY <2>1 DEF TypesInv
    <2>3. QED
        BY <1>14, <2>2 DEF RemoveWaiter, TypesInv, Places
<1>15. ASSUME NEW t \in Task, ClearTx(t) \/ SyncMet(t) PROVE TypesInv'
    <2>1. \E X : RunTx(t, bits \ X)
        BY <1>15 DEF ClearTx, SyncMet
    <2>2. bits' \in SUBSET Bit /\ ptr' \in [Task -> Nat] /\ txDone' \in [Task -> Nat]
        <3>1. \A X : bits \ X \in SUBSET Bit
            BY DEF TypesInv
        <3>2. QED
            BY <1>2, <2>1, <3>1
    <2>3. \E p \in Places : pc' = [pc EXCEPT ![t] = p]
        BY <1>15 DEF ClearTx, SyncMet, Leave, Places
    <2>4. pc' \in [Task -> Places]
        BY <2>3 DEF TypesInv
    <2>5. QED
        BY <1>15, <2>2, <2>4 DEF ClearTx, SyncMet, TypesInv
<1>16. ASSUME NEW t \in Task, OriginalTx(t) PROVE TypesInv'
    <2>1. bits' \in SUBSET Bit /\ ptr' \in [Task -> Nat] /\ txDone' \in [Task -> Nat]
        BY <1>2, <1>16 DEF OriginalTx, TypesInv
    <2>2. QED
        BY <1>16, <2>1 DEF OriginalTx, TypesInv, Places
<1>17. ASSUME NEW t \in Task, EndCall(t) PROVE TypesInv'
    <2>1. opaque' \in [Task -> Opaque]
        <3>1. Zero \in Opaque
            BY DEF Zero, Opaque
        <3>2. QED
            BY <1>17, <3>1 DEF EndCall, TypesInv
    <2>2. results' \in [Task -> Seq({"ok", "timeout"})]
        <3>1. Append(results[t], pc[t]) \in Seq({"ok", "timeout"})
            BY <1>17 DEF EndCall, TypesInv
        <3>2. QED
            BY <1>17, <3>1 DEF EndCall, TypesInv
    <2>3. txDone' \in [Task -> Nat] /\ pc' \in [Task -> Places]
        BY <1>17 DEF EndCall, TypesInv, Places
    <2>4. QED
        BY <1>17, <2>1, <2>2, <2>3 DEF EndCall, TypesInv
<1>r. ASSUME NEW t \in Task, Replay(t) PROVE TypesInv'
    <2>1. Zero \in Opaque
        BY DEF Zero, Opaque
    <2>2. opaque' \in [Task -> Opaque]
        BY <1>r, <2>1 DEF Replay, TypesInv
    <2>3. QED
        BY <1>r, <2>2 DEF Replay, TypesInv
<1>18. ASSUME NEW t \in Task, Finished(t) PROVE TypesInv'
    BY <1>18 DEF Finished, TypesInv, Places
<1>19. CASE Tick
    BY <1>19 DEF Tick, TypesInv
<1>20. CASE PowerFailure
    BY <1>20 DEF PowerFailure, TypesInv, Places
<1>21. CASE UNCHANGED vars
    BY <1>21 DEF vars, TypesInv
<1>22. QED
    BY <1>1, <1>4, <1>6, <1>7, <1>8, <1>10, <1>11, <1>12, <1>13, <1>14, <1>15, <1>16, <1>17, <1>18,
       <1>19, <1>20, <1>21, <1>r DEF Next, Step

\* What RunTx does to the counters of a call that is under way.
LEMMA RunTxFacts ==
    ASSUME TypesInv, NEW t \in Task, PlaceOK(t), pc[t] \notin {"call", "over"}, ptr[t] <= 3,
           NEW new, RunTx(t, new)
    PROVE  /\ ptr'[t] = ptr[t] + 1 /\ ptr'[t] <= txDone'[t]
           /\ txDone'[t] \in txDone[t] .. 4
           /\ \A u \in Task \ {t} : ptr'[u] = ptr[u] /\ txDone'[u] = txDone[u]
           /\ bits' \in {bits, new}
           /\ ptr[t] >= txDone[t] => bits' = new
BY DEF TypesInv, PlaceOK, RunTx

\* The same of a wait that takes its bits.
LEMMA ConsumeFacts ==
    ASSUME TypesInv, NEW t \in Task, PlaceOK(t), pc[t] \notin {"call", "over"}, ptr[t] <= 3,
           Consume(t) \/ UNCHANGED <<bits, txDone, ptr>>
    PROVE  /\ ptr'[t] <= txDone'[t] /\ txDone'[t] \in txDone[t] .. 4
           /\ \A u \in Task \ {t} : ptr'[u] = ptr[u] /\ txDone'[u] = txDone[u]
           /\ bits' \subseteq bits
<1>1. CASE UNCHANGED <<bits, txDone, ptr>>
    BY <1>1 DEF TypesInv, PlaceOK
<1>2. CASE RunTx(t, bits \ This(t).for)
    BY <1>2, RunTxFacts
<1>3. QED
    BY <1>1, <1>2 DEF Consume

\* Every step keeps places, calls and counters in step.
LEMMA PlacesStep == EInv /\ [Next]_vars => PlacesInv'
<1> SUFFICES ASSUME EInv, [Next]_vars PROVE PlacesInv'
    OBVIOUS
<1>0. TypesInv /\ PlacesInv
    BY DEF EInv
\* a task whose call, place and counters are left alone
<1>1. ASSUME NEW u \in Task, pc'[u] = pc[u], ptr'[u] = ptr[u], txDone'[u] = txDone[u],
             This(u)' = This(u), Active(u)' <=> Active(u)
      PROVE  PlaceOK(u)'
    BY <1>0, <1>1 DEF PlacesInv, PlaceOK, IsSync
\* a step of t
<1>2. ASSUME NEW t \in Task, UNCHANGED results, PlaceOK(t)',
             \A u \in Task \ {t} : pc'[u] = pc[u] /\ ptr'[u] = ptr[u] /\ txDone'[u] = txDone[u]
      PROVE  PlacesInv'
    BY <1>1, <1>2, SameCalls DEF PlacesInv
\* a call that is about to return
<1>r. ASSUME NEW t \in Task, Active(t), UNCHANGED results, pc'[t] \in {"ok", "timeout", "setyield"},
             ptr'[t] <= txDone'[t], txDone'[t] \in txDone[t] .. 4
      PROVE  PlaceOK(t)'
    BY <1>0, <1>r, SameCalls DEF PlaceOK, Scanning, TypesInv
<1> USE <1>0 DEF persistent, registers, history, ScanRegisters, Goto, At
<1>p. ASSUME NEW t \in Task, Replay(t) PROVE PlacesInv'
    <2>1. UNCHANGED <<results, txDone, pc, ptr>>
        BY <1>p DEF Replay
    <2>2. QED
        BY <1>1, <2>1, SameCalls DEF PlacesInv
<1>3. ASSUME NEW t \in Task, BeginWait(t) \/ BeginSet(t) PROVE PlacesInv'
    <2>1. PlaceOK(t)'
        BY <1>3, SameCalls, CallType, SMTT(20)
           DEF TypesInv, PlacesInv, PlaceOK, BeginWait, BeginSet, Replay, Places, IsSync, Scanning
    <2>2. QED
        BY <1>2, <1>3, <2>1 DEF TypesInv, BeginWait, BeginSet, Replay
<1>4. ASSUME NEW t \in Task, FindBits(t) PROVE PlacesInv'
    <2>1. /\ ptr'[t] <= txDone'[t] /\ txDone'[t] \in txDone[t] .. 4
          /\ \A u \in Task \ {t} : ptr'[u] = ptr[u] /\ txDone'[u] = txDone[u]
        BY <1>4, ConsumeFacts DEF FindBits, PlacesInv, PlaceOK
    <2>2. PlaceOK(t)'
        <3>1. Active(t) /\ UNCHANGED results /\ pc'[t] = "ok"
            BY <1>4 DEF TypesInv, PlacesInv, PlaceOK, FindBits
        <3>2. QED
            BY <1>r, <2>1, <3>1
    <2>3. QED
        BY <1>2, <1>4, <2>1, <2>2 DEF TypesInv, FindBits
<1>5. ASSUME NEW t \in Task, Poll(t) \/ SyncPoll(t) \/ EndScan(t) PROVE PlacesInv'
    <2>1. PlaceOK(t)'
        BY <1>5, SameCalls
           DEF TypesInv, PlacesInv, PlaceOK, Poll, SyncPoll, EndScan, Leave, IsSync, Scanning
    <2>2. QED
        BY <1>2, <1>5, <2>1 DEF TypesInv, Poll, SyncPoll, EndScan, Leave
<1>6. ASSUME NEW t \in Task, Block(t) \/ SyncBlock(t) PROVE PlacesInv'
    <2>1. PlaceOK(t)'
        <3>1. /\ UNCHANGED <<results, txDone, ptr>>
              /\ pc[t] = "check" \/ pc[t] = "decide"
            BY <1>6 DEF Block, SyncBlock
        <3>2. pc'[t] \in {"pended", "yield"} /\ (pc'[t] = "pended" => IsSync(t))
            BY <1>6 DEF Block, SyncBlock, TypesInv, PlacesInv, PlaceOK
        <3>3. /\ Active(t) /\ ptr[t] <= txDone[t] /\ This(t).op # "set" /\ ptr[t] <= 3 /\ txDone[t] <= 4
            <4>1. /\ pc[t] = "check" => This(t).op = "wait" /\ ptr[t] = 0
                  /\ pc[t] = "decide" => This(t).op = "sync" /\ ptr[t] = 3
                  /\ Active(t) /\ ptr[t] <= txDone[t] /\ txDone[t] <= 4
                BY <3>1 DEF PlacesInv, PlaceOK, IsSync
            <4>2. QED
                BY <3>1, <4>1
        <3>4. QED
            BY <3>1, <3>2, <3>3, SameCalls DEF PlaceOK, Scanning
    <2>2. QED
        BY <1>2, <1>6, <2>1 DEF TypesInv, Block, SyncBlock
<1>7. ASSUME NEW t \in Task, Yield(t) PROVE PlacesInv'
    <2>1. PlaceOK(t)'
        BY <1>7, SameCalls DEF TypesInv, PlacesInv, PlaceOK, Yield, IsSync, Scanning
    <2>2. QED
        BY <1>2, <1>7, <2>1 DEF TypesInv, Yield
<1>8. ASSUME NEW t \in Task, Resume(t) \/ ResumeSync(t) PROVE PlacesInv'
    <2>1. /\ Consume(t) \/ UNCHANGED <<bits, txDone, ptr>>
          /\ pc[t] = "resume" /\ UNCHANGED results
          /\ \E p \in {"ok", "timeout"} : pc' = [pc EXCEPT ![t] = p]
        BY <1>8 DEF Resume, ResumeSync, WokenUp
    <2>2. /\ ptr'[t] <= txDone'[t] /\ txDone'[t] \in txDone[t] .. 4
          /\ \A u \in Task \ {t} : ptr'[u] = ptr[u] /\ txDone'[u] = txDone[u]
        BY <2>1, ConsumeFacts DEF PlacesInv, PlaceOK
    <2>3. PlaceOK(t)'
        <3>1. Active(t) /\ pc'[t] \in {"ok", "timeout"}
            BY <2>1 DEF TypesInv, PlacesInv, PlaceOK
        <3>2. QED
            BY <1>r, <2>1, <2>2, <3>1
    <2>4. QED
        BY <1>2, <2>1, <2>2, <2>3 DEF TypesInv
<1>9. ASSUME NEW t \in Task, SetTx(t) \/ ClearTx(t) \/ SyncMet(t) \/ OriginalTx(t) PROVE PlacesInv'
    <2>1. /\ \E new : RunTx(t, new)
          /\ UNCHANGED results
        BY <1>9 DEF SetTx, ClearTx, SyncMet, OriginalTx
    <2>2. /\ ptr'[t] = ptr[t] + 1 /\ ptr'[t] <= txDone'[t] /\ txDone'[t] \in txDone[t] .. 4
          /\ \A u \in Task \ {t} : ptr'[u] = ptr[u] /\ txDone'[u] = txDone[u]
        <3>1. pc[t] \notin {"call", "over"} /\ ptr[t] <= 3
            BY <1>9 DEF SetTx, ClearTx, SyncMet, OriginalTx, PlacesInv, PlaceOK, Scanning, TypesInv
        <3>2. QED
            BY <2>1, <3>1, RunTxFacts DEF PlacesInv
    <2>3. PlaceOK(t)'
        <3>1. Active(t) /\ Active(t)' /\ This(t)' = This(t) /\ (IsSync(t)' <=> IsSync(t))
            BY <1>9, <2>1, SameCalls DEF SetTx, ClearTx, SyncMet, OriginalTx, PlacesInv, PlaceOK
        <3>2. CASE OriginalTx(t)
            <4>1. pc[t] = "original" /\ pc'[t] = "set" /\ IsSync(t) /\ ptr[t] = 0
                BY <3>2 DEF OriginalTx, PlacesInv, PlaceOK, TypesInv
            <4>2. QED
                BY <2>2, <3>1, <4>1 DEF PlaceOK, Scanning, IsSync
        <3>3. CASE SetTx(t)
            <4>1. /\ pc[t] = "set" /\ pc'[t] = "scan"
                  /\ This(t).op # "wait" /\ ptr[t] = IF IsSync(t) THEN 1 ELSE 0
                BY <3>3 DEF SetTx, PlacesInv, PlaceOK, TypesInv
            <4>2. QED
                BY <2>2, <3>1, <4>1 DEF PlaceOK, Scanning
        <3>4. CASE ClearTx(t) /\ IsSync(t)
            <4>1. pc[t] = "clear" /\ pc'[t] = "decide" /\ ptr[t] = 2
                BY <3>4 DEF ClearTx, IsSync, PlacesInv, PlaceOK, TypesInv, Scanning
            <4>2. QED
                BY <2>2, <3>1, <3>4, <4>1 DEF PlaceOK, Scanning
        <3>5. CASE (ClearTx(t) /\ ~ IsSync(t)) \/ SyncMet(t)
            <4>1. pc'[t] \in {"ok", "setyield"}
                BY <3>5 DEF ClearTx, SyncMet, IsSync, Leave, TypesInv
            <4>2. QED
                BY <1>r, <2>1, <2>2, <3>1, <4>1
        <3>6. QED
            BY <1>9, <3>2, <3>3, <3>4, <3>5
    <2>4. QED
        BY <1>2, <1>9, <2>1, <2>2, <2>3 DEF TypesInv, SetTx, ClearTx, SyncMet, OriginalTx, Leave
<1>10. ASSUME NEW t \in Task, MarkWaiter(t) PROVE PlacesInv'
    <2>1. pc' = [pc EXCEPT ![t] = "remove"] /\ pc[t] = "scan" /\ UNCHANGED <<results, txDone, ptr>>
        BY <1>10 DEF MarkWaiter
    <2>2. PlaceOK(t)'
        BY <2>1, SameCalls DEF TypesInv, PlacesInv, PlaceOK, IsSync, Scanning
    <2>3. QED
        BY <1>2, <2>1, <2>2 DEF TypesInv
<1>11. ASSUME NEW t \in Task, RemoveWaiter(t) PROVE PlacesInv'
    <2>1. PlaceOK(t)'
        BY <1>11, SameCalls DEF TypesInv, PlacesInv, PlaceOK, RemoveWaiter, IsSync, Scanning
    <2>2. QED
        BY <1>2, <1>11, <2>1 DEF TypesInv, RemoveWaiter
<1>12. ASSUME NEW t \in Task, EndCall(t) PROVE PlacesInv'
    <2>1. \A u \in Task \ {t} : pc'[u] = pc[u] /\ ptr'[u] = ptr[u] /\ txDone'[u] = txDone[u]
        BY <1>12 DEF EndCall, TypesInv
    <2>2. PlaceOK(t)'
        BY <1>12 DEF EndCall, PlaceOK, TypesInv, Scanning
    <2>3. QED
        BY <1>1, <1>12, <2>1, <2>2, OtherCalls DEF PlacesInv
<1>13. ASSUME NEW t \in Task, Finished(t) PROVE PlacesInv'
    <2>1. PlaceOK(t)'
        BY <1>13, SameCalls DEF TypesInv, PlacesInv, PlaceOK, Finished, IsSync, Scanning
    <2>2. QED
        BY <1>2, <1>13, <2>1 DEF TypesInv, Finished
<1>14. CASE Tick
    BY <1>1, <1>14, SameCalls DEF Tick, PlacesInv
<1>15. CASE PowerFailure
    <2>1. ASSUME NEW t \in Task PROVE PlaceOK(t)'
        BY <1>15 DEF PowerFailure, PlacesInv, PlaceOK, Scanning
    <2>2. QED
        BY <2>1 DEF PlacesInv
<1>16. CASE UNCHANGED vars
    BY <1>1, <1>16, SameCalls DEF vars, PlacesInv
<1>17. QED
    BY <1>3, <1>4, <1>5, <1>6, <1>7, <1>8, <1>9, <1>10, <1>11, <1>12, <1>13, <1>14, <1>15, <1>16, <1>p
       DEF Next, Step

-----------------------------------------------------------------------------
(***************************************************************************)
(* What the steps do to the scheduler.                                     *)
(***************************************************************************)

\* The steps that leave the scheduler alone.
QuietStep(t) ==
    \/ BeginWait(t) \/ FindBits(t) \/ Poll(t) \/ Resume(t)
    \/ BeginSet(t) \/ Replay(t) \/ SetTx(t) \/ MarkWaiter(t) \/ EndScan(t) \/ ClearTx(t)
    \/ OriginalTx(t) \/ SyncMet(t) \/ SyncPoll(t) \/ ResumeSync(t) \/ EndCall(t)

\* What the proofs need of the scheduler's state.
LEMMA SchedOKFacts ==
    ASSUME EInv
    PROVE  /\ TypesInv /\ PlacesInv
           /\ ListsOK /\ Idle \notin Asleep /\ Idle \in Task /\ Waiters \in WaitList
           /\ pc[Idle] = "call" /\ ~ Active(Idle) /\ cur \in Task
           /\ cur \in Asleep => pc[cur] \in {"pended", "yield", "over"}
           /\ Waiting(Waiters) \subseteq Asleep /\ Waiting(Waiters) \subseteq Task
<1>1. TypesInv /\ PlacesInv /\ ListsOK /\ Waiters \in WaitList
    BY EventGroupAssumption DEF EInv, SchedOK, EventGroupAssumption
<1>2. cur \in Task /\ Waiting(Waiters) \subseteq Asleep /\ Asleep \in SUBSET Task
    BY <1>1, SleepersFacts DEF ListsOK, SchedTypeOK
<1>3. QED
    BY <1>1, <1>2, IdleFacts DEF EInv, SchedOK

\* A step is taken by the current task and changes no other task's place.
LEMMA PcStep ==
    ASSUME EInv, NEW t \in Task, Step(t)
    PROVE  cur = t /\ t # Idle /\ \E p \in Places : pc' = [pc EXCEPT ![t] = p]
<1> USE SchedOKFacts DEF At, Goto, Places
<1>p. CASE Replay(t)
    <2>1. pc' = [pc EXCEPT ![t] = "call"]
        BY <1>p DEF Replay, TypesInv
    <2>2. QED
        BY <1>p, <2>1 DEF Replay
<1>1. CASE BeginWait(t) \/ BeginSet(t)
    BY <1>1 DEF BeginWait, BeginSet
<1>2. CASE FindBits(t) \/ Poll(t) \/ Block(t) \/ SyncBlock(t)
    BY <1>2 DEF FindBits, Poll, Block, SyncBlock
<1>3. CASE Yield(t) \/ EndCall(t)
    BY <1>3 DEF Yield, EndCall
<1>4. CASE Resume(t) \/ ResumeSync(t)
    BY <1>4 DEF Resume, ResumeSync, WokenUp
<1>5. CASE SetTx(t) \/ MarkWaiter(t) \/ RemoveWaiter(t) \/ EndScan(t) \/ OriginalTx(t)
    BY <1>5 DEF SetTx, MarkWaiter, RemoveWaiter, EndScan, OriginalTx
<1>6. CASE ClearTx(t) \/ SyncMet(t) \/ SyncPoll(t)
    BY <1>6 DEF ClearTx, SyncMet, SyncPoll, Leave
<1>7. CASE Finished(t)
    <2>1. cur = t /\ t # Idle
        BY <1>7 DEF Finished
    <2>2. CASE pc[t] = "over" /\ UNCHANGED pc
        <3>1. pc' = [pc EXCEPT ![t] = "over"]
            BY <2>2 DEF TypesInv
        <3>2. QED
            BY <2>1, <3>1
    <2>3. CASE pc' = [pc EXCEPT ![t] = "over"]
        BY <2>1, <2>3
    <2>4. QED
        BY <1>7, <2>2, <2>3 DEF Finished
<1>8. QED
    BY <1>1, <1>2, <1>3, <1>4, <1>5, <1>6, <1>7, <1>p DEF Step

\* A quiet step is taken by a task that is awake.
LEMMA QuietEffect ==
    ASSUME EInv, NEW t \in Task, QuietStep(t)
    PROVE  /\ UNCHANGED schedVars /\ cur = t /\ t \notin Asleep
           /\ ListsOK' /\ cur' = cur /\ Asleep' = Asleep /\ Waiting(Waiters)' = Waiting(Waiters)
<1>1. UNCHANGED schedVars /\ cur = t /\ pc[t] \notin {"pended", "yield", "over"}
    BY DEF QuietStep, BeginWait, FindBits, Poll, Resume, BeginSet, Replay, SetTx, MarkWaiter, EndScan, ClearTx,
           OriginalTx, SyncMet, SyncPoll, ResumeSync, WokenUp, EndCall, At
<1>2. QED
    BY <1>1, SchedOKFacts, SameLists

\* A wait or a sync that blocks is awake and goes to sleep on the wait list.
LEMMA BlockEffect ==
    ASSUME EInv, NEW t \in Task, Block(t) \/ SyncBlock(t)
    PROVE  /\ ListsOK' /\ cur = t /\ t \notin Asleep /\ Slept(t, Waiters, This(t).ticks)
           /\ Waiting(Waiters)' = Waiting(Waiters) \cup {t}
           /\ pc'[t] \in {"pended", "yield"} /\ UNCHANGED results
<1>1. /\ cur = t /\ pc[t] \in {"check", "decide"} /\ BlockOnUnsorted(t, Waiters, This(t).ticks)
      /\ UNCHANGED results
    BY DEF Block, SyncBlock, Sleep, At
<1>p. pc'[t] \in {"pended", "yield"}
    BY SchedOKFacts DEF Block, SyncBlock, Goto, TypesInv
<1>2. t \notin Asleep /\ ~ Delayed(t)
    BY <1>1, SchedOKFacts DEF Asleep, Delayed
<1>3. This(t).ticks \in 0 .. Never
    <2>1. Active(t)
        BY <1>1, SchedOKFacts DEF PlacesInv, PlaceOK
    <2>2. QED
        BY <2>1, SchedOKFacts, CallType
<1>4. ListsOK' /\ Slept(t, Waiters, This(t).ticks)
    BY <1>1, <1>2, <1>3, SchedOKFacts, BlockOnFacts
<1>5. QED
    BY <1>1, <1>2, <1>4, <1>p, SchedOKFacts DEF Slept

\* RemoveWaiter wakes the task it has marked.
LEMMA RemoveEffect ==
    ASSUME EInv, NEW t \in Task, RemoveWaiter(t)
    PROVE  /\ ListsOK' /\ cur = t /\ t \notin Asleep /\ todo # <<>>
           /\ Head(todo) \in Task /\ Woken(Head(todo), Waiters)
<1>1. cur = t /\ pc[t] = "remove" /\ Wake(Head(todo), Waiters)
    BY DEF RemoveWaiter, At
<1>2. t \notin Asleep
    BY <1>1, SchedOKFacts
<1>3. todo # <<>> /\ Elems(todo) \subseteq Waiting(Waiters) /\ todo \in Seq(Task)
    BY <1>1 DEF EInv, ScanOK, Scanning, TypesInv
<1>4. Head(todo) \in Waiting(Waiters) /\ Head(todo) \in Task
    <2>1. 1 \in DOMAIN todo /\ Head(todo) = todo[1] /\ Head(todo) \in Task
        BY <1>3
    <2>2. QED
        BY <1>3, <2>1 DEF Elems
<1>5. QED
    BY <1>1, <1>2, <1>3, <1>4, SchedOKFacts, WakeFacts

\* A task that has made its calls goes to sleep for good, or gives way again.
LEMMA FinishedEffect ==
    ASSUME EInv, NEW t \in Task, Finished(t)
    PROVE  /\ ListsOK' /\ Waiting(Waiters)' = Waiting(Waiters) /\ pc'[t] = "over"
           /\ Asleep' \in {Asleep, Asleep \cup {t}}
           /\ cur' = t \/ cur' \notin Asleep'
           /\ \A u \in Task \ {t} : pc'[u] = pc[u]
<1>1. CASE YieldNow /\ pc[t] = "over" /\ UNCHANGED pc
    <2>1. ListsOK' /\ ~ Delayed(cur)' /\ UNCHANGED <<delay, left, wait>>
        BY <1>1, SchedOKFacts, YieldFacts
    <2>2. QED
        BY <1>1, <2>1 DEF Asleep, Waiting, Delayed
<1>2. CASE /\ pc[t] = "call" /\ ring' = RemoveFromReadyList(t) /\ AddToDelayedList(t, Never)
           /\ Goto(t, "over") /\ UNCHANGED <<cur, wait>>
    <2>1. cur = t /\ ~ Delayed(t)
        BY <1>2, SchedOKFacts DEF Finished, Asleep, Delayed
    <2>2. Never \in 0 .. Never
        BY SchedConstants
    <2>3. ListsOK' /\ Asleep' = Asleep \cup {t}
        BY <1>2, <2>1, <2>2, SchedOKFacts, SleepFacts
    <2>4. QED
        BY <1>2, <2>1, <2>3, SchedOKFacts DEF Waiting, Goto, TypesInv
<1>3. QED
    BY <1>1, <1>2 DEF Finished

\* A yield, the tick and a power failure leave a task that is awake as the
\* current one and put nobody to sleep.
LEMMA SwitchEffect ==
    ASSUME EInv, (\E t \in Task : Yield(t)) \/ Tick \/ PowerFailure
    PROVE  /\ ListsOK' /\ cur' \in Task /\ cur' \notin Asleep'
           /\ Asleep' \subseteq Asleep /\ Waiting(Waiters)' \subseteq Waiting(Waiters)
<1>1. CASE TickAndSwitch
    BY <1>1, SchedOKFacts, TickFacts DEF Delayed, Asleep
<1>2. CASE YieldNow \/ Reschedule
    <2>1. ListsOK' /\ ~ Delayed(cur)' /\ cur' \in Task /\ UNCHANGED <<delay, left, wait>>
        BY <1>2, SchedOKFacts, YieldFacts
    <2>2. QED
        BY <2>1 DEF Asleep, Waiting, Delayed
<1>3. QED
    BY <1>1, <1>2 DEF Yield, Tick, PowerFailure

\* Every step keeps the lists in order and the critical section to one task.
LEMMA SchedStep == EInv /\ [Next]_vars => SchedOK'
<1> SUFFICES ASSUME EInv, [Next]_vars PROVE SchedOK'
    OBVIOUS
<1>0. \A u \in Task : pc[u] \in Critical => u = cur
    BY DEF EInv, SchedOK
<1> USE SchedOKFacts
<1>1. ASSUME NEW t \in Task, Step(t) PROVE SchedOK'
    <2>1. cur = t /\ t # Idle /\ \E p \in Places : pc' = [pc EXCEPT ![t] = p]
        BY <1>1, PcStep
    <2>2. pc'[Idle] = "call" /\ \A u \in Task \ {t} : pc'[u] = pc[u] /\ pc'[u] \notin Critical
        BY <1>0, <2>1 DEF TypesInv
    <2>3. CASE QuietStep(t)
        BY <2>1, <2>2, <2>3, QuietEffect DEF SchedOK
    <2>4. CASE Block(t) \/ SyncBlock(t)
        <3>1. pc'[t] \in {"pended", "yield"}
            BY <2>4, BlockEffect
        <3>2. QED
            BY <2>1, <2>2, <2>4, <3>1, BlockEffect DEF SchedOK, Slept, Critical
    <2>5. CASE RemoveWaiter(t)
        BY <2>1, <2>2, <2>5, RemoveEffect DEF SchedOK, Woken
    <2>6. CASE Finished(t)
        BY <2>1, <2>2, <2>6, FinishedEffect DEF SchedOK, Critical
    <2>7. CASE Yield(t)
        <3>1. pc'[t] \in {"yield", "resume", "ok"}
            BY <2>7 DEF Yield, Goto, TypesInv
        <3>2. QED
            BY <2>1, <2>2, <2>7, <3>1, SwitchEffect DEF SchedOK, Critical
    <2>8. QED
        BY <1>1, <2>3, <2>4, <2>5, <2>6, <2>7 DEF Step, QuietStep
<1>2. CASE Tick
    <2>1. UNCHANGED pc /\ pc[cur] \notin Critical
        BY <1>2 DEF Tick, registers, InCritical, Critical
    <2>2. QED
        BY <1>0, <1>2, <2>1, SwitchEffect DEF SchedOK
<1>3. CASE PowerFailure
    <2>1. \A u \in Task : pc'[u] = "call"
        BY <1>3 DEF PowerFailure
    <2>2. QED
        BY <1>3, <2>1, SwitchEffect DEF SchedOK, Critical
<1>4. CASE UNCHANGED vars
    BY <1>0, <1>4, SameLists DEF SchedOK, vars, registers
<1>5. QED
    BY <1>1, <1>2, <1>3, <1>4 DEF Next

-----------------------------------------------------------------------------
(***************************************************************************)
(* The other parts of the invariant.                                       *)
(***************************************************************************)

\* What is left of a sequence from its i-th element on.
LEMMA SuffixFacts ==
    ASSUME NEW X, NEW s \in Seq(X), NEW i \in DOMAIN s
    PROVE  /\ SubSeq(s, i, Len(s)) # <<>> /\ Head(SubSeq(s, i, Len(s))) = s[i]
           /\ Elems(SubSeq(s, i, Len(s))) \subseteq Elems(s)
           /\ \A j \in DOMAIN s : i <= j => s[j] \in Elems(SubSeq(s, i, Len(s)))
           /\ Distinct(s) => Distinct(SubSeq(s, i, Len(s)))
<1> DEFINE r == SubSeq(s, i, Len(s))
           n == Len(s) - i + 1
<1>1. i \in 1 .. Len(s) /\ Len(s) \in Nat /\ DOMAIN s = 1 .. Len(s)
    OBVIOUS
<1>2. r \in Seq(X) /\ Len(r) = n /\ \A k \in 1 .. n : r[k] = s[k + i - 1]
    BY <1>1
<1>3. DOMAIN r = 1 .. n /\ n \in Nat /\ n >= 1
    BY <1>1, <1>2
<1> HIDE DEF r
<1>4. r # <<>> /\ Head(r) = s[i]
    <2>1. r[1] = s[1 + i - 1] /\ 1 + i - 1 = i
        BY <1>1, <1>2, <1>3
    <2>2. Len(r) >= 1
        BY <1>2, <1>3
    <2>3. QED
        BY <1>2, <2>1, <2>2
<1>5. ASSUME NEW k \in DOMAIN r PROVE k + i - 1 \in DOMAIN s /\ r[k] = s[k + i - 1]
    BY <1>1, <1>2, <1>3
<1>6. Elems(r) \subseteq Elems(s)
    BY <1>5 DEF Elems
<1>7. ASSUME NEW j \in DOMAIN s, i <= j PROVE s[j] \in Elems(r)
    <2>1. j - i + 1 \in DOMAIN r /\ (j - i + 1) + i - 1 = j
        BY <1>1, <1>3, <1>7
    <2>2. r[j - i + 1] = s[j]
        BY <1>5, <2>1
    <2>3. QED
        BY <2>1, <2>2 DEF Elems
<1>8. ASSUME Distinct(s) PROVE Distinct(r)
    <2> SUFFICES ASSUME NEW k \in DOMAIN r, NEW m \in DOMAIN r, r[k] = r[m] PROVE k = m
        BY DEF Distinct
    <2>1. k + i - 1 = m + i - 1
        BY <1>5, <1>8 DEF Distinct
    <2>2. QED
        BY <1>1, <1>3, <2>1
<1>9. QED
    BY <1>4, <1>6, <1>7, <1>8 DEF r

\* What is left behind its first element.
LEMMA TailFacts ==
    ASSUME NEW X, NEW s \in Seq(X), s # <<>>
    PROVE  /\ Elems(s) \subseteq Elems(Tail(s)) \cup {Head(s)}
           /\ Elems(Tail(s)) \subseteq Elems(s)
           /\ Distinct(s) => Distinct(Tail(s)) /\ Head(s) \notin Elems(Tail(s))
<1> DEFINE r == Tail(s)
<1>1. /\ r \in Seq(X) /\ Len(s) >= 1 /\ Len(s) \in Nat /\ Len(r) = Len(s) - 1
      /\ \A i \in 1 .. Len(s) - 1 : r[i] = s[i + 1]
      /\ DOMAIN s = 1 .. Len(s) /\ DOMAIN r = 1 .. Len(s) - 1 /\ Head(s) = s[1]
    OBVIOUS
<1> HIDE DEF r
<1>2. ASSUME NEW i \in DOMAIN r PROVE i + 1 \in DOMAIN s /\ r[i] = s[i + 1] /\ i + 1 # 1
    BY <1>1
<1>3. Elems(r) \subseteq Elems(s)
    BY <1>2 DEF Elems
<1>4. Elems(s) \subseteq Elems(r) \cup {Head(s)}
    <2> SUFFICES ASSUME NEW i \in DOMAIN s, i # 1 PROVE s[i] \in Elems(r)
        BY <1>1 DEF Elems
    <2>1. i - 1 \in DOMAIN r /\ r[i - 1] = s[i]
        BY <1>1
    <2>2. QED
        BY <2>1 DEF Elems
<1>5. ASSUME Distinct(s) PROVE Distinct(r) /\ Head(s) \notin Elems(r)
    <2>1. ASSUME NEW i \in DOMAIN r, NEW j \in DOMAIN r, r[i] = r[j] PROVE i = j
        <3>1. i + 1 = j + 1
            BY <1>2, <1>5, <2>1 DEF Distinct
        <3>2. QED
            BY <1>1, <3>1
    <2>2. ASSUME NEW i \in DOMAIN r, r[i] = s[1] PROVE FALSE
        <3>1. 1 \in DOMAIN s
            BY <1>1
        <3>2. QED
            BY <1>2, <1>5, <2>2, <3>1 DEF Distinct
    <2>3. QED
        BY <1>1, <2>1, <2>2 DEF Distinct, Elems
<1>6. QED
    BY <1>3, <1>4, <1>5 DEF r

\* It holds at the start.
LEMMA InitEInv == Init => EInv
<1> SUFFICES ASSUME Init PROVE EInv
    OBVIOUS
<1>1. TypesInv
    <2>1. Zero \in Opaque
        BY DEF Zero, Opaque
    <2>2. QED
        BY <2>1 DEF Init, TypesInv, Places
<1>2. PlacesInv
    BY DEF Init, PlacesInv, PlaceOK, Scanning
<1>3. ListsOK /\ Asleep = {} /\ Waiting(Waiters) = {} /\ cur \in Task
    BY SchedInitFacts, EventGroupAssumption DEF Init, EventGroupAssumption
<1>4. SchedOK
    BY <1>3, SchedConstants DEF Init, SchedOK, Critical
<1>5. ScanOK
    BY <1>3 DEF Init, ScanOK, Scanning
<1>6. \A t \in Task : OriginalOK(t) /\ WaiterOK(t) /\ ReleasedOK(t)
    BY <1>3 DEF Init, OriginalOK, WaiterOK, ReleasedOK, Scanning
<1>7. released \in [Task -> BOOLEAN] /\ ReplayOK
    BY DEF Init, ReplayOK
<1>8. QED
    BY <1>1, <1>2, <1>4, <1>5, <1>6, <1>7 DEF EInv

\* What a step leaves of the other tasks.
LEMMA OtherTasks ==
    ASSUME EInv, NEW t \in Task, Step(t), NEW u \in Task \ {t}
    PROVE  /\ pc'[u] = pc[u] /\ txDone'[u] = txDone[u] /\ original'[u] = original[u]
           /\ This(u)' = This(u) /\ (Active(u)' <=> Active(u)) /\ (IsSync(u)' <=> IsSync(u))
           /\ EarlierWait(u)' <=> EarlierWait(u)
           /\ pc[u] \notin Critical
<1> USE SchedOKFacts
<1>1. cur = t /\ pc'[u] = pc[u] /\ pc[u] \notin Critical
    BY PcStep DEF TypesInv, EInv, SchedOK
<1>2. txDone'[u] = txDone[u]
    <2>1. ASSUME NEW new, RunTx(t, new) PROVE txDone'[u] = txDone[u]
        BY <2>1 DEF RunTx, TypesInv
    <2>2. Consume(t) => txDone'[u] = txDone[u]
        BY <2>1 DEF Consume
    <2>3. CASE BeginWait(t) \/ BeginSet(t) \/ Replay(t) \/ Poll(t) \/ SyncPoll(t) \/ EndScan(t) \/ Yield(t)
               \/ Finished(t) \/ RemoveWaiter(t)
        BY <2>3 DEF BeginWait, BeginSet, Replay, Poll, SyncPoll, EndScan, Yield, Finished, RemoveWaiter, persistent
    <2>4. CASE FindBits(t) \/ Resume(t) \/ ResumeSync(t)
        BY <2>2, <2>4 DEF FindBits, Resume, ResumeSync, WokenUp
    <2>5. CASE SetTx(t) \/ ClearTx(t) \/ OriginalTx(t) \/ SyncMet(t)
        BY <2>1, <2>5 DEF SetTx, ClearTx, OriginalTx, SyncMet
    <2>6. CASE Block(t) \/ SyncBlock(t) \/ MarkWaiter(t)
        BY <2>6 DEF Block, SyncBlock, MarkWaiter
    <2>7. CASE EndCall(t)
        BY <2>7 DEF EndCall, TypesInv
    <2>8. QED
        BY <2>3, <2>4, <2>5, <2>6, <2>7 DEF Step
<1>3. original'[u] = original[u]
    <2>1. CASE OriginalTx(t)
        BY <2>1 DEF OriginalTx, TypesInv
    <2>2. CASE QuietStep(t) /\ ~ OriginalTx(t)
        BY <2>2 DEF QuietStep, BeginWait, FindBits, Poll, Resume, BeginSet, Replay, SetTx, MarkWaiter, EndScan,
                    ClearTx, SyncMet, SyncPoll, ResumeSync, WokenUp, EndCall, persistent
    <2>3. CASE Block(t) \/ SyncBlock(t) \/ RemoveWaiter(t) \/ Yield(t) \/ Finished(t)
        BY <2>3 DEF Block, SyncBlock, RemoveWaiter, Yield, Finished, persistent
    <2>4. QED
        BY <2>1, <2>2, <2>3 DEF Step, QuietStep
<1>4. /\ This(u)' = This(u) /\ (Active(u)' <=> Active(u)) /\ (IsSync(u)' <=> IsSync(u))
      /\ EarlierWait(u)' <=> EarlierWait(u)
    <2>1. CASE EndCall(t)
        BY <2>1, OtherCalls
    <2>2. CASE QuietStep(t) /\ ~ EndCall(t)
        <3>1. UNCHANGED results
            BY <2>2 DEF QuietStep, BeginWait, FindBits, Poll, Resume, BeginSet, Replay, SetTx, MarkWaiter, EndScan,
                    ClearTx, SyncMet, SyncPoll, ResumeSync, WokenUp, OriginalTx, persistent
        <3>2. QED
            BY <3>1, SameCalls
    <2>3. CASE Block(t) \/ SyncBlock(t) \/ RemoveWaiter(t) \/ Yield(t) \/ Finished(t)
        <3>1. UNCHANGED results
            BY <2>3 DEF Block, SyncBlock, RemoveWaiter, Yield, Finished, persistent
        <3>2. QED
            BY <3>1, SameCalls
    <2>4. QED
        BY <2>1, <2>2, <2>3 DEF Step, QuietStep
<1>5. QED
    BY <1>1, <1>2, <1>3, <1>4

\* Only a set adds bits, and only a set's scan and the end of a wait or a
\* sync change the value of an event node.
LEMMA BitsStep ==
    ASSUME EInv, NEW t \in Task, Step(t)
    PROVE  /\ SetTx(t) \/ bits' \subseteq bits
           /\ \A u \in Task \ {t} : MarkWaiter(t) \/ opaque'[u] = opaque[u]
           /\ failed' = failed
           /\ \A u \in Task \ {t} : RemoveWaiter(t) \/ released'[u] = released[u]
<1> USE SchedOKFacts
<1>1. \A X : RunTx(t, bits \ X) => bits' \subseteq bits
    BY DEF RunTx
<1>2. Consume(t) => bits' \subseteq bits
    BY <1>1 DEF Consume
<1>3. SetTx(t) \/ bits' \subseteq bits
    <2>1. CASE BeginWait(t) \/ BeginSet(t) \/ Replay(t) \/ Poll(t) \/ SyncPoll(t) \/ EndScan(t) \/ Yield(t)
               \/ Finished(t) \/ RemoveWaiter(t)
        BY <2>1 DEF BeginWait, BeginSet, Replay, Poll, SyncPoll, EndScan, Yield, Finished, RemoveWaiter, persistent
    <2>2. CASE FindBits(t) \/ Resume(t) \/ ResumeSync(t)
        BY <1>2, <2>2 DEF FindBits, Resume, ResumeSync, WokenUp
    <2>3. CASE ClearTx(t) \/ SyncMet(t)
        BY <1>1, <2>3 DEF ClearTx, SyncMet
    <2>4. CASE OriginalTx(t)
        BY <2>4 DEF OriginalTx, RunTx
    <2>5. CASE Block(t) \/ SyncBlock(t) \/ MarkWaiter(t) \/ EndCall(t)
        BY <2>5 DEF Block, SyncBlock, MarkWaiter, EndCall
    <2>6. QED
        BY <2>1, <2>2, <2>3, <2>4, <2>5 DEF Step
<1>4. \A u \in Task \ {t} : MarkWaiter(t) \/ opaque'[u] = opaque[u]
    <2>1. CASE Block(t) \/ SyncBlock(t)
        BY <2>1 DEF Block, SyncBlock, Sleep, TypesInv
    <2>2. CASE EndCall(t)
        BY <2>2 DEF EndCall, TypesInv
    <2>3. CASE ResumeSync(t)
        BY <2>3 DEF ResumeSync, TypesInv
    <2>p. CASE Replay(t)
        BY <2>p DEF Replay, TypesInv
    <2>4. CASE QuietStep(t) /\ ~ EndCall(t) /\ ~ ResumeSync(t) /\ ~ MarkWaiter(t) /\ ~ Replay(t)
        BY <2>4 DEF QuietStep, BeginWait, FindBits, Poll, Resume, BeginSet, Replay, SetTx, EndScan,
                    ClearTx, SyncMet, SyncPoll, OriginalTx, persistent
    <2>5. CASE RemoveWaiter(t) \/ Yield(t) \/ Finished(t)
        BY <2>5 DEF RemoveWaiter, Yield, Finished, persistent
    <2>6. QED
        BY <2>1, <2>2, <2>3, <2>4, <2>5, <2>p DEF Step, QuietStep
<1>5. failed' = failed /\ (RemoveWaiter(t) \/ EndCall(t) \/ UNCHANGED released)
    <2>1. CASE QuietStep(t)
        BY <2>1 DEF QuietStep, BeginWait, FindBits, Poll, Resume, BeginSet, Replay, SetTx, MarkWaiter, EndScan,
                    ClearTx, SyncMet, SyncPoll, ResumeSync, WokenUp, OriginalTx, EndCall, history
    <2>2. CASE Block(t) \/ SyncBlock(t) \/ RemoveWaiter(t) \/ Yield(t) \/ Finished(t)
        BY <2>2 DEF Block, SyncBlock, RemoveWaiter, Yield, Finished, history
    <2>3. QED
        BY <2>1, <2>2 DEF Step, QuietStep
<1>6. \A u \in Task \ {t} : RemoveWaiter(t) \/ released'[u] = released[u]
    <2>1. released \in [Task -> BOOLEAN]
        BY DEF EInv
    <2>2. CASE EndCall(t)
        <3>1. released' = [released EXCEPT ![t] = FALSE]
            BY <2>2 DEF EndCall
        <3>2. QED
            BY <2>1, <3>1
    <2>3. QED
        BY <1>5, <2>2
<1>7. QED
    BY <1>3, <1>4, <1>5, <1>6

\* While nothing has failed, a sync knows all bits but its own when it starts.
LEMMA OriginalStep == EInv /\ [Next]_vars => \A u \in Task : OriginalOK(u)'
<1> SUFFICES ASSUME EInv, [Next]_vars, NEW u \in Task, ~ failed' PROVE OriginalOK(u)'
    BY DEF OriginalOK
<1>0. OriginalOK(u)
    BY DEF EInv
<1> USE SchedOKFacts
<1>1. ASSUME NEW t \in Task, Step(t) PROVE OriginalOK(u)'
    <2>1. ~ failed
        BY <1>1, BitsStep
    <2>2. CASE u # t
        <3>1. pc'[u] = pc[u] /\ txDone'[u] = txDone[u] /\ pc[u] \notin Critical
            BY <1>1, <2>2, OtherTasks
        <3>2. QED
            BY <1>0, <2>1, <3>1 DEF OriginalOK, Critical, Scanning
    <2>3. CASE u = t
        <3> USE <2>3 DEF At, Goto
        <3>1. CASE pc'[t] \in {"pended", "yield", "resume", "setyield", "ok", "timeout", "over"}
            BY <3>1 DEF OriginalOK, Scanning
        <3>p. CASE Replay(t)
            <4>1. UNCHANGED <<bits, results, txDone, original, pc>>
                BY <3>p DEF Replay
            <4>2. QED
                BY <1>0, <2>1, <4>1, SameCalls DEF OriginalOK
        <3>2. CASE BeginWait(t) \/ BeginSet(t)
            <4>1. pc[t] = "call" /\ txDone'[t] = txDone[t] /\ UNCHANGED results
                BY <3>2 DEF BeginWait, BeginSet, Replay, persistent
            <4>2. pc'[t] \in {"check", "original", "ok"} \/ (pc'[t] = "set" /\ ~ IsSync(t)')
                BY <3>2, <4>1, SameCalls DEF BeginWait, BeginSet, Replay, TypesInv, IsSync
            <4>3. QED
                BY <1>0, <2>1, <4>1, <4>2 DEF OriginalOK, Scanning
        <3>3. CASE OriginalTx(t)
            <4>1. pc[t] = "original" /\ pc'[t] = "set" /\ txDone[t] = 0 /\ ptr[t] = 0
                BY <1>0, <2>1, <3>3 DEF OriginalTx, TypesInv, OriginalOK, PlacesInv, PlaceOK
            <4>2. bits' = bits /\ original'[t] = bits
                BY <3>3, <4>1 DEF OriginalTx, RunTx, TypesInv
            <4>3. QED
                BY <4>1, <4>2 DEF OriginalOK, Scanning
        <3>4. CASE SetTx(t)
            <4>1. /\ pc[t] = "set" /\ pc'[t] = "scan" /\ bits' \subseteq bits \cup This(t).set
                  /\ original' = original /\ UNCHANGED results
                BY <3>4 DEF SetTx, RunTx, TypesInv
            <4>2. IsSync(t)' => bits' \subseteq original'[t] \cup This(t)'.set
                BY <1>0, <2>1, <4>1, SameCalls DEF OriginalOK
            <4>3. QED
                BY <4>1, <4>2 DEF OriginalOK
        <3>5. CASE MarkWaiter(t) \/ RemoveWaiter(t) \/ EndScan(t) \/ ClearTx(t)
            <4>1. /\ pc[t] \in Scanning /\ original' = original /\ UNCHANGED results
                BY <3>5 DEF MarkWaiter, RemoveWaiter, EndScan, ClearTx, persistent, Scanning
            <4>2. bits' \subseteq bits
                BY <3>5 DEF MarkWaiter, RemoveWaiter, EndScan, ClearTx, RunTx, persistent
            <4>3. IsSync(t)' => bits' \subseteq original'[t] \cup This(t)'.set
                BY <1>0, <2>1, <4>1, <4>2, SameCalls DEF OriginalOK
            <4>4. pc'[t] \in Scanning \cup {"decide", "setyield", "ok"}
                BY <3>5 DEF MarkWaiter, RemoveWaiter, EndScan, ClearTx, Leave, Scanning, TypesInv
            <4>5. QED
                BY <4>3, <4>4 DEF OriginalOK, Scanning
        <3>6. CASE EndCall(t)
            <4>1. pc'[t] = "call" /\ txDone'[t] = 0
                BY <3>6 DEF EndCall, TypesInv
            <4>2. QED
                BY <4>1 DEF OriginalOK, Scanning
        <3>7. CASE FindBits(t) \/ Poll(t) \/ Block(t) \/ SyncBlock(t) \/ SyncPoll(t) \/ SyncMet(t)
            <4>1. pc'[t] \in {"pended", "yield", "ok", "setyield"}
                BY <3>7 DEF FindBits, Poll, Block, SyncBlock, SyncPoll, SyncMet, Leave, TypesInv
            <4>2. QED
                BY <3>1, <4>1
        <3>8. CASE Yield(t) \/ Resume(t) \/ ResumeSync(t) \/ Finished(t)
            <4>1. pc'[t] \in {"yield", "resume", "ok", "timeout", "over"}
                BY <3>8 DEF Yield, Resume, ResumeSync, WokenUp, Finished, TypesInv
            <4>2. QED
                BY <3>1, <4>1
        <3>9. QED
            BY <1>1, <3>2, <3>3, <3>4, <3>5, <3>6, <3>7, <3>8, <3>p DEF Step
    <2>4. QED
        BY <2>2, <2>3
<1>2. CASE Tick \/ UNCHANGED vars
    <2>1. UNCHANGED <<bits, results, txDone, original, pc, failed>>
        BY <1>2 DEF Tick, vars, persistent, registers, history
    <2>2. QED
        BY <1>0, <2>1, SameCalls DEF OriginalOK
<1>3. CASE PowerFailure
    BY <1>3 DEF PowerFailure
<1>4. QED
    BY <1>1, <1>2, <1>3 DEF Next

\* The node of a waiting task keeps saying what it waits for.
LEMMA WaiterStep == EInv /\ [Next]_vars => \A w \in Task : WaiterOK(w)'
<1> SUFFICES ASSUME EInv, [Next]_vars, NEW w \in Task, w \in Waiting(Waiters)' PROVE WaiterOK(w)'
    BY DEF WaiterOK
<1>0. WaiterOK(w)
    BY DEF EInv
<1> USE SchedOKFacts
\* a step of another task that does not mark
<1>1. ASSUME NEW t \in Task \ {w}, Step(t), w \in Waiting(Waiters), ~ MarkWaiter(t),
             RemoveWaiter(t) => w # Head(todo)
      PROVE  WaiterOK(w)'
    <2>1. /\ pc'[w] = pc[w] /\ This(w)' = This(w) /\ (Active(w)' <=> Active(w))
          /\ IsSync(w)' <=> IsSync(w)
        BY <1>1, OtherTasks
    <2>2. opaque'[w] = opaque[w] /\ failed' = failed
        BY <1>1, BitsStep
    <2>3. opaque[w].unblocked => failed
        <3>1. pc[cur] = "remove" => RemoveWaiter(t)
            BY <1>1, PcStep DEF Step, BeginWait, FindBits, Poll, Resume, BeginSet, Replay, SetTx, MarkWaiter,
               EndScan, ClearTx, SyncMet, SyncPoll, ResumeSync, WokenUp, OriginalTx, EndCall, Block,
               SyncBlock, Yield, Finished, At
        <3>2. QED
            BY <1>0, <1>1, <3>1 DEF WaiterOK
    <2>4. QED
        BY <1>0, <1>1, <2>1, <2>2, <2>3 DEF WaiterOK
<1>2. ASSUME NEW t \in Task, QuietStep(t) PROVE WaiterOK(w)'
    <2>1. w \in Waiting(Waiters) /\ w # t /\ cur = t /\ cur' = t
        BY <1>2, QuietEffect
    <2>2. CASE MarkWaiter(t)
        <3>1. PICK i \in DOMAIN todo : Marks(t, i)
            BY <2>2, MarkFacts
        <3>2. pc[t] = "scan" /\ pc' = [pc EXCEPT ![t] = "remove"] /\ UNCHANGED <<results, failed>>
            BY <2>2 DEF MarkWaiter, At, Goto, history
        <3>3. pc'[t] = "remove" /\ pc'[w] = pc[w]
            BY <2>1, <3>2 DEF TypesInv
        <3>4. /\ This(w)' = This(w) /\ (Active(w)' <=> Active(w)) /\ (IsSync(w)' <=> IsSync(w))
            BY <3>2, SameCalls
        <3>5. CASE w = todo[i]
            <4>1. opaque'[w].unblocked
                BY <3>1, <3>5 DEF Marks, TypesInv
            <4>2. Head(todo') = w
                <5>1. todo \in Seq(Task)
                    BY DEF TypesInv
                <5>2. todo' = SubSeq(todo, i, Len(todo))
                    BY <3>1 DEF Marks
                <5>3. QED
                    BY <3>5, <5>1, <5>2, SuffixFacts
            <4>3. QED
                BY <1>0, <2>1, <3>3, <3>4, <4>1, <4>2 DEF WaiterOK
        <3>6. CASE w # todo[i]
            <4>1. opaque'[w] = opaque[w]
                BY <3>1, <3>6 DEF Marks, TypesInv
            <4>2. opaque[w].unblocked => failed
                BY <1>0, <2>1, <3>2 DEF WaiterOK
            <4>3. QED
                BY <1>0, <2>1, <3>2, <3>3, <3>4, <4>1, <4>2 DEF WaiterOK
        <3>7. QED
            BY <3>5, <3>6
    <2>3. CASE ~ MarkWaiter(t)
        <3>1. Step(t) /\ ~ RemoveWaiter(t)
            BY <1>2, <2>3 DEF Step, QuietStep, BeginWait, FindBits, Poll, Resume, BeginSet, Replay, SetTx,
               EndScan, ClearTx, SyncMet, SyncPoll, ResumeSync, WokenUp, OriginalTx, EndCall, RemoveWaiter, At
        <3>2. QED
            BY <1>1, <2>1, <2>3, <3>1
    <2>4. QED
        BY <2>2, <2>3
<1>3. ASSUME NEW t \in Task, RemoveWaiter(t) PROVE WaiterOK(w)'
    <2>1. w \in Waiting(Waiters) /\ w # Head(todo)
        BY <1>3, RemoveEffect DEF Woken
    <2>2. w # t /\ Step(t)
        BY <1>3, <2>1, RemoveEffect DEF Step
    <2>3. ~ MarkWaiter(t)
        BY <1>3 DEF RemoveWaiter, MarkWaiter, At
    <2>4. QED
        BY <1>1, <2>1, <2>2, <2>3
<1>4. ASSUME NEW t \in Task, Block(t) \/ SyncBlock(t) PROVE WaiterOK(w)'
    <2>1. Step(t) /\ ~ MarkWaiter(t) /\ ~ RemoveWaiter(t)
        BY <1>4 DEF Step, Block, SyncBlock, MarkWaiter, RemoveWaiter, At
    <2>2. CASE w # t
        BY <1>1, <1>4, <2>1, <2>2, BlockEffect
    <2>3. CASE w = t
        <3>1. PICK c, al : /\ opaque' = [opaque EXCEPT ![t] = [bits |-> This(t).for, clear |-> c, all |-> al,
                                                       unblocked |-> FALSE]]
                           /\ (Block(t) /\ al = This(t).all) \/ (SyncBlock(t) /\ al = TRUE)
            BY <1>4 DEF Block, SyncBlock, Sleep
        <3>2. opaque'[t] = [bits |-> This(t).for, clear |-> c, all |-> al, unblocked |-> FALSE]
            BY <3>1 DEF TypesInv
        <3>3. pc'[t] \in {"pended", "yield"} /\ UNCHANGED results
            BY <1>4, BlockEffect
        <3>4. Active(t) /\ (Block(t) => This(t).op = "wait") /\ (SyncBlock(t) => IsSync(t))
            BY <1>4 DEF Block, SyncBlock, At, PlacesInv, PlaceOK
        <3>5. al <=> This(t).all \/ IsSync(t)
            BY <3>1, <3>4 DEF IsSync
        <3>6. This(t).op # "set"
            BY <1>4, <3>4 DEF IsSync
        <3>7. QED
            BY <2>3, <3>2, <3>3, <3>4, <3>5, <3>6, SameCalls DEF WaiterOK
    <2>4. QED
        BY <2>2, <2>3
<1>5. ASSUME NEW t \in Task, Yield(t) PROVE WaiterOK(w)'
    <2>1. Step(t) /\ ~ MarkWaiter(t) /\ ~ RemoveWaiter(t) /\ w \in Waiting(Waiters)
        BY <1>5, SwitchEffect DEF Step, Yield, MarkWaiter, RemoveWaiter, At
    <2>2. CASE w = t
        <3>1. UNCHANGED <<opaque, results, failed>> /\ pc[t] \in {"pended", "yield", "setyield"} /\ cur = t
            BY <1>5 DEF Yield, persistent, history
        <3>2. pc[t] \in {"pended", "yield"}
            BY <1>0, <2>1, <2>2, <3>1 DEF WaiterOK
        <3>3. pc'[t] \in {"yield", "resume"}
            BY <1>5, <3>2 DEF Yield, Goto, TypesInv
        <3>4. opaque[w].unblocked => failed
            BY <1>0, <2>1, <2>2, <3>1, <3>2 DEF WaiterOK
        <3>5. QED
            BY <1>0, <2>1, <2>2, <3>1, <3>3, <3>4, SameCalls DEF WaiterOK
    <2>3. QED
        BY <1>1, <2>1, <2>2
<1>6. ASSUME NEW t \in Task, Finished(t) PROVE WaiterOK(w)'
    <2>1. Step(t) /\ ~ MarkWaiter(t) /\ ~ RemoveWaiter(t) /\ w \in Waiting(Waiters) /\ ~ Active(t)
        BY <1>6, FinishedEffect DEF Step, Finished, MarkWaiter, RemoveWaiter, At
    <2>2. w # t
        BY <1>0, <2>1 DEF WaiterOK
    <2>3. QED
        BY <1>1, <2>1, <2>2
<1>7. CASE Tick
    <2>1. UNCHANGED <<opaque, results, pc, failed>> /\ pc[cur] # "remove" /\ w \in Waiting(Waiters)
        BY <1>7, SwitchEffect DEF Tick, persistent, registers, history, InCritical
    <2>2. QED
        BY <1>0, <2>1, SameCalls DEF WaiterOK
<1>8. CASE PowerFailure
    <2>1. UNCHANGED <<opaque, results>> /\ failed' /\ w \in Waiting(Waiters) /\ pc'[w] = "call"
        BY <1>8, SwitchEffect DEF PowerFailure, persistent
    <2>2. QED
        BY <1>0, <2>1, SameCalls DEF WaiterOK
<1>9. CASE UNCHANGED vars
    <2>1. UNCHANGED <<opaque, results, pc, failed, cur, todo>> /\ w \in Waiting(Waiters)
        BY <1>9, SameLists DEF vars, persistent, registers, history, schedVars
    <2>2. QED
        BY <1>0, <2>1, SameCalls DEF WaiterOK
<1>10. QED
    BY <1>2, <1>3, <1>4, <1>5, <1>6, <1>7, <1>8, <1>9 DEF Next, Step, QuietStep

\* A scan passes only tasks that are not to be released.
LEMMA ScanStep == EInv /\ [Next]_vars => ScanOK'
<1> SUFFICES ASSUME EInv, [Next]_vars, pc'[cur'] \in Scanning PROVE ScanOK'
    BY DEF ScanOK
<1> USE SchedOKFacts DEF At, Goto
<1>1. ASSUME NEW t \in Task, SetTx(t) PROVE ScanOK'
    <2>1. /\ shot' = bits' /\ todo' = wait[Waiters] /\ pc'[t] = "scan" /\ cur' = t
          /\ Waiting(Waiters)' = Waiting(Waiters)
        BY <1>1, QuietEffect DEF SetTx, TypesInv, QuietStep
    <2>2. Distinct(todo') /\ Elems(todo') = Waiting(Waiters)'
        BY <2>1 DEF ListsOK, ListsAgree, Waiting
    <2>3. QED
        BY <2>1, <2>2 DEF ScanOK
<1>2. ASSUME NEW t \in Task, MarkWaiter(t) PROVE ScanOK'
    <2>1. PICK i \in DOMAIN todo : Marks(t, i)
        BY <1>2, MarkFacts
    <2>2. pc[t] = "scan" /\ cur = t /\ cur' = t /\ Waiting(Waiters)' = Waiting(Waiters)
        BY <1>2, QuietEffect DEF MarkWaiter, QuietStep
    <2>3. pc'[t] = "remove" /\ shot' = shot /\ bits' = bits /\ todo' = SubSeq(todo, i, Len(todo))
        BY <2>1 DEF Marks, TypesInv
    <2>4. /\ shot = bits /\ Distinct(todo) /\ Elems(todo) \subseteq Waiting(Waiters)
          /\ \A w \in Waiting(Waiters) \ Elems(todo) : ~ Unblocks(w)
        BY <2>2 DEF EInv, ScanOK, Scanning
    <2>5. /\ todo' # <<>> /\ Head(todo') = todo[i] /\ Elems(todo') \subseteq Elems(todo)
          /\ (\A j \in DOMAIN todo : i <= j => todo[j] \in Elems(todo')) /\ Distinct(todo')
        <3>1. todo \in Seq(Task)
            BY DEF TypesInv
        <3>2. QED
            BY <2>3, <2>4, <3>1, SuffixFacts
    <2>6. todo[i] \in Task /\ opaque'[todo[i]].unblocked
        BY <2>1 DEF Marks, TypesInv
    <2>7. ASSUME NEW w \in Waiting(Waiters) \ Elems(todo') PROVE ~ Unblocks(w)'
        <3>1. w # todo[i]
            <4>1. i <= i
                BY DEF TypesInv
            <4>2. QED
                BY <2>5, <4>1
        <3>2. opaque'[w] = opaque[w]
            BY <2>1, <3>1 DEF Marks, TypesInv
        <3>3. ~ Unblocks(w)
            <4>1. CASE w \in Elems(todo)
                <5>1. PICK j \in DOMAIN todo : w = todo[j]
                    BY <4>1 DEF Elems
                <5>2. ~ i <= j
                    BY <2>5, <5>1
                <5>3. QED
                    BY <2>1, <5>1, <5>2 DEF Marks
            <4>2. QED
                BY <2>4, <4>1
        <3>4. QED
            BY <2>3, <3>2, <3>3 DEF Unblocks
    <2>8. QED
        BY <2>2, <2>3, <2>4, <2>5, <2>6, <2>7 DEF ScanOK
<1>3. ASSUME NEW t \in Task, RemoveWaiter(t) PROVE ScanOK'
    <2>1. /\ cur = t /\ pc[t] = "remove" /\ pc'[t] = "scan" /\ todo' = Tail(todo)
          /\ UNCHANGED <<bits, shot, opaque>>
        BY <1>3 DEF RemoveWaiter, TypesInv, persistent
    <2>2. cur' = t /\ Waiting(Waiters)' = Waiting(Waiters) \ {Head(todo)}
        BY <1>3, <2>1, RemoveEffect DEF Woken
    <2>3. /\ shot = bits /\ Distinct(todo) /\ Elems(todo) \subseteq Waiting(Waiters) /\ todo # <<>>
          /\ \A w \in Waiting(Waiters) \ Elems(todo) : ~ Unblocks(w)
        BY <2>1 DEF EInv, ScanOK, Scanning
    <2>4. /\ Elems(todo) \subseteq Elems(todo') \cup {Head(todo)} /\ Elems(todo') \subseteq Elems(todo)
          /\ Distinct(todo') /\ Head(todo) \notin Elems(todo')
        <3>1. todo \in Seq(Task)
            BY DEF TypesInv
        <3>2. QED
            BY <2>1, <2>3, <3>1, TailFacts
    <2>5. \A w : Unblocks(w)' <=> Unblocks(w)
        BY <2>1 DEF Unblocks
    <2>6. QED
        BY <2>1, <2>2, <2>3, <2>4, <2>5 DEF ScanOK
<1>4. ASSUME NEW t \in Task, EndScan(t) PROVE ScanOK'
    <2>1. /\ cur = t /\ cur' = t /\ pc[t] = "scan" /\ pc'[t] = "clear" /\ Hits = {}
          /\ UNCHANGED <<bits, shot, opaque, todo>> /\ Waiting(Waiters)' = Waiting(Waiters)
        BY <1>4, QuietEffect DEF EndScan, TypesInv, persistent, ScanRegisters, QuietStep
    <2>2. /\ shot = bits /\ Distinct(todo) /\ Elems(todo) \subseteq Waiting(Waiters)
          /\ \A w \in Waiting(Waiters) \ Elems(todo) : ~ Unblocks(w)
        BY <2>1 DEF EInv, ScanOK, Scanning
    <2>3. \A w \in Elems(todo) : ~ Unblocks(w)
        BY <2>1 DEF Hits, Elems
    <2>4. \A w : Unblocks(w)' <=> Unblocks(w)
        BY <2>1 DEF Unblocks
    <2>5. QED
        BY <2>1, <2>2, <2>3, <2>4 DEF ScanOK
<1>5. ASSUME NEW t \in Task, Step(t), ~ SetTx(t), ~ MarkWaiter(t), ~ RemoveWaiter(t), ~ EndScan(t)
      PROVE  FALSE
    <2>1. cur = t /\ \A u \in Task \ {t} : pc'[u] = pc[u] /\ pc[u] \notin Critical
        BY <1>5, PcStep, OtherTasks
    <2>2. pc'[t] \notin Scanning
        <3>p. CASE Replay(t)
            BY <3>p DEF Replay, Scanning
        <3>1. CASE BeginWait(t) \/ BeginSet(t) \/ FindBits(t) \/ Poll(t) \/ OriginalTx(t) \/ EndCall(t)
            BY <3>1 DEF BeginWait, BeginSet, Replay, FindBits, Poll, OriginalTx, EndCall, TypesInv, Scanning
        <3>2. CASE Block(t) \/ SyncBlock(t) \/ SyncPoll(t) \/ SyncMet(t) \/ ClearTx(t)
            BY <3>2 DEF Block, SyncBlock, SyncPoll, SyncMet, ClearTx, Leave, TypesInv, Scanning
        <3>3. CASE Yield(t) \/ Resume(t) \/ ResumeSync(t) \/ Finished(t)
            BY <3>3 DEF Yield, Resume, ResumeSync, WokenUp, Finished, TypesInv, Scanning
        <3>4. QED
            BY <1>5, <3>1, <3>2, <3>3, <3>p DEF Step
    <2>3. cur' \in Task
        <3>1. SchedOK'
            BY SchedStep
        <3>2. QED
            BY <3>1 DEF SchedOK, ListsOK, SchedTypeOK
    <2>4. QED
        BY <2>1, <2>2, <2>3 DEF Scanning, Critical
<1>6. CASE Tick
    <2>1. UNCHANGED pc /\ pc[cur] \notin Critical /\ cur' \in Task
        BY <1>6, SwitchEffect DEF Tick, registers, InCritical, Critical
    <2>2. QED
        BY <2>1 DEF EInv, SchedOK, Scanning, Critical
<1>7. CASE PowerFailure
    BY <1>7, SwitchEffect DEF PowerFailure, Scanning
<1>8. CASE UNCHANGED vars
    <2>1. UNCHANGED <<cur, pc, bits, shot, opaque, todo>> /\ Waiting(Waiters)' = Waiting(Waiters)
        BY <1>8, SameLists DEF vars, schedVars, persistent, registers
    <2>2. \A w : Unblocks(w)' <=> Unblocks(w)
        BY <2>1 DEF Unblocks
    <2>3. QED
        BY <2>1, <2>2 DEF EInv, ScanOK
<1>9. QED
    BY <1>1, <1>2, <1>3, <1>4, <1>5, <1>6, <1>7, <1>8 DEF Next

\* A wait that is released stays marked, and does not go back to where it
\* would sleep again.
LEMMA ReleasedStep ==
    EInv /\ [Next]_vars => released' \in [Task -> BOOLEAN] /\ \A u \in Task : ReleasedOK(u)'
<1> SUFFICES ASSUME EInv, [Next]_vars
             PROVE  released' \in [Task -> BOOLEAN] /\ \A u \in Task : ReleasedOK(u)'
    OBVIOUS
<1>0. released \in [Task -> BOOLEAN] /\ \A u \in Task : ReleasedOK(u) /\ WaiterOK(u)
    BY DEF EInv
<1> USE SchedOKFacts DEF At, Goto
\* the step of t, and what it leaves of the tasks that were released already
<1>1. ASSUME NEW t \in Task, Step(t), NEW u \in Task \ {t}, released[u] PROVE ReleasedOK(u)'
    <2>1. /\ pc'[u] = pc[u] /\ This(u)' = This(u) /\ (Active(u)' <=> Active(u))
          /\ (EarlierWait(u)' <=> EarlierWait(u)) /\ failed' = failed
        BY <1>1, OtherTasks, BitsStep
    <2>2. opaque[u].unblocked => opaque'[u].unblocked
        <3>1. CASE MarkWaiter(t)
            <4>1. PICK i \in DOMAIN todo : Marks(t, i)
                BY <3>1, MarkFacts
            <4>2. QED
                BY <4>1 DEF Marks, TypesInv
        <3>2. QED
            BY <1>1, <3>1, BitsStep
    <2>3. QED
        BY <1>0, <1>1, <2>1, <2>2 DEF ReleasedOK
<1>2. ASSUME NEW t \in Task, Step(t), ~ EndCall(t), released[t] PROVE ReleasedOK(t)'
    <2>1. Active(t) /\ ~ Finished(t)
        BY <1>0, <1>2 DEF ReleasedOK, Finished
    <2>2. UNCHANGED results
        <3>1. CASE QuietStep(t)
            BY <1>2, <3>1 DEF QuietStep, BeginWait, FindBits, Poll, Resume, BeginSet, Replay, SetTx, MarkWaiter,
               EndScan, ClearTx, SyncMet, SyncPoll, ResumeSync, WokenUp, OriginalTx, persistent
        <3>2. CASE Block(t) \/ SyncBlock(t) \/ RemoveWaiter(t) \/ Yield(t)
            BY <3>2 DEF Block, SyncBlock, RemoveWaiter, Yield, persistent
        <3>3. QED
            BY <1>2, <2>1, <3>1, <3>2 DEF Step, QuietStep
    <2>3. CASE This(t).op # "wait"
        BY <2>1, <2>2, <2>3, SameCalls DEF ReleasedOK
    <2>0. failed' = failed
        BY <1>2, BitsStep
    <2>x. CASE failed /\ EarlierWait(t)
        BY <2>0, <2>1, <2>2, <2>x, SameCalls DEF ReleasedOK
    <2>4. CASE This(t).op = "wait" /\ (failed => ~ EarlierWait(t))
        <3>1. opaque[t].unblocked /\ pc[t] \in {"call", "yield", "resume", "ok"}
            BY <1>0, <1>2, <2>4 DEF ReleasedOK
        <3>2. Replay(t) \/ BeginWait(t) \/ Yield(t) \/ Resume(t)
            BY <1>2, <2>1, <2>4, <3>1 DEF Step, BeginSet, Replay, FindBits, Poll, Block, SetTx, MarkWaiter,
               RemoveWaiter, EndScan, ClearTx, SyncMet, SyncPoll, SyncBlock, ResumeSync, OriginalTx
        <3>3. UNCHANGED opaque
            <4>1. Replay(t) => failed
                BY DEF Replay, EInv, ReplayOK
            <4>2. QED
                BY <2>4, <3>2, <4>1 DEF Replay, BeginWait, Yield, Resume, persistent
        <3>4. pc'[t] \in {"call", "resume", "ok"}
            BY <3>1, <3>2 DEF Replay, BeginWait, Yield, Resume, WokenUp, TypesInv
        <3>5. QED
            BY <2>1, <2>2, <3>1, <3>3, <3>4, SameCalls DEF ReleasedOK
    <2>5. QED
        BY <2>3, <2>4, <2>x
<1>3. ASSUME NEW t \in Task, EndCall(t)
      PROVE  released' \in [Task -> BOOLEAN] /\ \A u \in Task : ReleasedOK(u)'
    <2>1. released' = [released EXCEPT ![t] = FALSE] /\ Step(t)
        BY <1>3 DEF EndCall, Step
    <2>2. released' \in [Task -> BOOLEAN] /\ ~ released'[t] /\ \A u \in Task \ {t} : released'[u] = released[u]
        BY <1>0, <2>1
    <2>3. ASSUME NEW u \in Task, released'[u] PROVE ReleasedOK(u)'
        BY <1>1, <2>1, <2>2, <2>3
    <2>4. QED
        BY <2>2, <2>3 DEF ReleasedOK
<1>4. ASSUME NEW t \in Task, RemoveWaiter(t)
      PROVE  released' \in [Task -> BOOLEAN] /\ \A u \in Task : ReleasedOK(u)'
    <2>0. Step(t) /\ ~ EndCall(t)
        BY <1>4 DEF Step, RemoveWaiter, EndCall
    <2>1. PICK h \in Task : h = Head(todo) /\ h \in Waiting(Waiters) /\ h # t /\ cur = t
        BY <1>4, RemoveEffect DEF Woken
    <2>2. released' = [released EXCEPT ![h] = TRUE] /\ UNCHANGED <<opaque, results>> /\ pc[t] = "remove"
        BY <1>4, <2>1 DEF RemoveWaiter, persistent
    <2>3. opaque[h].unblocked
        BY <2>1, <2>2 DEF EInv, ScanOK, Scanning
    <2>4. released' \in [Task -> BOOLEAN] /\ \A u \in Task \ {h} : released'[u] = released[u]
        BY <1>0, <2>1, <2>2
    <2>5. ReleasedOK(h)'
        <3>1. /\ Active(h) /\ pc[h] \in {"call", "pended", "yield", "resume"}
              /\ This(h).op = "wait" => pc[h] # "pended"
            BY <1>0, <2>1 DEF WaiterOK, PlacesInv, PlaceOK, IsSync
        <3>2. pc'[h] = pc[h] /\ opaque' = opaque /\ Active(h)' /\ This(h)' = This(h)
            BY <2>0, <2>1, <2>2, <3>1, OtherTasks
        <3>3. QED
            BY <2>3, <3>1, <3>2 DEF ReleasedOK
    <2>6. ASSUME NEW u \in Task, released'[u], u # h PROVE ReleasedOK(u)'
        BY <1>1, <1>2, <2>0, <2>4, <2>6
    <2>7. QED
        BY <2>4, <2>5, <2>6 DEF ReleasedOK
<1>5. ASSUME NEW t \in Task, Step(t), ~ EndCall(t), ~ RemoveWaiter(t)
      PROVE  released' \in [Task -> BOOLEAN] /\ \A u \in Task : ReleasedOK(u)'
    <2>1. UNCHANGED released
        <3>1. CASE QuietStep(t)
            BY <1>5, <3>1 DEF QuietStep, BeginWait, FindBits, Poll, Resume, BeginSet, Replay, SetTx, MarkWaiter,
               EndScan, ClearTx, SyncMet, SyncPoll, ResumeSync, WokenUp, OriginalTx, history
        <3>2. CASE Block(t) \/ SyncBlock(t) \/ Yield(t) \/ Finished(t)
            BY <3>2 DEF Block, SyncBlock, Yield, Finished, history
        <3>3. QED
            BY <1>5, <3>1, <3>2 DEF Step, QuietStep
    <2>2. ASSUME NEW u \in Task, released[u] PROVE ReleasedOK(u)'
        BY <1>1, <1>2, <1>5, <2>2
    <2>3. QED
        BY <1>0, <2>1, <2>2 DEF ReleasedOK
<1>6. CASE Tick \/ PowerFailure \/ UNCHANGED vars
    <2>1. UNCHANGED <<opaque, results, released>> /\ (failed => failed')
        BY <1>6 DEF Tick, PowerFailure, vars, persistent, history
    <2>2. \A u \in Task : pc'[u] = pc[u] \/ pc'[u] = "call"
        BY <1>6 DEF Tick, PowerFailure, vars, registers
    <2>3. QED
        BY <1>0, <2>1, <2>2, SameCalls DEF ReleasedOK
<1>7. QED
    BY <1>3, <1>4, <1>5, <1>6 DEF Next

\* Only a failure makes a task run its transaction again.
LEMMA ReplayStep == EInv /\ [Next]_vars => ReplayOK'
<1> SUFFICES ASSUME EInv, [Next]_vars PROVE ReplayOK'
    OBVIOUS
<1>0. ReplayOK
    BY DEF EInv
<1>1. ASSUME NEW t \in Task, Step(t) PROVE Replay(t) \/ UNCHANGED replaying
    <2>1. CASE BeginWait(t) \/ BeginSet(t) \/ FindBits(t) \/ Poll(t) \/ Block(t) \/ Yield(t)
        BY <2>1 DEF BeginWait, BeginSet, FindBits, Poll, Block, Yield, Goto
    <2>2. CASE Resume(t) \/ ResumeSync(t) \/ SetTx(t) \/ MarkWaiter(t) \/ RemoveWaiter(t) \/ EndScan(t)
        BY <2>2 DEF Resume, ResumeSync, WokenUp, SetTx, MarkWaiter, RemoveWaiter, EndScan, Goto
    <2>3. CASE ClearTx(t) \/ OriginalTx(t) \/ SyncMet(t) \/ SyncBlock(t) \/ SyncPoll(t)
        BY <2>3 DEF ClearTx, OriginalTx, SyncMet, SyncBlock, SyncPoll, Leave, Goto
    <2>4. CASE EndCall(t) \/ Finished(t)
        BY <2>4 DEF EndCall, Finished, Goto
    <2>5. QED
        BY <1>1, <2>1, <2>2, <2>3, <2>4 DEF Step
<1>2. ASSUME NEW t \in Task, Step(t) PROVE ReplayOK'
    <2>1. failed' = failed
        BY <1>2, BitsStep
    <2>2. Replay(t) => failed
        BY <1>0 DEF Replay, ReplayOK
    <2>3. QED
        BY <1>0, <1>1, <1>2, <2>1, <2>2 DEF ReplayOK
<1>3. CASE Tick \/ PowerFailure \/ UNCHANGED vars
    BY <1>0, <1>3 DEF Tick, PowerFailure, vars, registers, history, ReplayOK
<1>4. QED
    BY <1>2, <1>3 DEF Next

\* Every step keeps the invariant.
LEMMA EInvStep == EInv /\ [Next]_vars => EInv'
<1> SUFFICES ASSUME EInv, [Next]_vars PROVE EInv'
    OBVIOUS
<1>1. TypesInv' /\ PlacesInv' /\ SchedOK' /\ ScanOK' /\ ReplayOK'
    BY TypesStep, PlacesStep, SchedStep, ScanStep, ReplayStep
<1>2. /\ released' \in [Task -> BOOLEAN]
      /\ \A t \in Task : OriginalOK(t)' /\ WaiterOK(t)' /\ ReleasedOK(t)'
    BY OriginalStep, WaiterStep, ReleasedStep
<1>3. QED
    BY <1>1, <1>2 DEF EInv

\* The inductive invariant of the event group holds whatever the tasks' calls
\* and priorities are and wherever the power fails: lists, places, the nodes'
\* values and the set's scan agree.
THEOREM Inductive == Spec => []EInv
<1>1. Init => EInv
    BY InitEInv
<1>2. EInv /\ [Next]_vars => EInv'
    BY EInvStep
<1>3. QED
    BY <1>1, <1>2, PTL DEF Spec

\* Every variable of the event group keeps its type, the lists agree and no
\* call commits more than the four transactions it is made of.
THEOREM TypesHold == Spec => []TypeOK
<1>1. ASSUME EInv PROVE TypeOK
    <2>1. SchedTypeOK /\ ListsAgree
        BY <1>1 DEF EInv, SchedOK, ListsOK
    <2>2. TypesInv /\ PlacesInv
        BY <1>1 DEF EInv
    <2>3. txDone \in [Task -> 0 .. 4]
        BY <2>2 DEF TypesInv, PlacesInv, PlaceOK
    <2>4. QED
        BY <2>1, <2>2, <2>3 DEF TypeOK, TypesInv
<1>2. EInv => TypeOK
    BY <1>1
<1>3. QED
    BY <1>2, Inductive, PTL

-----------------------------------------------------------------------------
(***************************************************************************)
(* What the event group promises.                                          *)
(***************************************************************************)

\* A task may only be put to sleep by its own Block, SyncBlock or Finished.
LEMMA AsleepStep ==
    ASSUME EInv, [Next]_vars, NEW t \in Task, ~ Delayed(t), Delayed(t)'
    PROVE  Block(t) \/ SyncBlock(t) \/ Finished(t)
<1>1. t \notin Asleep /\ t \in Asleep'
    BY DEF Delayed, Asleep
<1>2. ASSUME NEW u \in Task, Step(u) PROVE Block(t) \/ SyncBlock(t) \/ Finished(t)
    <2>1. CASE QuietStep(u)
        BY <1>1, <2>1, QuietEffect
    <2>2. CASE Block(u) \/ SyncBlock(u)
        BY <1>1, <2>2, BlockEffect DEF Slept
    <2>3. CASE RemoveWaiter(u)
        BY <1>1, <2>3, RemoveEffect DEF Woken
    <2>4. CASE Yield(u)
        BY <1>1, <2>4, SwitchEffect
    <2>5. CASE Finished(u)
        BY <1>1, <2>5, FinishedEffect
    <2>6. QED
        BY <1>2, <2>1, <2>2, <2>3, <2>4, <2>5 DEF Step, QuietStep
<1>3. CASE Tick \/ PowerFailure
    BY <1>1, <1>3, SwitchEffect
<1>4. CASE UNCHANGED vars
    BY <1>1, <1>4, SchedOKFacts, SameLists DEF vars
<1>5. QED
    BY <1>2, <1>3, <1>4 DEF Next

\* A wait that a set has released does not go back to sleep, wherever the
\* power fails between the set's steps and the end of the wait: the mark in
\* its event node outlives the failure.  It does so of the first wait of a
\* user transaction; of the later ones as long as nothing fails, for behind
\* a failure the transaction passes over the earlier waits and erases it.
THEOREM ReleasedWaitsReturn == Spec => ReleasedWaitReturns
<1> DEFINE StaysAwake == \A t \in Task :
              /\ released[t] /\ This(t).op = "wait" /\ ~ Delayed(t)
              /\ failed => ~ EarlierWait(t)
              => ~ Delayed(t)'
<1>1. ASSUME EInv, [Next]_vars PROVE StaysAwake
    <2> SUFFICES ASSUME NEW t \in Task, released[t], This(t).op = "wait", ~ Delayed(t),
                        failed => ~ EarlierWait(t), Delayed(t)'
                 PROVE  FALSE
        OBVIOUS
    <2>1. Block(t) \/ SyncBlock(t) \/ Finished(t)
        BY <1>1, AsleepStep
    <2>2. Active(t) /\ pc[t] \in {"call", "yield", "resume", "ok"}
        BY <1>1 DEF EInv, ReleasedOK
    <2>3. QED
        BY <2>1, <2>2 DEF Block, SyncBlock, Finished, At
<1>2. EInv /\ [Next]_vars => [StaysAwake]_vars
    BY <1>1
<1>3. QED
    BY <1>2, Inductive, PTL DEF Spec, ReleasedWaitReturns

\* More bits satisfy whatever fewer do.
LEMMA MoreBits ==
    ASSUME NEW A, NEW B, A \subseteq B, NEW want, NEW all, WaitConditionOk(A, want, all)
    PROVE  WaitConditionOk(B, want, all)
BY DEF WaitConditionOk

\* A task that waits and that a set would have to wake.
Overdue(w) ==
    /\ w \in Waiting(Waiters) /\ Satisfied(w)
    /\ failed => This(w).op = "wait" /\ ~ opaque[w].unblocked

\* A set that owes a release goes on owing it until it has scanned the list.
LEMMA OwingStep ==
    ASSUME EInv, [Next]_vars, NEW u \in Task, OwesRelease(u), ~ ClearTx(u)
    PROVE  OwesRelease(u)'
<1>0. /\ u \notin Asleep /\ Active(u) /\ This(u).op # "wait"
      /\ pc[u] \in {"call", "original", "set", "scan", "remove", "clear"}
      /\ txDone[u] >= IF This(u).op = "sync" THEN 2 ELSE 1
    BY DEF OwesRelease, Delayed, Asleep
<1> USE SchedOKFacts DEF At, Goto
<1>1. ~ Delayed(u)'
    <2> SUFFICES ASSUME Delayed(u)' PROVE FALSE
        OBVIOUS
    <2>1. Block(u) \/ SyncBlock(u) \/ Finished(u)
        BY AsleepStep DEF OwesRelease
    <2>2. QED
        BY <1>0, <2>1 DEF Block, SyncBlock, Finished
<1>2. ASSUME NEW t \in Task, Step(t) PROVE OwesRelease(u)'
    <2>1. CASE t # u
        <3>1. /\ pc'[u] = pc[u] /\ txDone'[u] = txDone[u] /\ This(u)' = This(u)
              /\ (Active(u)' <=> Active(u))
            BY <1>2, <2>1, OtherTasks
        <3>2. QED
            BY <1>0, <1>1, <3>1 DEF OwesRelease
    <2>2. CASE t = u
        <3>1. \/ BeginSet(u) \/ Replay(u) \/ OriginalTx(u) \/ SetTx(u) \/ MarkWaiter(u) \/ RemoveWaiter(u)
              \/ EndScan(u)
            <4>1. ~ BeginWait(u) /\ ~ Finished(u)
                BY <1>0 DEF BeginWait, Finished
            <4>2. ~ FindBits(u) /\ ~ Poll(u) /\ ~ Block(u) /\ ~ SyncMet(u) /\ ~ SyncBlock(u) /\ ~ SyncPoll(u)
                BY <1>0 DEF FindBits, Poll, Block, SyncMet, SyncBlock, SyncPoll
            <4>3. ~ Yield(u) /\ ~ Resume(u) /\ ~ ResumeSync(u) /\ ~ EndCall(u)
                BY <1>0 DEF Yield, Resume, ResumeSync, WokenUp, EndCall
            <4>4. QED
                BY <1>2, <2>2, <4>1, <4>2, <4>3 DEF Step
        <3>2. UNCHANGED results
            BY <3>1 DEF BeginSet, Replay, OriginalTx, SetTx, MarkWaiter, RemoveWaiter, EndScan, persistent
        <3>3. pc'[u] \in {"call", "original", "set", "scan", "remove", "clear"}
            BY <3>1 DEF BeginSet, Replay, OriginalTx, SetTx, MarkWaiter, RemoveWaiter, EndScan, TypesInv
        <3>4. txDone'[u] \in Nat /\ txDone'[u] >= txDone[u] /\ txDone[u] \in Nat
            <4>1. (\E new : RunTx(u, new)) \/ UNCHANGED txDone
                BY <3>1 DEF BeginSet, Replay, OriginalTx, SetTx, MarkWaiter, RemoveWaiter, EndScan, persistent
            <4>2. QED
                BY <4>1 DEF RunTx, TypesInv
        <3>5. QED
            BY <1>0, <1>1, <3>2, <3>3, <3>4, SameCalls DEF OwesRelease
    <2>3. QED
        BY <2>1, <2>2
<1>3. CASE Tick \/ PowerFailure \/ UNCHANGED vars
    <2>1. UNCHANGED <<results, txDone>> /\ pc'[u] \in {pc[u], "call"}
        BY <1>3 DEF Tick, PowerFailure, vars, persistent, registers
    <2>2. QED
        BY <1>0, <1>1, <2>1, SameCalls DEF OwesRelease
<1>4. QED
    BY <1>2, <1>3 DEF Next

\* When a set has looked at all waiting tasks, none of them is overdue.
LEMMA NobodyOverdue ==
    ASSUME EInv, pc[cur] = "clear", NEW w \in Task
    PROVE  ~ Overdue(w)
<1> SUFFICES ASSUME Overdue(w) PROVE FALSE
    OBVIOUS
<1>1. WaiterOK(w) /\ shot = bits /\ ~ Unblocks(w)
    BY DEF EInv, ScanOK, Scanning, Overdue
<1>2. ~ opaque[w].unblocked
    BY <1>1 DEF WaiterOK, Overdue
<1>3. opaque[w].bits = This(w).for /\ (opaque[w].all <=> This(w).all \/ IsSync(w))
    BY <1>1, <1>2 DEF WaiterOK, Overdue
<1>4. QED
    BY <1>1, <1>3 DEF Overdue, Satisfied, Unblocks, WaitConditionOk, IsSync

\* A task is overdue only while a set owes it its release: a step that makes a
\* task overdue is the first transaction of a set.
LEMMA NobodySleepsStep == EInv /\ NobodySleepsOnItsBits /\ [Next]_vars => NobodySleepsOnItsBits'
<1> SUFFICES ASSUME EInv, NobodySleepsOnItsBits, [Next]_vars, NEW w \in Task, Overdue(w)'
             PROVE  \E u \in Task : OwesRelease(u)'
    BY DEF NobodySleepsOnItsBits, Overdue, Waiting
<1> USE SchedOKFacts DEF At, Goto
<1>0. w \in Waiting(Waiters)' /\ Satisfied(w)' /\ (failed' => This(w)'.op = "wait" /\ ~ opaque'[w].unblocked)
    BY DEF Overdue
\* a task that was overdue before is released by who owed it
<1>1. ASSUME Overdue(w), \A t \in Task : ~ ClearTx(t) PROVE \E u \in Task : OwesRelease(u)'
    <2>1. PICK u \in Task : OwesRelease(u)
        BY <1>1 DEF NobodySleepsOnItsBits, Overdue, Waiting
    <2>2. QED
        BY <1>1, <2>1, OwingStep
\* fewer bits, the same call
<1>2. ASSUME bits' \subseteq bits, This(w)' = This(w) PROVE Satisfied(w)
    BY <1>0, <1>2, MoreBits DEF Satisfied
<1>3. ASSUME NEW t \in Task, SetTx(t) PROVE \E u \in Task : OwesRelease(u)'
    <2>1. /\ pc[t] = "set" /\ pc'[t] = "scan" /\ UNCHANGED results /\ RunTx(t, bits \cup This(t).set)
          /\ cur = t /\ t \notin Asleep'
        BY <1>3, QuietEffect DEF SetTx, TypesInv, QuietStep
    <2>2. /\ Active(t) /\ This(t).op # "wait" /\ ptr[t] = (IF IsSync(t) THEN 1 ELSE 0) /\ PlaceOK(t)
        BY <2>1 DEF PlacesInv, PlaceOK
    <2>3. ptr'[t] = ptr[t] + 1 /\ ptr'[t] <= txDone'[t] /\ txDone'[t] \in txDone[t] .. 4
        BY <2>1, <2>2, RunTxFacts
    <2>4. txDone'[t] >= IF This(t).op = "sync" THEN 2 ELSE 1
        BY <2>2, <2>3 DEF TypesInv, IsSync
    <2>5. OwesRelease(t)'
        <3>1. ~ Delayed(t)'
            BY <2>1 DEF Delayed, Asleep
        <3>2. Active(t)' /\ This(t)' = This(t)
            BY <2>1, <2>2, SameCalls
        <3>3. QED
            BY <2>1, <2>2, <2>4, <3>1, <3>2 DEF OwesRelease
    <2>6. QED
        BY <2>5
<1>4. ASSUME NEW t \in Task, ClearTx(t) PROVE FALSE
    <2>1. cur = t /\ pc[t] = "clear" /\ w \in Waiting(Waiters) /\ w # t
        BY <1>0, <1>4, QuietEffect DEF ClearTx, QuietStep
    <2>2. Step(t) /\ ~ SetTx(t) /\ ~ MarkWaiter(t)
        BY <1>4 DEF Step, ClearTx, SetTx, MarkWaiter
    <2>3. This(w)' = This(w) /\ bits' \subseteq bits /\ opaque'[w] = opaque[w] /\ failed' = failed
        BY <2>1, <2>2, OtherTasks, BitsStep
    <2>4. Overdue(w)
        BY <1>0, <1>2, <2>1, <2>3 DEF Overdue
    <2>5. QED
        BY <2>1, <2>4, NobodyOverdue
<1>5. ASSUME NEW t \in Task, Step(t), ~ SetTx(t), ~ ClearTx(t), w # t, w \in Waiting(Waiters)
      PROVE  Overdue(w)
    <2>1. This(w)' = This(w) /\ bits' \subseteq bits /\ failed' = failed
        BY <1>5, OtherTasks, BitsStep
    <2>2. ~ opaque'[w].unblocked => ~ opaque[w].unblocked
        <3>1. CASE MarkWaiter(t)
            <4>1. PICK i \in DOMAIN todo : Marks(t, i)
                BY <3>1, MarkFacts
            <4>2. QED
                BY <4>1 DEF Marks, TypesInv
        <3>2. QED
            BY <1>5, <3>1, BitsStep
    <2>3. QED
        BY <1>0, <1>2, <1>5, <2>1, <2>2 DEF Overdue
<1>6. ASSUME NEW t \in Task, Step(t), ~ SetTx(t), ~ ClearTx(t) PROVE Overdue(w)
    <2>1. CASE QuietStep(t)
        BY <1>0, <1>5, <1>6, <2>1, QuietEffect
    <2>2. CASE Block(t) \/ SyncBlock(t)
        <3>1. CASE w # t
            BY <1>0, <1>5, <1>6, <2>2, <3>1, BlockEffect
        <3>2. CASE w = t
            <4>1. UNCHANGED <<bits, results, failed>>
                BY <2>2 DEF Block, SyncBlock, history
            <4>2. This(t)' = This(t) /\ Satisfied(t)
                BY <1>2, <3>2, <4>1, SameCalls
            <4>3. CASE Block(t)
                BY <4>2, <4>3 DEF Block
            <4>4. CASE SyncBlock(t)
                <5>1. pc[t] = "decide" /\ IsSync(t) /\ ~ Met(t)
                    BY <4>4 DEF SyncBlock, PlacesInv, PlaceOK
                <5>2. ~ failed
                    BY <1>0, <3>2, <4>1, <4>2, <5>1 DEF IsSync
                <5>3. bits \subseteq original[t] \cup This(t).set
                    BY <5>1, <5>2 DEF EInv, OriginalOK
                <5>4. QED
                    BY <4>2, <5>1, <5>3 DEF Satisfied, WaitConditionOk, IsSync, Met
            <4>5. QED
                BY <2>2, <4>3, <4>4
        <3>3. QED
            BY <3>1, <3>2
    <2>3. CASE RemoveWaiter(t)
        BY <1>0, <1>5, <1>6, <2>3, RemoveEffect DEF Woken
    <2>4. CASE Yield(t) \/ Finished(t)
        <3>1. w \in Waiting(Waiters)
            BY <1>0, <2>4, SwitchEffect, FinishedEffect
        <3>2. UNCHANGED <<bits, opaque, results, failed>>
            BY <2>4 DEF Yield, Finished, persistent, history
        <3>3. QED
            BY <1>0, <1>2, <3>1, <3>2, SameCalls DEF Overdue
    <2>5. QED
        BY <1>6, <2>1, <2>2, <2>3, <2>4 DEF Step, QuietStep
<1>7. CASE Tick \/ PowerFailure \/ UNCHANGED vars
    <2>1. w \in Waiting(Waiters)
        BY <1>0, <1>7, SwitchEffect, SameLists DEF vars
    <2>2. UNCHANGED <<bits, opaque, results>> /\ (failed => failed')
        BY <1>7 DEF Tick, PowerFailure, vars, persistent, history
    <2>3. Overdue(w)
        BY <1>0, <1>2, <2>1, <2>2, SameCalls DEF Overdue
    <2>4. QED
        BY <1>1, <1>4, <2>3
<1>8. QED
    BY <1>1, <1>3, <1>4, <1>6, <1>7 DEF Next

\* No task sleeps on bits that are there, except while a set that will wake it
\* is under way, for all calls, priorities and failures: what is excluded
\* after a failure is named in the property.
THEOREM NobodySleeps == Spec => []NobodySleepsOnItsBits
<1>1. Init => NobodySleepsOnItsBits
    <2> SUFFICES ASSUME Init PROVE NobodySleepsOnItsBits
        OBVIOUS
    <2>1. Waiting(Waiters) = {}
        BY SchedInitFacts, EventGroupAssumption DEF Init, EventGroupAssumption
    <2>2. QED
        BY <2>1 DEF NobodySleepsOnItsBits, Waiting
<1>2. EInv /\ NobodySleepsOnItsBits /\ [Next]_vars => NobodySleepsOnItsBits'
    BY NobodySleepsStep
<1>3. QED
    BY <1>1, <1>2, Inductive, PTL DEF Spec

-----------------------------------------------------------------------------
(***************************************************************************)
(* The rendezvous.                                                         *)
(***************************************************************************)

\* A sync that waits for as long as it takes.
Patient(c) == c.op = "sync" /\ c.ticks = Never

\* While nothing has failed no transaction of a call is passed over.
CountersOK(t) == ~ failed /\ pc[t] \notin {"call", "over"} => ptr[t] = txDone[t]

\* While nothing has failed a task waits only inside its call, a sync wants its
\* bits cleared, and its node carries a mark only until it is awake.
NodeOK(t) ==
    ~ failed =>
        /\ t \in Waiting(Waiters) => /\ pc[t] \in {"pended", "yield", "resume"}
                                     /\ IsSync(t) /\ ~ opaque[t].unblocked => opaque[t].clear
        /\ Active(t) /\ This(t).op # "wait" /\ opaque[t].unblocked => pc[t] \in {"pended", "yield", "resume"}

\* While nothing has failed a patient sync sleeps until it is marked, and so
\* it never returns for the time that has passed.
PatientOK(t) ==
    ~ failed =>
        /\ Active(t) /\ Patient(This(t)) =>
              /\ pc[t] # "timeout"
              /\ pc[t] \in {"pended", "yield", "resume"} =>
                    opaque[t].unblocked \/ (t \in Waiting(Waiters) /\ left[t] = Never)
        /\ \A j \in DOMAIN results[t] : Patient(Program[t][j]) => results[t][j] = "ok"

Steady(t) == CountersOK(t) /\ NodeOK(t) /\ PatientOK(t)

\* Only the end of a call records a result.
LEMMA ResultsStep ==
    ASSUME NEW t \in Task, Step(t)
    PROVE  UNCHANGED results \/ EndCall(t)
<1>1. CASE QuietStep(t)
    BY <1>1 DEF QuietStep, BeginWait, FindBits, Poll, Resume, BeginSet, Replay, SetTx, MarkWaiter, EndScan,
                ClearTx, SyncMet, SyncPoll, ResumeSync, WokenUp, OriginalTx, persistent
<1>2. CASE Block(t) \/ SyncBlock(t) \/ RemoveWaiter(t) \/ Yield(t) \/ Finished(t)
    BY <1>2 DEF Block, SyncBlock, RemoveWaiter, Yield, Finished, persistent
<1>3. QED
    BY <1>1, <1>2 DEF Step, QuietStep

\* How a task's own step moves its counters while nothing has failed.
LEMMA CountersStep ==
    ASSUME EInv, NEW t \in Task, Step(t), ~ EndCall(t)
    PROVE  /\ txDone'[t] >= txDone[t] /\ txDone'[t] \in Nat
           /\ CountersOK(t) => CountersOK(t)'
           /\ \A u \in Task \ {t} : ptr'[u] = ptr[u]
<1> USE SchedOKFacts DEF At, Goto
<1>0. txDone \in [Task -> Nat] /\ ptr \in [Task -> Nat] /\ pc \in [Task -> Places] /\ failed' = failed
    BY BitsStep DEF TypesInv
<1>1. ASSUME NEW new, RunTx(t, new), pc[t] \notin {"call", "over"}
      PROVE  /\ txDone'[t] >= txDone[t] /\ txDone'[t] \in Nat
             /\ CountersOK(t) => CountersOK(t)'
             /\ \A u \in Task \ {t} : ptr'[u] = ptr[u]
    BY <1>0, <1>1 DEF RunTx, CountersOK
<1>2. ASSUME UNCHANGED <<txDone, ptr>>, pc'[t] \in {"call", "over"} \/ pc[t] \notin {"call", "over"}
      PROVE  /\ txDone'[t] >= txDone[t] /\ txDone'[t] \in Nat
             /\ CountersOK(t) => CountersOK(t)'
             /\ \A u \in Task \ {t} : ptr'[u] = ptr[u]
    BY <1>0, <1>2 DEF CountersOK
<1>p. CASE Replay(t)
    <2>1. UNCHANGED <<txDone, ptr>> /\ pc'[t] = "call"
        BY <1>p DEF Replay
    <2>2. QED
        BY <1>2, <2>1
<1>3. CASE BeginWait(t) \/ BeginSet(t)
    <2>1. pc[t] = "call" /\ ptr' = [ptr EXCEPT ![t] = 0] /\ UNCHANGED txDone
        BY <1>3 DEF BeginWait, BeginSet, Replay, persistent
    <2>2. ~ failed => txDone[t] = 0
        BY <2>1 DEF EInv, OriginalOK
    <2>3. QED
        BY <1>0, <2>1, <2>2 DEF CountersOK
<1>4. CASE FindBits(t) \/ Resume(t) \/ ResumeSync(t)
    <2>1. pc[t] \notin {"call", "over"} /\ (Consume(t) \/ UNCHANGED <<bits, txDone, ptr>>)
        BY <1>4 DEF FindBits, Resume, ResumeSync, WokenUp
    <2>2. CASE RunTx(t, bits \ This(t).for)
        BY <1>1, <2>1, <2>2
    <2>3. CASE UNCHANGED <<txDone, ptr>>
        BY <1>2, <2>1, <2>3
    <2>4. QED
        BY <2>1, <2>2, <2>3 DEF Consume
<1>5. CASE SetTx(t) \/ ClearTx(t) \/ OriginalTx(t) \/ SyncMet(t)
    BY <1>1, <1>5 DEF SetTx, ClearTx, OriginalTx, SyncMet
<1>6. CASE Poll(t) \/ Block(t) \/ SyncBlock(t) \/ SyncPoll(t) \/ MarkWaiter(t) \/ RemoveWaiter(t)
           \/ EndScan(t) \/ Yield(t)
    BY <1>2, <1>6 DEF Poll, Block, SyncBlock, SyncPoll, MarkWaiter, RemoveWaiter, EndScan, Yield, persistent
<1>7. CASE Finished(t)
    <2>1. UNCHANGED <<txDone, ptr>>
        BY <1>7 DEF Finished, persistent
    <2>2. pc'[t] = "over"
        BY <1>7, FinishedEffect
    <2>3. QED
        BY <1>2, <2>1, <2>2
<1>8. QED
    BY <1>3, <1>4, <1>5, <1>6, <1>7, <1>p DEF Step

\* What a step leaves of the node of another task, and of its place in the
\* lists: a task is marked, and taken off the list only when it is marked.
LEMMA OtherNodes ==
    ASSUME EInv, NEW v \in Task, Step(v), NEW t \in Task \ {v}
    PROVE  /\ results'[t] = results[t]
           /\ t \in Waiting(Waiters)' => t \in Waiting(Waiters)
           /\ \/ opaque'[t] = opaque[t]
              \/ t \in Waiting(Waiters) /\ MarkWaiter(v) /\ opaque'[t].unblocked
           /\ \/ opaque[t].unblocked
              \/ left'[t] = left[t] /\ (t \in Waiting(Waiters) => t \in Waiting(Waiters)')
<1> USE SchedOKFacts
<1>0. left \in [Task -> 0 .. Never]
    BY DEF ListsOK, SchedTypeOK
<1>1. results'[t] = results[t]
    <2>1. CASE EndCall(v)
        BY <2>1 DEF EndCall, TypesInv
    <2>2. QED
        BY <2>1, ResultsStep
<1>2. CASE QuietStep(v)
    <2>1. left' = left /\ Waiting(Waiters)' = Waiting(Waiters) /\ cur = v
        BY <1>2, QuietEffect DEF schedVars
    <2>2. CASE MarkWaiter(v)
        <3>1. PICK i \in DOMAIN todo : Marks(v, i)
            BY <2>2, MarkFacts
        <3>2. pc[cur] = "scan"
            BY <2>1, <2>2 DEF MarkWaiter, At
        <3>3. todo[i] \in Waiting(Waiters)
            BY <3>1, <3>2 DEF EInv, ScanOK, Scanning, Elems
        <3>4. opaque'[t] = opaque[t] \/ (t = todo[i] /\ opaque'[t].unblocked)
            BY <3>1 DEF Marks, TypesInv
        <3>5. QED
            BY <1>1, <2>1, <2>2, <3>3, <3>4
    <2>3. QED
        BY <1>1, <2>1, <2>2, BitsStep
<1>3. CASE Block(v) \/ SyncBlock(v)
    <2>1. Slept(v, Waiters, This(v).ticks) /\ ~ MarkWaiter(v)
        BY <1>3, BlockEffect DEF Block, SyncBlock, MarkWaiter, At
    <2>2. left'[t] = left[t]
        BY <1>0, <2>1 DEF Slept
    <2>3. QED
        BY <1>1, <2>1, <2>2, BitsStep DEF Slept
<1>4. CASE RemoveWaiter(v)
    <2>1. PICK h \in Task : h = Head(todo) /\ Woken(h, Waiters) /\ cur = v
        BY <1>4, RemoveEffect
    <2>2. pc[cur] = "remove" /\ UNCHANGED opaque
        BY <1>4, <2>1 DEF RemoveWaiter, At, persistent
    <2>3. opaque[h].unblocked
        BY <2>1, <2>2 DEF EInv, ScanOK, Scanning
    <2>4. t = h \/ (left'[t] = left[t] /\ (t \in Waiting(Waiters) => t \in Waiting(Waiters)'))
        BY <1>0, <2>1 DEF Woken
    <2>5. t \in Waiting(Waiters)' => t \in Waiting(Waiters)
        BY <2>1 DEF Woken
    <2>6. QED
        BY <1>1, <2>2, <2>3, <2>4, <2>5
<1>5. CASE Yield(v)
    <2>1. UNCHANGED <<left, wait, opaque>>
        BY <1>5 DEF Yield, YieldNow, persistent
    <2>2. QED
        BY <1>1, <2>1 DEF Waiting
<1>6. CASE Finished(v)
    <2>1. UNCHANGED opaque /\ Waiting(Waiters)' = Waiting(Waiters)
        BY <1>6, FinishedEffect DEF Finished, persistent
    <2>2. left' = left \/ left' = [left EXCEPT ![v] = Never]
        BY <1>6 DEF Finished, YieldNow, AddToDelayedList
    <2>3. left'[t] = left[t]
        BY <1>0, <2>2
    <2>4. QED
        BY <1>1, <2>1, <2>3
<1>7. QED
    BY <1>2, <1>3, <1>4, <1>5, <1>6 DEF Step, QuietStep

\* A step of another task leaves a task steady.
LEMMA SteadyOther ==
    ASSUME EInv, NEW v \in Task, Step(v), NEW t \in Task \ {v}, Steady(t)
    PROVE  Steady(t)'
<1>0. /\ pc'[t] = pc[t] /\ txDone'[t] = txDone[t] /\ This(t)' = This(t)
      /\ (Active(t)' <=> Active(t)) /\ (IsSync(t)' <=> IsSync(t)) /\ failed' = failed
    BY OtherTasks, BitsStep
<1>1. CountersOK(t)'
    <2>1. ptr'[t] = ptr[t]
        <3>1. CASE EndCall(v)
            BY <3>1 DEF EndCall
        <3>2. QED
            BY <3>1, CountersStep
    <2>2. QED
        BY <1>0, <2>1 DEF CountersOK, Steady
<1>2. ASSUME ~ failed PROVE NodeOK(t)'
    <2>1. t \in Waiting(Waiters) => WaiterOK(t) /\ pc[t] \in {"pended", "yield", "resume"}
        BY <1>2 DEF EInv, Steady, NodeOK
    <2>2. t \in Waiting(Waiters)' => pc'[t] \in {"pended", "yield", "resume"} /\ t \in Waiting(Waiters)
        BY <1>0, <2>1, OtherNodes
    <2>3. CASE opaque'[t] = opaque[t]
        BY <1>0, <1>2, <2>2, <2>3 DEF Steady, NodeOK
    <2>4. CASE t \in Waiting(Waiters) /\ opaque'[t].unblocked
        BY <1>0, <2>1, <2>2, <2>4 DEF NodeOK
    <2>5. QED
        BY <2>3, <2>4, OtherNodes
<1>3. ASSUME ~ failed PROVE PatientOK(t)'
    <2>1. opaque[t].unblocked => opaque'[t].unblocked
        BY OtherNodes
    <2>2. \/ opaque[t].unblocked
          \/ left'[t] = left[t] /\ (t \in Waiting(Waiters) => t \in Waiting(Waiters)')
        BY OtherNodes
    <2>3. results'[t] = results[t]
        BY OtherNodes
    <2>4. QED
        BY <1>0, <1>3, <2>1, <2>2, <2>3 DEF Steady, PatientOK
<1>4. QED
    BY <1>0, <1>1, <1>2, <1>3 DEF Steady, NodeOK, PatientOK

\* Its own step leaves the node of a task as it should be.
LEMMA NodeOwn ==
    ASSUME EInv, NEW t \in Task, Step(t), Steady(t), ~ failed
    PROVE  NodeOK(t)'
<1> USE SchedOKFacts DEF At, Goto
<1>0. /\ t \in Waiting(Waiters) => /\ pc[t] \in {"pended", "yield", "resume"}
                                   /\ IsSync(t) /\ ~ opaque[t].unblocked => opaque[t].clear
      /\ Active(t) /\ This(t).op # "wait" /\ opaque[t].unblocked => pc[t] \in {"pended", "yield", "resume"}
    BY DEF Steady, NodeOK
<1>1. CASE EndCall(t)
    <2>1. t \notin Waiting(Waiters)'
        BY <1>1, QuietEffect DEF QuietStep
    <2>2. pc[t] \in {"ok", "timeout"} /\ Active(t)
        BY <1>1 DEF EndCall, PlacesInv, PlaceOK
    <2>3. opaque' = [opaque EXCEPT ![t] = IF This(t).op = "wait" THEN Zero ELSE @]
        BY <1>1 DEF EndCall
    <2>4. ~ opaque'[t].unblocked
        BY <1>0, <2>2, <2>3 DEF TypesInv, Zero
    <2>5. QED
        BY <2>1, <2>4 DEF NodeOK
<1>2. ASSUME UNCHANGED results
      PROVE  This(t)' = This(t) /\ (Active(t)' <=> Active(t)) /\ (IsSync(t)' <=> IsSync(t))
    BY <1>2, SameCalls
<1>3. CASE ResumeSync(t)
    <2>1. t \notin Waiting(Waiters)'
        BY <1>3, QuietEffect DEF QuietStep
    <2>2. ~ opaque'[t].unblocked
        BY <1>3 DEF ResumeSync, TypesInv, Zero
    <2>3. QED
        BY <2>1, <2>2 DEF NodeOK
<1>p. CASE Replay(t)
    <2>1. t \notin Waiting(Waiters)'
        BY <1>p, QuietEffect DEF QuietStep
    <2>2. pc[t] = "call" /\ UNCHANGED results /\ opaque' \in {opaque, [opaque EXCEPT ![t] = Zero]}
        BY <1>p DEF Replay
    <2>3. opaque'[t].unblocked => opaque[t].unblocked
        BY <2>2 DEF TypesInv, Zero
    <2>4. QED
        BY <1>0, <1>2, <2>1, <2>2, <2>3 DEF NodeOK
<1>4. CASE QuietStep(t) /\ ~ EndCall(t) /\ ~ ResumeSync(t) /\ ~ Replay(t)
    <2>1. t \notin Waiting(Waiters)' /\ t \notin Waiting(Waiters) /\ cur = t
        BY <1>4, QuietEffect
    <2>2. opaque'[t] = opaque[t]
        <3>1. CASE MarkWaiter(t)
            <4>1. PICK i \in DOMAIN todo : Marks(t, i)
                BY <3>1, MarkFacts
            <4>2. pc[cur] = "scan"
                BY <2>1, <3>1 DEF MarkWaiter
            <4>3. todo[i] \in Waiting(Waiters)
                BY <4>1, <4>2 DEF EInv, ScanOK, Scanning, Elems
            <4>4. QED
                BY <2>1, <4>1, <4>3 DEF Marks, TypesInv
        <3>2. CASE ~ MarkWaiter(t)
            BY <1>4, <3>2 DEF QuietStep, BeginWait, FindBits, Poll, Resume, BeginSet, Replay, SetTx, EndScan,
                              ClearTx, SyncMet, SyncPoll, OriginalTx, persistent
        <3>3. QED
            BY <3>1, <3>2
    <2>3. This(t).op = "wait" \/ pc[t] \notin {"pended", "yield", "resume"}
        BY <1>4 DEF QuietStep, BeginWait, FindBits, Poll, Resume, BeginSet, Replay, SetTx, MarkWaiter, EndScan,
                    ClearTx, SyncMet, SyncPoll, OriginalTx
    <2>4. QED
        BY <1>0, <1>2, <1>4, <2>1, <2>2, <2>3, ResultsStep DEF NodeOK
<1>5. CASE Block(t) \/ SyncBlock(t)
    <2>1. pc'[t] \in {"pended", "yield"} /\ UNCHANGED results
        BY <1>5, BlockEffect
    <2>2. PICK c, al : /\ opaque' = [opaque EXCEPT ![t] = [bits |-> This(t).for, clear |-> c, all |-> al,
                                                   unblocked |-> FALSE]]
                       /\ Block(t) \/ c = TRUE
        BY <1>5 DEF Block, SyncBlock, Sleep
    <2>3. ~ opaque'[t].unblocked /\ (Block(t) \/ opaque'[t].clear)
        BY <2>1, <2>2 DEF TypesInv
    <2>4. Block(t) => ~ IsSync(t)
        BY DEF Block, PlacesInv, PlaceOK, IsSync
    <2>5. QED
        BY <1>2, <2>1, <2>3, <2>4 DEF NodeOK
<1>6. CASE RemoveWaiter(t)
    <2>1. t \notin Waiting(Waiters)'
        BY <1>6, RemoveEffect DEF Woken
    <2>2. pc[t] = "remove" /\ UNCHANGED <<opaque, results>>
        BY <1>6 DEF RemoveWaiter, persistent
    <2>3. QED
        BY <1>0, <1>2, <2>1, <2>2 DEF NodeOK
<1>7. CASE Yield(t)
    <2>1. UNCHANGED <<opaque, results, wait>> /\ pc[t] \in {"pended", "yield", "setyield"}
        BY <1>7 DEF Yield, YieldNow, persistent
    <2>2. pc[t] # "setyield" => pc'[t] \in {"yield", "resume"}
        BY <1>7 DEF Yield, TypesInv
    <2>3. t \in Waiting(Waiters)' <=> t \in Waiting(Waiters)
        BY <2>1 DEF Waiting
    <2>4. QED
        BY <1>0, <1>2, <2>1, <2>2, <2>3 DEF NodeOK
<1>8. CASE Finished(t)
    <2>1. ~ Active(t) /\ UNCHANGED results /\ Waiting(Waiters)' = Waiting(Waiters)
        BY <1>8, FinishedEffect DEF Finished, persistent
    <2>2. t \notin Waiting(Waiters)
        BY <2>1 DEF EInv, WaiterOK
    <2>3. QED
        BY <1>2, <2>1, <2>2 DEF NodeOK
<1>9. QED
    BY <1>1, <1>3, <1>4, <1>5, <1>6, <1>7, <1>8, <1>p DEF Step, QuietStep

\* Its own step does not make a patient sync give up.
LEMMA PatientOwn ==
    ASSUME EInv, NEW t \in Task, Step(t), Steady(t), ~ failed
    PROVE  PatientOK(t)'
<1> USE SchedOKFacts DEF At, Goto
<1>0. /\ Active(t) /\ Patient(This(t)) =>
            /\ pc[t] # "timeout"
            /\ pc[t] \in {"pended", "yield", "resume"} =>
                  opaque[t].unblocked \/ (t \in Waiting(Waiters) /\ left[t] = Never)
      /\ \A j \in DOMAIN results[t] : Patient(Program[t][j]) => results[t][j] = "ok"
    BY DEF Steady, PatientOK
<1>1. CASE EndCall(t)
    <2>1. /\ pc'[t] = "call" /\ pc[t] \in {"ok", "timeout"} /\ Active(t)
          /\ results'[t] = Append(results[t], pc[t])
        BY <1>1 DEF EndCall, TypesInv, PlacesInv, PlaceOK
    <2>2. results[t] \in Seq({"ok", "timeout"})
        BY DEF TypesInv
    <2>3. ASSUME NEW j \in DOMAIN results'[t], Patient(Program[t][j]) PROVE results'[t][j] = "ok"
        <3>1. j \in DOMAIN results[t] \/ j = CallNo(t)
            BY <2>1, <2>2 DEF CallNo
        <3>2. CASE j \in DOMAIN results[t]
            BY <1>0, <2>1, <2>2, <2>3, <3>2
        <3>3. CASE j = CallNo(t)
            <4>1. results'[t][j] = pc[t]
                BY <2>1, <2>2, <3>3 DEF CallNo
            <4>2. QED
                BY <1>0, <2>1, <2>3, <3>3, <4>1 DEF This
        <3>4. QED
            BY <3>1, <3>2, <3>3
    <2>4. QED
        BY <2>1, <2>3 DEF PatientOK
<1>2. ASSUME UNCHANGED results, pc'[t] \notin {"timeout", "pended", "yield", "resume"} PROVE PatientOK(t)'
    BY <1>0, <1>2 DEF PatientOK
<1>3. ASSUME UNCHANGED results
      PROVE  This(t)' = This(t) /\ (Active(t)' <=> Active(t))
    BY <1>3, SameCalls
<1>4. CASE ResumeSync(t)
    <2>1. pc[t] = "resume" /\ ~ Delayed(t) /\ Active(t) /\ UNCHANGED results
        BY <1>4 DEF ResumeSync, WokenUp
    <2>2. t \notin Waiting(Waiters)
        BY <2>1 DEF Delayed, Asleep
    <2>3. Patient(This(t)) => pc'[t] = "ok"
        BY <1>0, <1>4, <2>1, <2>2 DEF ResumeSync, WokenUp, TypesInv
    <2>4. pc'[t] \in {"ok", "timeout"}
        BY <1>4 DEF ResumeSync, WokenUp, TypesInv
    <2>5. QED
        BY <1>0, <1>3, <2>1, <2>3, <2>4 DEF PatientOK
<1>5. CASE Resume(t) \/ Block(t)
    <2>1. This(t).op = "wait" /\ UNCHANGED results
        BY <1>5 DEF Resume, WokenUp, Block, PlacesInv, PlaceOK
    <2>2. QED
        BY <1>0, <1>3, <2>1 DEF PatientOK, Patient
<1>6. CASE SyncBlock(t)
    <2>1. pc'[t] # "timeout" /\ UNCHANGED results /\ Slept(t, Waiters, This(t).ticks)
        BY <1>6, BlockEffect
    <2>2. left'[t] = This(t).ticks
        BY <2>1 DEF Slept, ListsOK, SchedTypeOK
    <2>3. t \in Waiting(Waiters)'
        BY <2>1 DEF Slept
    <2>4. QED
        BY <1>0, <1>3, <2>1, <2>2, <2>3 DEF PatientOK, Patient
<1>7. CASE Yield(t)
    <2>1. UNCHANGED <<opaque, results, wait, left>>
        BY <1>7 DEF Yield, YieldNow, persistent
    <2>2. (pc[t] \in {"pended", "yield"} /\ pc'[t] \in {"yield", "resume"}) \/ pc'[t] = "ok"
        BY <1>7 DEF Yield, TypesInv
    <2>3. t \in Waiting(Waiters)' <=> t \in Waiting(Waiters)
        BY <2>1 DEF Waiting
    <2>4. QED
        BY <1>0, <1>3, <2>1, <2>2, <2>3 DEF PatientOK
<1>8. CASE BeginWait(t) \/ FindBits(t) \/ Poll(t) \/ BeginSet(t) \/ Replay(t) \/ SetTx(t)
    <2>1. pc'[t] \notin {"timeout", "pended", "yield", "resume"} /\ UNCHANGED results
        BY <1>8 DEF BeginWait, FindBits, Poll, BeginSet, Replay, SetTx, TypesInv, persistent
    <2>2. QED
        BY <1>2, <2>1
<1>9. CASE MarkWaiter(t) \/ RemoveWaiter(t) \/ EndScan(t) \/ OriginalTx(t)
    <2>1. pc'[t] \notin {"timeout", "pended", "yield", "resume"} /\ UNCHANGED results
        BY <1>9 DEF MarkWaiter, RemoveWaiter, EndScan, OriginalTx, TypesInv, persistent
    <2>2. QED
        BY <1>2, <2>1
<1>10. CASE ClearTx(t) \/ SyncMet(t) \/ SyncPoll(t)
    <2>1. pc'[t] \notin {"timeout", "pended", "yield", "resume"} /\ UNCHANGED results
        BY <1>10 DEF ClearTx, SyncMet, SyncPoll, Leave, TypesInv, persistent
    <2>2. QED
        BY <1>2, <2>1
<1>11. CASE Finished(t)
    <2>1. pc'[t] = "over" /\ UNCHANGED results
        BY <1>11, FinishedEffect DEF Finished, persistent
    <2>2. QED
        BY <1>2, <2>1
<1>12. QED
    BY <1>1, <1>4, <1>5, <1>6, <1>7, <1>8, <1>9, <1>10, <1>11 DEF Step

\* Every step leaves every task steady: the tick does not wake who waits for ever.
LEMMA SteadyStep ==
    ASSUME EInv, Never > 1, [Next]_vars, NEW t \in Task, Steady(t)
    PROVE  Steady(t)'
<1> USE SchedOKFacts
<1>1. CASE failed'
    BY <1>1 DEF Steady, CountersOK, NodeOK, PatientOK
<1>2. ASSUME Step(t), ~ failed PROVE Steady(t)'
    <2>1. CountersOK(t)'
        <3>1. CASE EndCall(t)
            <4>1. pc'[t] = "call"
                BY <3>1 DEF EndCall, Goto, TypesInv
            <4>2. QED
                BY <4>1 DEF CountersOK
        <3>2. QED
            BY <1>2, <3>1, CountersStep DEF Steady
    <2>2. QED
        BY <1>2, <2>1, NodeOwn, PatientOwn DEF Steady
<1>3. CASE \E v \in Task : Step(v)
    <2>1. PICK v \in Task : Step(v)
        BY <1>3
    <2>2. failed' = failed
        BY <2>1, BitsStep
    <2>3. CASE v = t
        BY <1>1, <1>2, <2>1, <2>2, <2>3
    <2>4. CASE v # t
        BY <2>1, <2>4, SteadyOther
    <2>5. QED
        BY <2>3, <2>4
<1>4. CASE Tick
    <2>1. UNCHANGED <<opaque, results, txDone, pc, ptr, failed>>
        BY <1>4 DEF Tick, persistent, registers, history
    <2>2. /\ Waiting(Waiters)' = {u \in Waiting(Waiters) : left[u] > 1}
          /\ left[t] = Never => left'[t] = Never
        BY <1>4, TickFacts DEF Tick
    <2>3. /\ This(t)' = This(t) /\ (Active(t)' <=> Active(t)) /\ (IsSync(t)' <=> IsSync(t))
        BY <2>1, SameCalls
    <2>4. CountersOK(t)' /\ NodeOK(t)'
        BY <2>1, <2>2, <2>3 DEF Steady, CountersOK, NodeOK
    <2>5. PatientOK(t)'
        BY <2>1, <2>2, <2>3 DEF Steady, PatientOK
    <2>6. QED
        BY <2>4, <2>5 DEF Steady
<1>5. CASE PowerFailure
    BY <1>1, <1>5 DEF PowerFailure
<1>6. CASE UNCHANGED vars
    <2>1. UNCHANGED <<opaque, results, txDone, pc, ptr, failed, left, wait>>
        BY <1>6 DEF vars, schedVars, persistent, registers, history
    <2>2. /\ This(t)' = This(t) /\ (Active(t)' <=> Active(t)) /\ (IsSync(t)' <=> IsSync(t))
          /\ t \in Waiting(Waiters)' <=> t \in Waiting(Waiters)
        BY <2>1, SameCalls DEF Waiting
    <2>3. QED
        BY <2>1, <2>2 DEF Steady, CountersOK, NodeOK, PatientOK
<1>7. QED
    BY <1>3, <1>4, <1>5, <1>6 DEF Next

\* A task whose call is about to return, or is certain to.
Freed(t) == pc[t] \in {"ok", "setyield"} \/ opaque[t].unblocked

\* What holds of t while the task that sets the bits S in round k has not
\* arrived: t has not returned from the round; in the round it is not freed and
\* finds none of the bits; and when it is about to enter the round, the bits of
\* the round before are gone or about to be cleared.
NoResult(t, k) == k \in DOMAIN results[t] => results[t][k] # "ok"

InRound(t, S, k) ==
    CallNo(t) = k => /\ ~ Freed(t) /\ S \cap bits = {}
                     /\ txDone[t] >= 1 => S \cap original[t] = {}

OnEve(t, S, k) ==
    CallNo(t) + 1 = k /\ Freed(t) =>
        S \cap bits = {} \/ (pc[cur] \in Scanning /\ S \subseteq toClear)

Early(t, u, k) ==
    /\ NoResult(t, k)
    /\ InRound(t, Program[u][k].set, k) /\ OnEve(t, Program[u][k].set, k)

\* u is expected by t and k is the first round in which it has not arrived
Awaited(t, u, k) ==
    /\ t # u /\ Expects(t, u, k)
    /\ k = 1 \/ (~ failed /\ Arrived(u, k - 1))
    /\ ~ Arrived(u, k)

RoundsInv ==
    \A t, u \in Task : \A k \in DOMAIN Program[t] \cap DOMAIN Program[u] :
        Awaited(t, u, k) => Early(t, u, k)

\* A task has recorded the results of the calls before the one it makes.
LEMMA CallNoFacts ==
    ASSUME TypesInv, NEW t \in Task
    PROVE  /\ CallNo(t) \in Nat /\ CallNo(t) >= 1
           /\ DOMAIN results[t] = 1 .. CallNo(t) - 1
           /\ DOMAIN Program[t] \subseteq Nat \ {0}
           /\ CallNo(t) \in DOMAIN Program[t] <=> Active(t)
<1>1. results[t] \in Seq({"ok", "timeout"}) /\ Program[t] \in Seq(Call)
    BY EventGroupAssumption DEF TypesInv, EventGroupAssumption
<1>2. QED
    BY <1>1 DEF CallNo, Active

\* A step makes at most one call return, and within a call it only commits.
LEMMA CallNoStep ==
    ASSUME EInv, [Next]_vars, NEW u \in Task
    PROVE  \/ /\ CallNo(u)' = CallNo(u) /\ results'[u] = results[u]
              /\ txDone'[u] \in Nat /\ txDone[u] \in Nat /\ txDone'[u] >= txDone[u]
           \/ /\ CallNo(u)' = CallNo(u) + 1 /\ txDone'[u] = 0
              /\ EndCall(u) /\ results'[u] = Append(results[u], pc[u])
<1> USE SchedOKFacts
<1>0. txDone[u] \in Nat
    BY DEF TypesInv
<1>1. ASSUME NEW v \in Task \ {u}, Step(v)
      PROVE  CallNo(u)' = CallNo(u) /\ results'[u] = results[u] /\ txDone'[u] = txDone[u]
    BY <1>1, OtherTasks, OtherNodes DEF CallNo
<1>2. CASE EndCall(u)
    <2>1. results'[u] = Append(results[u], pc[u]) /\ txDone'[u] = 0
        BY <1>2 DEF EndCall, TypesInv
    <2>2. Len(results'[u]) = Len(results[u]) + 1
        BY <1>2, <2>1 DEF TypesInv, EndCall
    <2>3. CallNo(u)' = CallNo(u) + 1
        BY <2>2 DEF CallNo
    <2>4. QED
        BY <1>2, <2>1, <2>3
<1>3. CASE Step(u) /\ ~ EndCall(u)
    <2>1. UNCHANGED results
        BY <1>3, ResultsStep
    <2>2. QED
        BY <1>0, <1>3, <2>1, CountersStep DEF CallNo
<1>4. CASE Tick \/ PowerFailure \/ UNCHANGED vars
    <2>1. UNCHANGED <<results, txDone>>
        BY <1>4 DEF Tick, PowerFailure, vars, persistent
    <2>2. QED
        BY <1>0, <2>1 DEF CallNo
<1>5. QED
    BY <1>0, <1>1, <1>2, <1>3, <1>4 DEF Next

\* Who has arrived stays so.
LEMMA ArrivedStep ==
    ASSUME EInv, [Next]_vars, NEW u \in Task, NEW k \in Nat, Arrived(u, k)
    PROVE  Arrived(u, k)'
<1>1. CallNo(u) \in Nat
    BY SchedOKFacts, CallNoFacts
<1>2. QED
    BY <1>1, CallNoStep DEF Arrived

\* While u has not arrived in round k, no step adds its bits.
LEMMA FewerBits ==
    ASSUME EInv, NEW v \in Task, Step(v), NEW u \in Task, Steady(u), NEW k \in DOMAIN Program[u],
           Program[u][k].op = "sync", NEW S,
           \A w \in Task \ {u} : \A i \in DOMAIN Program[w] : Program[w][i].set \cap S = {},
           k = 1 \/ (~ failed /\ Arrived(u, k - 1)), ~ Arrived(u, k), ~ Arrived(u, k)'
    PROVE  S \cap bits' \subseteq bits
<1> USE SchedOKFacts
<1> SUFFICES ASSUME SetTx(v) PROVE S \cap bits' \subseteq bits
    BY BitsStep
<1>1. /\ pc[v] = "set" /\ RunTx(v, bits \cup This(v).set) /\ UNCHANGED results
      /\ PlaceOK(v) /\ Active(v)
    BY DEF SetTx, At, PlacesInv, PlaceOK
<1>2. CASE v # u
    <2>1. This(v).set \cap S = {}
        BY <1>1, <1>2, CallNoFacts DEF This
    <2>2. QED
        BY <1>1, <2>1 DEF RunTx
<1>3. CASE v = u
    <2>1. k \in Nat /\ k >= 1 /\ CallNo(u) \in Nat /\ CallNo(u) >= 1 /\ CallNo(u)' = CallNo(u)
        BY <1>1, CallNoFacts DEF CallNo
    <2>2. txDone \in [Task -> Nat] /\ ptr \in [Task -> Nat]
        BY DEF TypesInv
    <2>3. CASE CallNo(u) = k
        <3>1. ptr[u] = 1
            BY <1>1, <1>3, <2>3 DEF PlaceOK, IsSync, This
        <3>2. txDone'[u] < 2
            BY <2>1, <2>3, RunTxFacts, <1>1, <1>3, <3>1 DEF Arrived
        <3>3. QED
            BY <1>1, <1>3, <2>2, <3>1, <3>2 DEF RunTx, PlaceOK
    <2>4. CASE CallNo(u) # k
        <3>1. k > 1 /\ ~ failed /\ CallNo(u) = k - 1 /\ txDone[u] >= 2
            BY <2>1, <2>4 DEF Arrived
        <3>2. ptr[u] <= 1 /\ ptr[u] = txDone[u]
            BY <1>1, <1>3, <3>1 DEF PlaceOK, Steady, CountersOK
        <3>3. QED
            BY <2>2, <3>1, <3>2
    <2>5. QED
        BY <2>3, <2>4
<1>4. QED
    BY <1>2, <1>3

\* A set that marks a sync has found all its bits and clears them if the sync
\* wants that.
LEMMA MarkedSync ==
    ASSUME EInv, NEW v \in Task, MarkWaiter(v), NEW t \in Task \ {v}, t \in Waiting(Waiters),
           IsSync(t), ~ opaque[t].unblocked, opaque'[t].unblocked
    PROVE  /\ This(t).for \subseteq bits
           /\ opaque[t].clear => This(t).for \subseteq toClear' /\ pc'[cur'] \in Scanning
<1> USE SchedOKFacts
<1>1. PICK i \in DOMAIN todo : Marks(v, i)
    BY MarkFacts
<1>2. t = todo[i]
    BY <1>1 DEF Marks, TypesInv
<1>3. pc[cur] = "scan" /\ cur = v /\ cur' = v
    BY DEF MarkWaiter, At, schedVars
<1>4. shot = bits /\ WaiterOK(t)
    BY <1>3 DEF EInv, ScanOK, Scanning
<1>5. opaque[t].bits = This(t).for /\ opaque[t].all
    BY <1>4 DEF WaiterOK
<1>6. This(t).for \subseteq bits
    BY <1>1, <1>2, <1>4, <1>5 DEF Marks, Unblocks, WaitConditionOk
<1>7. opaque[t].clear => This(t).for \subseteq toClear'
    BY <1>1, <1>2, <1>5 DEF Marks
<1>8. pc'[cur'] = "remove"
    BY <1>1, <1>3 DEF Marks, TypesInv
<1>9. QED
    BY <1>6, <1>7, <1>8 DEF Scanning

\* A sync that has time to wait frees itself only when it finds its bits, which
\* it then clears.
LEMMA FreesItself ==
    ASSUME EInv, NEW t \in Task, Step(t), ~ EndCall(t), IsSync(t), This(t).ticks # 0,
           ~ Freed(t), Freed(t)'
    PROVE  /\ RunTx(t, bits \ This(t).for)
           /\ pc[t] \notin {"call", "over"}
           /\ (pc[t] = "decide" /\ Met(t)) \/ This(t).for \subseteq bits
<1> USE SchedOKFacts DEF At, Goto
<1>0. pc[t] \notin {"ok", "setyield"} /\ ~ opaque[t].unblocked
    BY DEF Freed
<1>1. CASE SyncMet(t)
    BY <1>1 DEF SyncMet
<1>2. CASE ResumeSync(t)
    <2>1. ~ opaque'[t].unblocked
        BY <1>2 DEF ResumeSync, TypesInv, Zero
    <2>2. pc'[t] = "ok" \/ pc'[t] = "timeout"
        BY <1>2 DEF ResumeSync, WokenUp, TypesInv
    <2>3. pc'[t] = "ok"
        BY <2>1, <2>2 DEF Freed
    <2>4. Satisfied(t)
        BY <1>0, <1>2, <2>3 DEF ResumeSync, WokenUp, TypesInv
    <2>5. Consume(t) /\ pc[t] = "resume"
        BY <1>0, <1>2, <2>4 DEF ResumeSync, WokenUp
    <2>6. QED
        BY <2>4, <2>5 DEF Consume, Satisfied, WaitConditionOk, IsSync
<1>3. CASE MarkWaiter(t)
    <2>1. PICK i \in DOMAIN todo : Marks(t, i)
        BY <1>3, MarkFacts
    <2>2. pc[cur] = "scan" /\ t \notin Waiting(Waiters)
        BY <1>3, QuietEffect DEF MarkWaiter, QuietStep
    <2>3. todo[i] \in Waiting(Waiters)
        BY <2>1, <2>2 DEF EInv, ScanOK, Scanning, Elems
    <2>4. opaque'[t] = opaque[t] /\ pc'[t] = "remove"
        BY <2>1, <2>2, <2>3 DEF Marks, TypesInv
    <2>5. QED
        BY <1>0, <2>4 DEF Freed
<1>4. CASE BeginWait(t) \/ FindBits(t) \/ Poll(t) \/ Resume(t) \/ Block(t)
    <2>1. This(t).op = "wait"
        BY <1>4 DEF BeginWait, FindBits, Poll, Resume, Block, PlacesInv, PlaceOK
    <2>2. QED
        BY <2>1 DEF IsSync
<1>p. CASE Replay(t)
    <2>1. pc' = pc /\ opaque' \in {opaque, [opaque EXCEPT ![t] = Zero]}
        BY <1>p DEF Replay
    <2>2. ~ opaque'[t].unblocked
        BY <1>0, <2>1 DEF TypesInv, Zero
    <2>3. QED
        BY <1>0, <2>1, <2>2 DEF Freed
<1>5. CASE BeginSet(t) \/ SetTx(t) \/ EndScan(t) \/ OriginalTx(t) \/ RemoveWaiter(t)
    <2>1. UNCHANGED opaque /\ pc'[t] \notin {"ok", "setyield"}
        BY <1>5 DEF BeginSet, Replay, SetTx, EndScan, OriginalTx, RemoveWaiter, persistent, TypesInv, IsSync
    <2>2. QED
        BY <1>0, <2>1 DEF Freed
<1>6. CASE ClearTx(t)
    <2>1. UNCHANGED opaque /\ pc'[t] = "decide"
        BY <1>6 DEF ClearTx, IsSync, TypesInv
    <2>2. QED
        BY <1>0, <2>1 DEF Freed
<1>7. CASE SyncPoll(t)
    BY <1>7 DEF SyncPoll
<1>8. CASE SyncBlock(t)
    <2>1. ~ opaque'[t].unblocked /\ pc'[t] \in {"pended", "yield"}
        BY <1>8 DEF SyncBlock, Sleep, TypesInv
    <2>2. QED
        BY <2>1 DEF Freed
<1>9. CASE Yield(t)
    <2>1. UNCHANGED opaque /\ pc'[t] \in {"yield", "resume"}
        BY <1>0, <1>9 DEF Yield, persistent, TypesInv
    <2>2. QED
        BY <1>0, <2>1 DEF Freed
<1>10. CASE Finished(t)
    <2>1. UNCHANGED opaque /\ pc'[t] = "over"
        BY <1>10, FinishedEffect DEF Finished, persistent
    <2>2. QED
        BY <1>0, <2>1 DEF Freed
<1>11. QED
    BY <1>1, <1>2, <1>3, <1>4, <1>5, <1>6, <1>7, <1>8, <1>9, <1>10, <1>p DEF Step

\* What a sync has found before its rendezvous does not come to hold the bits
\* that are not there.
LEMMA OriginalKept ==
    ASSUME EInv, NEW t \in Task, Step(t), ~ EndCall(t), Active(t), IsSync(t), NEW S, S \cap bits = {},
           ~ (This(t).for \subseteq bits), txDone[t] >= 1 => S \cap original[t] = {}, txDone'[t] >= 1
    PROVE  S \cap original'[t] = {}
<1> USE SchedOKFacts DEF At, Goto
<1>0. txDone \in [Task -> Nat] /\ ptr \in [Task -> Nat] /\ PlaceOK(t)
    BY DEF TypesInv, PlacesInv
<1>1. CASE OriginalTx(t)
    <2>1. \/ original'[t] = bits
          \/ original' = original /\ ptr[t] < txDone[t]
        BY <1>1 DEF OriginalTx, TypesInv
    <2>2. QED
        BY <1>0, <2>1
<1>2. CASE SetTx(t) \/ ClearTx(t) \/ SyncMet(t)
    <2>1. original' = original /\ ptr[t] >= 1 /\ ptr[t] <= txDone[t]
        BY <1>0, <1>2 DEF SetTx, ClearTx, SyncMet, PlaceOK, Scanning
    <2>2. QED
        BY <1>0, <2>1
<1>3. CASE BeginWait(t) \/ FindBits(t) \/ Poll(t) \/ Resume(t) \/ Block(t)
    <2>1. This(t).op = "wait"
        BY <1>3 DEF BeginWait, FindBits, Poll, Resume, Block, PlacesInv, PlaceOK
    <2>2. QED
        BY <2>1 DEF IsSync
<1>4. CASE ResumeSync(t)
    <2>1. ~ Satisfied(t)
        BY DEF Satisfied, WaitConditionOk, IsSync
    <2>2. UNCHANGED <<txDone, original>>
        BY <1>4, <2>1 DEF ResumeSync, WokenUp
    <2>3. QED
        BY <2>2
<1>5. CASE BeginSet(t) \/ Replay(t) \/ EndScan(t) \/ RemoveWaiter(t) \/ MarkWaiter(t)
    <2>1. UNCHANGED <<txDone, original>>
        BY <1>5 DEF BeginSet, Replay, EndScan, RemoveWaiter, MarkWaiter, persistent
    <2>2. QED
        BY <2>1
<1>6. CASE SyncPoll(t) \/ SyncBlock(t) \/ Yield(t) \/ Finished(t)
    <2>1. UNCHANGED <<txDone, original>>
        BY <1>6 DEF SyncPoll, SyncBlock, Yield, Finished, persistent
    <2>2. QED
        BY <2>1
<1>7. QED
    BY <1>1, <1>2, <1>3, <1>4, <1>5, <1>6 DEF Step

\* A round of t that somebody has not reached, and the round before it.
Round(t, S, k) ==
    /\ k \in DOMAIN Program[t] /\ S # {}
    /\ Program[t][k].op = "sync" /\ Program[t][k].ticks # 0
    /\ S \subseteq Program[t][k].for /\ S \cap Program[t][k].set = {}
    /\ k > 1 => /\ k - 1 \in DOMAIN Program[t] /\ Patient(Program[t][k - 1])
                /\ Program[t][k - 1].ticks # 0 /\ S \subseteq Program[t][k - 1].for

\* A step keeps a task in its round, and brings it there without the bits.
LEMMA InRoundStep ==
    ASSUME EInv, NEW v \in Task, Step(v), NEW t \in Task, Steady(t), NEW k \in Nat, k >= 1, NEW S,
           Round(t, S, k), k = 1 \/ ~ failed, S \cap bits' \subseteq bits,
           InRound(t, S, k), OnEve(t, S, k)
    PROVE  InRound(t, S, k)'
<1> USE SchedOKFacts
<1> SUFFICES ASSUME CallNo(t)' = k
             PROVE  /\ ~ Freed(t)' /\ S \cap bits' = {}
                    /\ txDone'[t] >= 1 => S \cap original'[t] = {}
    BY DEF InRound
<1>0. [Next]_vars /\ CallNo(t) \in Nat /\ CallNo(t) >= 1
    BY CallNoFacts DEF Next
<1>1. CASE CallNo(t) = k
    <2>1. /\ ~ Freed(t) /\ S \cap bits = {} /\ (txDone[t] >= 1 => S \cap original[t] = {})
        BY <1>1 DEF InRound
    <2>2. /\ Active(t) /\ IsSync(t) /\ This(t).ticks # 0 /\ S \subseteq This(t).for
          /\ S \cap This(t).set = {} /\ S # {}
        BY <1>1, CallNoFacts DEF Round, This, IsSync
    <2>3. ~ (This(t).for \subseteq bits)
        BY <2>1, <2>2
    <2>4. ~ EndCall(t)
        <3>1. ASSUME EndCall(t) PROVE FALSE
            <4>1. Len(results'[t]) = Len(results[t]) + 1
                BY <3>1 DEF EndCall, TypesInv
            <4>2. QED
                BY <1>0, <1>1, <4>1 DEF CallNo
        <3>2. QED
            BY <3>1
    <2>5. CASE v = t
        <3>1. ~ Freed(t)'
            <4>1. ASSUME Freed(t)' PROVE FALSE
                <5>1. pc[t] = "decide" /\ Met(t)
                    BY <2>1, <2>2, <2>3, <2>4, <2>5, <4>1, FreesItself
                <5>2. txDone[t] >= 1
                    <6>1. PlaceOK(t) /\ ptr[t] \in Nat /\ txDone[t] \in Nat
                        BY DEF PlacesInv, TypesInv
                    <6>2. ptr[t] = 3 /\ ptr[t] <= txDone[t]
                        BY <5>1, <6>1 DEF PlaceOK
                    <6>3. QED
                        BY <6>1, <6>2
                <5>3. QED
                    BY <2>1, <2>2, <5>1, <5>2 DEF Met
            <4>2. QED
                BY <4>1
        <3>2. txDone'[t] >= 1 => S \cap original'[t] = {}
            BY <2>1, <2>2, <2>3, <2>4, <2>5, OriginalKept
        <3>3. QED
            BY <2>1, <3>1, <3>2
    <2>6. CASE v # t
        <3>1. pc'[t] = pc[t] /\ txDone'[t] = txDone[t] /\ original'[t] = original[t]
            BY <2>6, OtherTasks
        <3>2. opaque'[t] = opaque[t] \/ ~ opaque'[t].unblocked
            <4>1. ASSUME t \in Waiting(Waiters), MarkWaiter(v), opaque'[t].unblocked PROVE FALSE
                BY <2>1, <2>2, <2>3, <2>6, <4>1, MarkedSync DEF Freed
            <4>2. QED
                BY <2>6, <4>1, OtherNodes
        <3>3. QED
            BY <2>1, <3>1, <3>2 DEF Freed
    <2>7. QED
        BY <2>5, <2>6
<1>2. CASE CallNo(t) # k
    <2>1. CallNo(t) + 1 = k /\ txDone'[t] = 0 /\ EndCall(t)
        BY <1>0, <1>2, CallNoStep
    <2>2. k > 1 /\ ~ failed /\ pc[t] \in {"ok", "timeout"} /\ cur = t
        BY <1>0, <2>1 DEF EndCall
    <2>3. Active(t) /\ Patient(This(t))
        <3>1. CallNo(t) = k - 1
            BY <1>0, <2>1
        <3>2. QED
            BY <2>2, <3>1, CallNoFacts DEF Round, This
    <2>4. pc[t] = "ok" /\ ~ opaque[t].unblocked
        BY <2>2, <2>3 DEF Steady, PatientOK, NodeOK, Patient
    <2>5. S \cap bits = {}
        BY <2>1, <2>2, <2>4 DEF OnEve, Freed, Scanning
    <2>6. pc'[t] = "call" /\ opaque'[t] = opaque[t]
        BY <2>1, <2>3 DEF EndCall, Goto, TypesInv, Patient
    <2>7. QED
        BY <2>1, <2>4, <2>5, <2>6 DEF Freed
<1>3. QED
    BY <1>1, <1>2

\* Who is freed in the round before leaves none of its bits behind.
LEMMA OnEveStep ==
    ASSUME EInv, NEW v \in Task, Step(v), NEW t \in Task, Steady(t), Steady(t)', Steady(v),
           NEW k \in Nat, k >= 1, NEW S,
           Round(t, S, k), k = 1 \/ ~ failed, S \cap bits' \subseteq bits, OnEve(t, S, k)
    PROVE  OnEve(t, S, k)'
<1> USE SchedOKFacts
<1> SUFFICES ASSUME CallNo(t)' + 1 = k, Freed(t)'
             PROVE  S \cap bits' = {} \/ (pc'[cur'] \in Scanning /\ S \subseteq toClear')
    BY DEF OnEve
<1>0. /\ [Next]_vars /\ CallNo(t) \in Nat /\ CallNo(t) >= 1 /\ failed' = failed
      /\ txDone \in [Task -> Nat] /\ ptr \in [Task -> Nat] /\ cur = v
    BY CallNoFacts, BitsStep, PcStep DEF Next, TypesInv
<1>1. CallNo(t)' \in Nat /\ CallNo(t)' >= 1
    BY <1>0, CallNoStep
<1>2. /\ k > 1 /\ ~ failed /\ k - 1 \in DOMAIN Program[t] /\ Patient(Program[t][k - 1])
      /\ Program[t][k - 1].ticks # 0 /\ S \subseteq Program[t][k - 1].for
    BY <1>1 DEF Round
<1>3. CASE CallNo(t)' # CallNo(t)
    <2>1. EndCall(t)
        BY <1>0, <1>3, CallNoStep
    <2>2. pc'[t] = "call"
        BY <2>1 DEF EndCall, Goto, TypesInv
    <2>3. CallNo(t)' = k - 1
        BY <1>1
    <2>4. This(t)' = Program[t][k - 1]
        BY <2>3 DEF This
    <2>5. Active(t)'
        <3>1. Program[t] \in Seq(Call)
            BY EventGroupAssumption DEF EventGroupAssumption
        <3>2. k - 1 <= Len(Program[t])
            BY <1>2, <3>1
        <3>3. QED
            BY <2>3, <3>2 DEF Active
    <2>6. opaque'[t].unblocked
        BY <2>2 DEF Freed
    <2>7. QED
        BY <1>0, <1>2, <2>2, <2>4, <2>5, <2>6 DEF Steady, NodeOK, Patient
<1>4. CASE CallNo(t)' = CallNo(t)
    <2>1. CallNo(t) = k - 1
        BY <1>1, <1>4
    <2>2. This(t) = Program[t][k - 1] /\ Active(t)
        BY <1>2, <2>1, CallNoFacts DEF This
    <2>3. IsSync(t) /\ This(t).ticks # 0 /\ S \subseteq This(t).for
        BY <1>2, <2>2 DEF IsSync, Patient
    <2>4. CASE Freed(t)
        <3>1. S \cap bits = {} \/ (pc[cur] \in Scanning /\ S \subseteq toClear)
            BY <1>0, <1>2, <2>1, <2>4 DEF OnEve
        <3>2. CASE S \cap bits = {}
            BY <3>2
        <3>3. CASE pc[v] \in Scanning /\ S \subseteq toClear
            <4>1. MarkWaiter(v) \/ RemoveWaiter(v) \/ EndScan(v) \/ ClearTx(v)
                BY <3>3 DEF Step, BeginWait, FindBits, Poll, Resume, BeginSet, Replay, SetTx, SyncMet, SyncPoll,
                   ResumeSync, WokenUp, OriginalTx, EndCall, Block, SyncBlock, Yield, Finished, At, Scanning
            <4>2. CASE MarkWaiter(v)
                <5>1. PICK i \in DOMAIN todo : Marks(v, i)
                    BY <4>2, MarkFacts
                <5>2. cur' = v /\ toClear \subseteq toClear' /\ pc'[v] = "remove"
                    BY <1>0, <5>1 DEF Marks, schedVars, TypesInv
                <5>3. QED
                    BY <3>3, <5>2 DEF Scanning
            <4>3. CASE RemoveWaiter(v)
                <5>1. cur' = v /\ toClear' = toClear /\ pc'[v] = "scan"
                    BY <1>0, <4>3 DEF RemoveWaiter, Wake, Goto, TypesInv
                <5>2. QED
                    BY <3>3, <5>1 DEF Scanning
            <4>4. CASE EndScan(v)
                <5>1. cur' = v /\ toClear' = toClear /\ pc'[v] = "clear"
                    BY <1>0, <4>4 DEF EndScan, Goto, TypesInv, schedVars, ScanRegisters
                <5>2. QED
                    BY <3>3, <5>1 DEF Scanning
            <4>5. CASE ClearTx(v)
                <5>1. RunTx(v, bits \ toClear) /\ ptr[v] = txDone[v]
                    BY <1>2, <3>3, <4>5 DEF ClearTx, Steady, CountersOK, Scanning
                <5>2. bits' = bits \ toClear
                    BY <1>0, <5>1 DEF RunTx
                <5>3. QED
                    BY <3>3, <5>2
            <4>6. QED
                BY <4>1, <4>2, <4>3, <4>4, <4>5
        <3>4. QED
            BY <1>0, <3>1, <3>2, <3>3
    <2>5. CASE ~ Freed(t) /\ v = t
        <3>1. ~ EndCall(t)
            <4>1. ASSUME EndCall(t) PROVE FALSE
                <5>1. Len(results'[t]) = Len(results[t]) + 1
                    BY <4>1 DEF EndCall, TypesInv
                <5>2. QED
                    BY <1>0, <1>4, <5>1 DEF CallNo
            <4>2. QED
                BY <4>1
        <3>2. RunTx(t, bits \ This(t).for) /\ pc[t] \notin {"call", "over"}
            BY <2>3, <2>5, <3>1, FreesItself
        <3>3. ptr[t] = txDone[t]
            BY <1>2, <3>2 DEF Steady, CountersOK
        <3>4. bits' = bits \ This(t).for
            BY <1>0, <3>2, <3>3 DEF RunTx
        <3>5. QED
            BY <2>3, <3>4
    <2>6. CASE ~ Freed(t) /\ v # t
        <3>1. pc'[t] = pc[t]
            BY <2>6, OtherTasks
        <3>2. opaque'[t].unblocked /\ ~ opaque[t].unblocked
            BY <2>6, <3>1 DEF Freed
        <3>3. t \in Waiting(Waiters) /\ MarkWaiter(v)
            BY <2>6, <3>2, OtherNodes
        <3>4. opaque[t].clear
            BY <1>2, <2>3, <3>2, <3>3 DEF Steady, NodeOK
        <3>5. QED
            BY <2>3, <2>6, <3>2, <3>3, <3>4, MarkedSync
    <2>7. QED
        BY <2>4, <2>5, <2>6
<1>5. QED
    BY <1>3, <1>4

\* A sync that is not freed returns for the time that has passed.
LEMMA NoResultStep ==
    ASSUME EInv, [Next]_vars, NEW t \in Task, NEW k \in Nat, NEW S, NoResult(t, k), InRound(t, S, k)
    PROVE  NoResult(t, k)'
<1> USE SchedOKFacts
<1> SUFFICES ASSUME k \in DOMAIN results'[t] PROVE results'[t][k] # "ok"
    BY DEF NoResult
<1>1. CASE results'[t] = results[t]
    BY <1>1 DEF NoResult
<1>2. CASE EndCall(t) /\ results'[t] = Append(results[t], pc[t])
    <2>1. results[t] \in Seq({"ok", "timeout"}) /\ pc[t] \in {"ok", "timeout"}
        BY <1>2 DEF EndCall, TypesInv
    <2>2. CASE k \in DOMAIN results[t]
        BY <1>2, <2>1, <2>2 DEF NoResult
    <2>3. CASE k = Len(results[t]) + 1
        <3>1. results'[t][k] = pc[t]
            BY <1>2, <2>1, <2>3
        <3>2. ~ Freed(t)
            BY <2>3 DEF InRound, CallNo
        <3>3. QED
            BY <3>1, <3>2 DEF Freed
    <2>4. QED
        BY <1>2, <2>1, <2>2, <2>3
<1>3. QED
    BY <1>1, <1>2, CallNoStep

\* Who expects a task in a round is in a round of its own.
LEMMA RoundFacts ==
    ASSUME Meeting, NEW t \in Task, NEW u \in Task, t # u,
           NEW k \in DOMAIN Program[t] \cap DOMAIN Program[u], Expects(t, u, k)
    PROVE  /\ k \in Nat /\ k >= 1 /\ Round(t, Program[u][k].set, k)
           /\ Program[u][k].op = "sync"
           /\ \A w \in Task \ {u} : \A i \in DOMAIN Program[w] :
                 Program[w][i].set \cap Program[u][k].set = {}
           /\ \A j \in 1 .. k - 1 : /\ j \in DOMAIN Program[t] \cap DOMAIN Program[u]
                                    /\ Expects(t, u, j) /\ Patient(Program[t][j])
<1>1. /\ Program[u][k].set # {}
      /\ \A w \in Task \ {u} : \A i \in DOMAIN Program[w] :
            Program[w][i].set \cap Program[u][k].set = {}
      /\ \A j \in 1 .. k - 1 : /\ Expects(t, u, j) /\ Program[t][j].ticks = Never
                               /\ Program[u][k].set \subseteq Program[t][j].for
    BY DEF Meeting
<1>2. Program[t] \in Seq(Call) /\ Program[u] \in Seq(Call)
    BY EventGroupAssumption DEF EventGroupAssumption
<1>3. k \in Nat /\ k >= 1 /\ \A j \in 1 .. k - 1 : j \in DOMAIN Program[t] \cap DOMAIN Program[u]
    BY <1>2
<1>4. \A j \in 1 .. k - 1 : Patient(Program[t][j]) /\ Program[t][j].ticks # 0
    BY <1>1 DEF Expects, Patient
<1>5. /\ k \in DOMAIN Program[t] /\ Program[t][k].op = "sync" /\ Program[t][k].ticks # 0
      /\ Program[u][k].op = "sync" /\ Program[u][k].set \subseteq Program[t][k].for
    BY DEF Expects
<1>6. Program[u][k].set \cap Program[t][k].set = {}
    BY <1>1, <1>5
<1>7. k > 1 => k - 1 \in 1 .. k - 1
    BY <1>3
<1>8. Round(t, Program[u][k].set, k)
    BY <1>1, <1>3, <1>4, <1>5, <1>6, <1>7 DEF Round
<1>9. QED
    BY <1>1, <1>3, <1>4, <1>5, <1>8

\* As long as u has not arrived in the round it is next to reach, t is early.
LEMMA RoundsStep ==
    ASSUME Meeting, EInv, \A t \in Task : Steady(t) /\ Steady(t)', RoundsInv, [Next]_vars
    PROVE  RoundsInv'
<1> USE SchedOKFacts
<1> SUFFICES ASSUME NEW t \in Task, NEW u \in Task,
                    NEW k \in DOMAIN Program[t] \cap DOMAIN Program[u], Awaited(t, u, k)'
             PROVE  Early(t, u, k)'
    BY DEF RoundsInv
<1>0. t # u /\ Expects(t, u, k) /\ (k = 1 \/ (~ failed' /\ Arrived(u, k - 1)')) /\ ~ Arrived(u, k)'
    BY DEF Awaited, Expects
<1>1. PICK S : S = Program[u][k].set
    OBVIOUS
<1>2. /\ k \in Nat /\ k >= 1 /\ Round(t, S, k) /\ Program[u][k].op = "sync"
      /\ \A w \in Task \ {u} : \A i \in DOMAIN Program[w] : Program[w][i].set \cap S = {}
      /\ \A j \in 1 .. k - 1 : /\ j \in DOMAIN Program[t] \cap DOMAIN Program[u]
                               /\ Expects(t, u, j) /\ Patient(Program[t][j])
    BY <1>0, <1>1, RoundFacts
<1>3. ~ Arrived(u, k)
    BY <1>0, <1>2, ArrivedStep
<1>4. k = 1 \/ (~ failed /\ ~ failed')
    <2>1. (\E v \in Task : Step(v)) => failed' = failed
        BY BitsStep
    <2>2. Tick \/ PowerFailure \/ UNCHANGED vars => failed' \/ failed' = failed
        BY DEF Tick, PowerFailure, vars, history
    <2>3. QED
        BY <1>0, <2>1, <2>2 DEF Next
\* u has reached no other round by this step
<1>5. CASE k = 1 \/ Arrived(u, k - 1)
    <2>1. k = 1 \/ (~ failed /\ Arrived(u, k - 1))
        BY <1>4, <1>5
    <2>2. NoResult(t, k) /\ InRound(t, S, k) /\ OnEve(t, S, k)
        BY <1>0, <1>1, <1>3, <2>1 DEF RoundsInv, Awaited, Early
    <2>3. NoResult(t, k)'
        BY <1>2, <2>2, NoResultStep
    <2>4. ASSUME NEW v \in Task, Step(v) PROVE InRound(t, S, k)' /\ OnEve(t, S, k)'
        <3>1. S \cap bits' \subseteq bits
            BY <1>0, <1>2, <1>3, <2>1, <2>4, FewerBits
        <3>2. InRound(t, S, k)'
            BY <1>2, <1>4, <2>2, <2>4, <3>1, InRoundStep
        <3>3. OnEve(t, S, k)'
            BY <1>2, <1>4, <2>2, <2>4, <3>1, OnEveStep
        <3>4. QED
            BY <3>2, <3>3
    <2>5. ASSUME Tick \/ PowerFailure \/ UNCHANGED vars PROVE InRound(t, S, k)' /\ OnEve(t, S, k)'
        <3>1. /\ UNCHANGED <<bits, opaque, results, txDone, original>> /\ pc'[t] \in {pc[t], "call"}
            BY <2>5 DEF Tick, PowerFailure, vars, persistent, registers
        <3>2. CallNo(t)' = CallNo(t) /\ (Freed(t)' => Freed(t))
            BY <3>1 DEF CallNo, Freed
        <3>3. InRound(t, S, k)'
            BY <2>2, <3>1, <3>2 DEF InRound
        <3>4. CASE k = 1
            <4>1. CallNo(t) \in Nat /\ CallNo(t) >= 1
                BY CallNoFacts
            <4>2. QED
                BY <3>2, <3>3, <3>4, <4>1 DEF OnEve
        <3>5. CASE Tick
            <4>1. pc[cur] \notin Scanning
                BY <3>5 DEF Tick, InCritical, Scanning
            <4>2. QED
                BY <2>2, <3>1, <3>2, <3>3, <4>1 DEF OnEve
        <3>6. CASE UNCHANGED vars
            <4>1. UNCHANGED <<pc, cur, toClear>>
                BY <3>6 DEF vars, registers, schedVars
            <4>2. QED
                BY <2>2, <3>1, <3>2, <3>3, <4>1 DEF OnEve
        <3>7. CASE k # 1 /\ PowerFailure
            BY <1>4, <3>7 DEF PowerFailure
        <3>8. QED
            BY <2>5, <3>3, <3>4, <3>5, <3>6, <3>7
    <2>6. QED
        BY <1>1, <2>3, <2>4, <2>5 DEF Next, Early
\* u has just arrived in the round before, in which t still is
<1>6. CASE k # 1 /\ ~ Arrived(u, k - 1)
    <2>1. k - 1 \in Nat /\ k - 1 >= 1 /\ ~ failed /\ Arrived(u, k - 1)'
        BY <1>0, <1>2, <1>4, <1>6
    <2>2. CallNo(u) \in Nat /\ CallNo(t) \in Nat
        BY CallNoFacts
    <2>3. CallNo(u) = k - 1
        BY <1>6, <2>1, <2>2, CallNoStep DEF Arrived
    <2>4. k - 1 = 1 \/ Arrived(u, k - 1 - 1)
        BY <2>1, <2>3 DEF Arrived
    <2>5. Early(t, u, k - 1)
        <3>1. k - 1 \in DOMAIN Program[t] \cap DOMAIN Program[u] /\ Expects(t, u, k - 1)
            BY <1>2, <2>1
        <3>2. Awaited(t, u, k - 1)
            BY <1>0, <1>6, <2>1, <2>4, <3>1 DEF Awaited
        <3>3. QED
            BY <3>1, <3>2 DEF RoundsInv
    <2>6. CallNo(t) <= k - 1
        <3>1. ASSUME CallNo(t) > k - 1 PROVE FALSE
            <4>1. k - 1 \in DOMAIN results[t]
                BY <2>1, <2>2, <3>1, CallNoFacts
            <4>2. results[t][k - 1] = "ok"
                BY <1>2, <2>1, <4>1 DEF Steady, PatientOK
            <4>3. QED
                BY <2>5, <4>1, <4>2 DEF Early, NoResult
        <3>2. QED
            BY <2>1, <2>2, <3>1
    <2>7. CallNo(t) = k - 1 => ~ Freed(t)
        BY <2>5 DEF Early, InRound
    <2>8. Step(u) /\ ~ MarkWaiter(u)
        <3>1. ASSUME UNCHANGED <<results, txDone>> PROVE FALSE
            BY <1>6, <2>1, <3>1 DEF Arrived, CallNo
        <3>2. ~ (Tick \/ PowerFailure \/ UNCHANGED vars)
            BY <3>1 DEF Tick, PowerFailure, vars, persistent
        <3>3. ASSUME NEW v \in Task \ {u}, Step(v) PROVE FALSE
            <4>1. results'[u] = results[u] /\ txDone'[u] = txDone[u]
                BY <3>3, OtherTasks, OtherNodes
            <4>2. QED
                BY <1>6, <2>1, <4>1 DEF Arrived, CallNo
        <3>4. ~ MarkWaiter(u)
            BY <3>1 DEF MarkWaiter
        <3>5. QED
            BY <3>2, <3>3, <3>4 DEF Next
    <2>9. results'[t] = results[t] /\ (Freed(t)' <=> Freed(t))
        BY <1>0, <2>8, OtherTasks, OtherNodes DEF Freed
    <2>10. CallNo(t)' = CallNo(t)
        BY <2>9 DEF CallNo
    <2>11. NoResult(t, k)'
        <3>1. k \notin DOMAIN results[t]
            BY <1>2, <2>2, <2>6, CallNoFacts
        <3>2. QED
            BY <2>9, <3>1 DEF NoResult
    <2>12. InRound(t, S, k)' /\ OnEve(t, S, k)'
        BY <1>2, <2>2, <2>6, <2>7, <2>9, <2>10 DEF InRound, OnEve
    <2>13. QED
        BY <1>1, <2>11, <2>12 DEF Early
<1>7. QED
    BY <1>5, <1>6

\* No sync that waits returns before every task it waits for has arrived, for
\* all programs that meet as Meeting says: in the first round wherever the power
\* fails, in the later ones as long as it stays on.
THEOREM SyncsMeet ==
    ASSUME Meeting
    PROVE  Spec => []Rendezvous
<1> DEFINE J == RoundsInv /\ \A t \in Task : Steady(t) /\ CallNo(t) <= Len(Program[t]) + 1
<1>1. Init => J
    <2> SUFFICES ASSUME Init PROVE J
        OBVIOUS
    <2>1. Waiting(Waiters) = {}
        BY SchedInitFacts, EventGroupAssumption DEF Init, EventGroupAssumption
    <2>2. ASSUME NEW t \in Task PROVE Steady(t)
        BY <2>1 DEF Init, Steady, CountersOK, NodeOK, PatientOK, Zero
    <2>3. ASSUME NEW t \in Task, NEW k, NEW S PROVE NoResult(t, k) /\ InRound(t, S, k) /\ OnEve(t, S, k)
        BY DEF Init, NoResult, InRound, OnEve, Freed, Zero
    <2>4. ASSUME NEW t \in Task PROVE CallNo(t) <= Len(Program[t]) + 1
        <3>1. CallNo(t) = 1 /\ Program[t] \in Seq(Call)
            BY EventGroupAssumption DEF Init, CallNo, EventGroupAssumption
        <3>2. QED
            BY <3>1
    <2>5. QED
        BY <2>2, <2>3, <2>4 DEF RoundsInv, Early
<1>2. EInv /\ J /\ [Next]_vars => J'
    <2> SUFFICES ASSUME EInv, J, [Next]_vars PROVE J'
        OBVIOUS
    <2>1. \A t \in Task : Steady(t)'
        BY SteadyStep DEF Meeting
    <2>2. RoundsInv'
        BY <2>1, RoundsStep
    <2>3. ASSUME NEW t \in Task PROVE (CallNo(t) <= Len(Program[t]) + 1)'
        <3>1. Program[t] \in Seq(Call) /\ TypesInv /\ PlaceOK(t)
            BY EventGroupAssumption DEF EventGroupAssumption, EInv, PlacesInv
        <3>2. CallNo(t) \in Nat /\ Len(Program[t]) \in Nat
            BY <3>1, CallNoFacts
        <3>3. EndCall(t) => Active(t)
            BY <3>1 DEF EndCall, PlaceOK
        <3>4. CallNo(t)' = CallNo(t) \/ (CallNo(t)' = CallNo(t) + 1 /\ CallNo(t) <= Len(Program[t]))
            BY <3>3, CallNoStep DEF Active
        <3>5. QED
            BY <3>2, <3>4
    <2>4. QED
        BY <2>1, <2>2, <2>3
<1>3. EInv /\ J => Rendezvous
    <2> SUFFICES ASSUME EInv, J, NEW t \in Task, NEW u \in Task,
                        NEW k \in DOMAIN results[t] \cap DOMAIN Program[u],
                        k = 1 \/ ~ failed, Expects(t, u, k), results[t][k] = "ok", ~ Arrived(u, k)
                 PROVE  FALSE
        BY DEF Rendezvous
    <2>1. /\ CallNo(t) \in Nat /\ k \in 1 .. CallNo(t) - 1 /\ DOMAIN results[t] = 1 .. CallNo(t) - 1
          /\ CallNo(u) \in Nat /\ CallNo(u) >= 1 /\ txDone[u] \in Nat
        BY SchedOKFacts, CallNoFacts DEF TypesInv
    <2>2. t # u
        BY <2>1 DEF Arrived
    <2>3. k \in DOMAIN Program[t] \cap DOMAIN Program[u]
        <3>1. Program[t] \in Seq(Call)
            BY EventGroupAssumption DEF EventGroupAssumption
        <3>2. QED
            BY <2>1, <3>1
    \* the first round in which u has not arrived
    <2>4. PICK m \in 1 .. k : ~ Arrived(u, m) /\ (m = 1 \/ Arrived(u, m - 1))
        <3>1. CASE txDone[u] < 2
            <4>1. CallNo(u) \in 1 .. k /\ ~ Arrived(u, CallNo(u))
                BY <2>1, <3>1 DEF Arrived
            <4>2. CallNo(u) = 1 \/ Arrived(u, CallNo(u) - 1)
                BY <2>1 DEF Arrived
            <4>3. QED
                BY <4>1, <4>2
        <3>2. CASE txDone[u] >= 2
            <4>1. CallNo(u) + 1 \in 1 .. k /\ ~ Arrived(u, CallNo(u) + 1)
                BY <2>1, <3>2 DEF Arrived
            <4>2. PICK n : n = CallNo(u) + 1
                OBVIOUS
            <4>3. n \in 1 .. k /\ ~ Arrived(u, n) /\ Arrived(u, n - 1)
                BY <2>1, <3>2, <4>1, <4>2 DEF Arrived
            <4>4. QED
                BY <4>3
        <3>3. QED
            BY <2>1, <3>1, <3>2
    <2>5. /\ m \in DOMAIN Program[t] \cap DOMAIN Program[u] /\ Expects(t, u, m)
          /\ m = k \/ Patient(Program[t][m])
        <3>1. m = k \/ m \in 1 .. k - 1
            BY <2>1
        <3>2. QED
            BY <2>2, <2>3, <3>1, RoundFacts
    <2>6. m = 1 \/ ~ failed
        BY <2>1
    <2>7. Early(t, u, m)
        BY <2>2, <2>4, <2>5, <2>6 DEF RoundsInv, Awaited
    <2>8. m \in DOMAIN results[t]
        BY <2>1
    <2>9. results[t][m] = "ok"
        <3>1. CASE m # k
            <4>1. ~ failed
                BY <2>1, <3>1
            <4>2. QED
                BY <2>5, <2>8, <3>1, <4>1 DEF Steady, PatientOK
        <3>2. QED
            BY <3>1
    <2>10. QED
        BY <2>7, <2>8, <2>9 DEF Early, NoResult
<1>4. QED
    BY <1>1, <1>2, <1>3, Inductive, PTL DEF Spec

=============================================================================
