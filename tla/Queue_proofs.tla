---------------------------- MODULE Queue_proofs ----------------------------
(***************************************************************************)
(* Proofs about Queue: it implements BoundedFifo, calls give up when their *)
(* time is over and not before, and no wake-up is lost.                    *)
(***************************************************************************)
EXTENDS Queue, Sched_proofs, TLAPS

\* places in the code of a task, and the ones of a call that runs the loop
Places  == {"call", "try", "copied", "wake", "yield", "resume", "end"}
Looping == {"try", "copied", "yield", "resume"}

\* what a slot of the buffer and a result may be
Result == {"sent", "refused", None} \cup (Task \X Nat)

Wanted(t) == Program[t][CallNo(t)].ticks

\* The types of the variables.
TypesInv ==
    /\ build \in Builds
    /\ buffer \in [0 .. Length - 1 -> Result]
    /\ results \in [Task -> Seq(Result)] /\ txCache \in [Task -> Seq(Seq(Result))]
    /\ listDone \in [Task -> BOOLEAN]
    /\ pc \in [Task -> Places] /\ ptr \in [Task -> Nat]
    /\ ticks \in [Task -> 0 .. Never] /\ expiry \in [Task -> 0 .. Never]
    /\ due \in [Task -> 0 .. Never]

\* The positions stay in the buffer and agree with the count.
PositionsInv ==
    /\ readPos \in 0 .. Length - 1 /\ writePos \in 0 .. Length - 1 /\ items \in 0 .. Length
    /\ writePos = (readPos + items) % Length

\* The lists agree, the idle task never sleeps, the current task sleeps only
\* where it is about to yield, and nobody else is in a critical section.
SchedOK ==
    /\ ListsOK
    /\ Idle \notin Asleep /\ pc[Idle] = "call"
    /\ cur \in Asleep => pc[cur] = "yield"
    /\ \A t \in Task : pc[t] \in {"copied", "wake"} => t = cur

\* Only the last cached result of a call can be a success, the ones that this
\* execution has passed in its loop are refusals, and with opt_list no refusal
\* is cached.
CacheOK(t) ==
    /\ \A i \in DOMAIN txCache[t] : Len(txCache[t][i]) <= 1 /\ (i < Len(txCache[t]) => txCache[t][i] = Refusal)
    /\ Active(t) /\ pc[t] # "call" => ptr[t] <= Len(txCache[t])
    /\ Active(t) /\ pc[t] \in Looping => \A i \in 1 .. ptr[t] : txCache[t][i] = Refusal
    /\ build = "opt_list" => /\ Len(txCache[t]) <= 1
                             /\ \A i \in DOMAIN txCache[t] : txCache[t][i] # Refusal

\* Where a task is agrees with what its call has done.
PlaceOK(t) ==
    /\ pc[t] \in {"try", "copied", "wake", "end"} => Active(t)
    /\ ~ Active(t) => txCache[t] = <<>>
    /\ pc[t] = "copied" => /\ Sends(t) /\ ~ IsFull /\ ptr[t] = Len(txCache[t])
                           /\ buffer[Slot(t)] = Item(t)
    /\ pc[t] = "wake" => build = "opt_list" /\ Pending(t) # <<>> /\ ptr[t] = Len(txCache[t])
    /\ pc[t] = "end" /\ build = "opt_list" => ptr[t] = Len(txCache[t])
    /\ build = "opt_list" => /\ Pending(t) = <<>> => ~ listDone[t]
                             /\ pc[t] = "end" /\ Pending(t) # <<>> => listDone[t]

\* A task waits where its call belongs, and its call has not taken effect.
WaiterOK(t) ==
    /\ t \in Waiting(Readers) \cup Waiting(Writers) =>
          Active(t) /\ Pending(t) = <<>> /\ pc[t] \in {"call", "yield", "resume"}
    /\ t \in Waiting(Readers) => ~ Sends(t)
    /\ t \in Waiting(Writers) => Sends(t)

QInv ==
    /\ TypesInv /\ PositionsInv /\ SchedOK
    /\ \A t \in Task : CacheOK(t) /\ PlaceOK(t) /\ WaiterOK(t)

-----------------------------------------------------------------------------

\* What the proofs need of the constants.
LEMMA Constants ==
    /\ Builds \subseteq {"opt_list", "journal"} /\ Length \in Nat /\ Length >= 1
    /\ Never \in Nat /\ Idle \in Task /\ Program[Idle] = <<>>
    /\ WaitList = {Readers, Writers} /\ Readers # Writers
BY SchedConstants, QueueAssumption DEF QueueAssumption, Readers, Writers

\* A call of the program is a call.
LEMMA CallType ==
    ASSUME TypesInv, NEW t \in Task, Active(t)
    PROVE  /\ Wanted(t) \in 0 .. Never - 1 /\ Op(t) \in Ops
           /\ ~ Sends(t) <=> Op(t) = "receive"
<1>1. /\ Program[t] \in Seq(Call)
      /\ results[t] \in Seq(Result)
    BY QueueAssumption DEF QueueAssumption, TypesInv
<1>2. CallNo(t) \in 1 .. Len(Program[t])
    BY <1>1 DEF Active, CallNo
<1>3. Program[t][CallNo(t)] \in Call
    BY <1>1, <1>2
<1>4. Wanted(t) \in 0 .. Never - 1 /\ Op(t) \in Ops
    BY <1>3 DEF Wanted, Op, Call
<1>5. QED
    BY <1>4 DEF Ops, Sends

\* The idle task makes no call.
LEMMA IdleFacts ==
    ASSUME TypesInv
    PROVE  Idle \in Task /\ ~ Active(Idle)
<1>1. Idle \in Task /\ Program[Idle] = <<>> /\ results[Idle] \in Seq(Result)
    BY Constants DEF TypesInv
<1>2. QED
    BY <1>1 DEF Active, CallNo

\* Which call a task makes depends on its results only.
LEMMA SameCall ==
    ASSUME NEW u \in Task, results'[u] = results[u]
    PROVE  /\ CallNo(u)' = CallNo(u) /\ (Active(u)' <=> Active(u)) /\ Op(u)' = Op(u)
           /\ (Sends(u)' <=> Sends(u)) /\ Wanted(u)' = Wanted(u) /\ Item(u)' = Item(u)
           /\ Own(u)' = Own(u) /\ Other(u)' = Other(u)
BY DEF CallNo, Active, Op, Sends, Wanted, Item, Own, Other

\* What is pending depends on the cache only.
LEMMA SamePending ==
    ASSUME NEW u \in Task, txCache'[u] = txCache[u]
    PROVE  Pending(u)' = Pending(u)
BY DEF Pending

\* An attempt that has nothing left to pass over has nothing pending.
LEMMA FreshAttempt ==
    ASSUME TypesInv, NEW t \in Task, CacheOK(t), Active(t), pc[t] \in Looping, ptr[t] >= Len(txCache[t])
    PROVE  Pending(t) = <<>> /\ ptr[t] = Len(txCache[t])
           /\ \A i \in DOMAIN txCache[t] : txCache[t][i] = Refusal
<1>1. txCache[t] \in Seq(Seq(Result)) /\ ptr[t] \in Nat /\ ptr[t] = Len(txCache[t])
    BY DEF TypesInv, CacheOK, Looping
<1>2. \A i \in 1 .. Len(txCache[t]) : txCache[t][i] = Refusal
    BY <1>1 DEF CacheOK
<1>3. QED
    BY <1>1, <1>2 DEF Pending, Refusal

\* What is pending when a result is added to the cache.
LEMMA AppendFacts ==
    ASSUME TypesInv, NEW t \in Task, NEW r \in Seq(Result),
           txCache' = [txCache EXCEPT ![t] = Append(@, r)]
    PROVE  /\ txCache' \in [Task -> Seq(Seq(Result))]
           /\ Len(txCache'[t]) = Len(txCache[t]) + 1 /\ Pending(t)' = r
           /\ \A i \in 1 .. Len(txCache[t]) : txCache'[t][i] = txCache[t][i]
           /\ txCache'[t][Len(txCache[t]) + 1] = r
           /\ \A u \in Task \ {t} : txCache'[u] = txCache[u]
<1>1. txCache[t] \in Seq(Seq(Result)) /\ txCache'[t] = Append(txCache[t], r)
    BY DEF TypesInv
<1>2. PICK s : s = Append(txCache[t], r)
    OBVIOUS
<1>3. /\ s \in Seq(Seq(Result)) /\ Len(s) = Len(txCache[t]) + 1 /\ Len(txCache[t]) \in Nat
      /\ \A i \in 1 .. Len(txCache[t]) : s[i] = txCache[t][i]
      /\ s[Len(txCache[t]) + 1] = r
    BY <1>1, <1>2
<1>4. txCache'[t] = s /\ s # <<>>
    BY <1>1, <1>2, <1>3
<1>5. Pending(t)' = r
    BY <1>3, <1>4 DEF Pending
<1>6. txCache' \in [Task -> Seq(Seq(Result))] /\ \A u \in Task \ {t} : txCache'[u] = txCache[u]
    BY <1>2, <1>3 DEF TypesInv
<1>7. QED
    BY <1>3, <1>4, <1>5, <1>6

-----------------------------------------------------------------------------
(***************************************************************************)
(* Positions in the ring buffer.                                           *)
(***************************************************************************)

\* The remainder of a sum of two positions.
LEMMA Remainder ==
    ASSUME NEW L \in Nat, L >= 1, NEW x \in 0 .. L + L - 1
    PROVE  x % L = IF x < L THEN x ELSE x - L
<1>1. CASE x < L
    <2>1. x \in 0 .. L - 1 /\ L \in Nat \ {0}
        BY <1>1
    <2>2. QED
        BY <1>1, <2>1
<1>2. CASE ~ x < L
    <2>1. x \in L .. L + L - 1 /\ L \in Nat \ {0}
        BY <1>2
    <2>2. x % L = x - L
        BY <2>1
    <2>3. QED
        BY <1>2, <2>2
<1>3. QED
    BY <1>1, <1>2

\* x slots behind the first one, around the ring once at most
Around(x) == IF x < Length THEN x ELSE x - Length

\* the writer is n slots ahead of the reader
Ahead(r, w, n) ==
    /\ r \in 0 .. Length - 1 /\ w \in 0 .. Length - 1 /\ n \in 0 .. Length
    /\ w = Around(r + n)

\* Going around the ring once is the remainder.
LEMMA AroundFacts ==
    ASSUME NEW r \in 0 .. Length - 1, NEW n \in 0 .. Length
    PROVE  (r + n) % Length = Around(r + n)
<1>1. PICK x : x = r + n
    OBVIOUS
<1>2. Length \in Nat /\ Length >= 1 /\ x \in 0 .. Length + Length - 1
    BY <1>1, Constants
<1>3. x % Length = Around(x)
    BY <1>2, Remainder DEF Around
<1>4. QED
    BY <1>1, <1>3

\* PositionsInv without a remainder.
LEMMA AheadFacts ==
    ASSUME NEW r, NEW w, NEW n
    PROVE  Ahead(r, w, n) <=> /\ r \in 0 .. Length - 1 /\ w \in 0 .. Length - 1 /\ n \in 0 .. Length
                              /\ w = (r + n) % Length
BY AroundFacts, Zenon DEF Ahead

\* Pushing and taking keep the positions in the buffer and in step.
LEMMA PositionsStep ==
    ASSUME PositionsInv,
           \/ PushBack /\ ~ IsFull
           \/ PushFront /\ ~ IsFull
           \/ Dequeue /\ ~ IsEmpty
    PROVE  PositionsInv'
<1>1. Ahead(readPos, writePos, items) /\ Length \in Nat /\ Length >= 1
    BY AheadFacts, Constants DEF PositionsInv
<1>2. CASE PushBack /\ ~ IsFull
    <2>1. Ahead(readPos, After(writePos), items + 1)
        BY <1>1, <1>2 DEF Ahead, Around, IsFull, After
    <2>2. Ahead(readPos', writePos', items')
        BY <1>2, <2>1 DEF PushBack
    <2>3. QED
        BY <2>2, AheadFacts DEF PositionsInv
<1>3. CASE PushFront /\ ~ IsFull
    <2>1. Ahead(Before(readPos), writePos, items + 1)
        BY <1>1, <1>3 DEF Ahead, Around, IsFull, Before
    <2>2. Ahead(readPos', writePos', items')
        BY <1>3, <2>1 DEF PushFront
    <2>3. QED
        BY <2>2, AheadFacts DEF PositionsInv
<1>4. CASE Dequeue /\ ~ IsEmpty
    <2>1. Ahead(After(readPos), writePos, items - 1)
        BY <1>1, <1>4 DEF Ahead, Around, IsEmpty, After
    <2>2. Ahead(readPos', writePos', items')
        BY <1>4, <2>1 DEF Dequeue
    <2>3. QED
        BY <2>2, AheadFacts DEF PositionsInv
<1>5. QED
    BY <1>2, <1>3, <1>4

-----------------------------------------------------------------------------
(***************************************************************************)
(* What a step of a task leaves alone.                                     *)
(***************************************************************************)

\* A step is taken by the current task, which is not the idle task, and
\* changes no other task's place, cache, results and registers.
LEMMA StepFrame ==
    ASSUME TypesInv, pc[Idle] = "call", NEW t \in Task, Step(t)
    PROVE  /\ cur = t /\ t # Idle /\ build' = build
           /\ \E p \in Places : pc' = [pc EXCEPT ![t] = p]
           /\ \A u \in Task \ {t} :
                 /\ pc'[u] = pc[u] /\ txCache'[u] = txCache[u] /\ results'[u] = results[u]
                 /\ ptr'[u] = ptr[u] /\ listDone'[u] = listDone[u]
                 /\ ticks'[u] = ticks[u] /\ expiry'[u] = expiry[u] /\ due'[u] = due[u]
<1>0. Idle \in Task /\ ~ Active(Idle)
    BY IdleFacts
<1>1. cur = t /\ t # Idle /\ build' = build
    <2>1. CASE BeginCall(t) \/ Bypass(t) \/ CopyItem(t) \/ SendTx(t) \/ ReceiveTx(t) \/ WakeOther(t)
               \/ SendTxJournal(t) \/ ReceiveTxJournal(t)
        BY <1>0, <2>1 DEF BeginCall, Bypass, CopyItem, SendTx, ReceiveTx, WakeOther, SendTxJournal,
           ReceiveTxJournal, At, Commit, persistent
    <2>2. CASE Block(t) \/ BlockJournal(t) \/ GiveUp(t) \/ Yield(t) \/ Resume(t) \/ EndCall(t) \/ Finished(t)
        BY <1>0, <2>2 DEF Block, BlockJournal, GiveUp, Refused, Yield, Resume, EndCall, Finished, At, persistent
    <2>3. QED
        BY <2>1, <2>2 DEF Step
<1>2. \E p \in Places : pc' = [pc EXCEPT ![t] = p]
    <2>1. CASE BeginCall(t) \/ Bypass(t) \/ CopyItem(t) \/ SendTx(t) \/ ReceiveTx(t) \/ WakeOther(t)
               \/ SendTxJournal(t) \/ ReceiveTxJournal(t)
        BY <2>1 DEF BeginCall, Bypass, CopyItem, SendTx, ReceiveTx, WakeOther, SendTxJournal,
           ReceiveTxJournal, Goto, Places
    <2>2. CASE Block(t) \/ BlockJournal(t) \/ GiveUp(t) \/ Yield(t) \/ Resume(t) \/ EndCall(t) \/ Finished(t)
        BY <2>2 DEF Block, BlockJournal, GiveUp, Sleep, Yield, Resume, EndCall, Finished, Goto, Places
    <2>3. QED
        BY <2>1, <2>2 DEF Step
<1>3. ASSUME NEW u \in Task \ {t}
      PROVE  /\ pc'[u] = pc[u] /\ txCache'[u] = txCache[u] /\ results'[u] = results[u]
             /\ ptr'[u] = ptr[u] /\ listDone'[u] = listDone[u]
             /\ ticks'[u] = ticks[u] /\ expiry'[u] = expiry[u] /\ due'[u] = due[u]
    <2>0. pc'[u] = pc[u]
        BY <1>2 DEF TypesInv
    <2>1. CASE BeginCall(t) \/ Bypass(t) \/ CopyItem(t)
        BY <2>0, <2>1 DEF BeginCall, Bypass, CopyItem, persistent, TypesInv
    <2>2. CASE SendTx(t) \/ ReceiveTx(t) \/ SendTxJournal(t) \/ ReceiveTxJournal(t)
        <3>1. \E r : Commit(t, r)
            BY <2>2 DEF SendTx, ReceiveTx, SendTxJournal, ReceiveTxJournal
        <3>2. QED
            BY <2>0, <3>1 DEF Commit, TypesInv
    <2>3. CASE WakeOther(t) \/ GiveUp(t) \/ Yield(t) \/ Resume(t) \/ Finished(t)
        BY <2>0, <2>3 DEF WakeOther, GiveUp, Yield, Resume, Finished, persistent, TypesInv
    <2>4. CASE Block(t) \/ BlockJournal(t)
        BY <2>0, <2>4 DEF Block, BlockJournal, Sleep, persistent, TypesInv
    <2>5. CASE EndCall(t)
        BY <2>0, <2>5 DEF EndCall, TypesInv
    <2>6. QED
        BY <2>1, <2>2, <2>3, <2>4, <2>5 DEF Step
<1>4. QED
    BY <1>1, <1>2, <1>3

\* The parts of the invariant for one task.
LEMMA TaskFacts ==
    ASSUME QInv, NEW t \in Task
    PROVE  /\ TypesInv /\ PositionsInv /\ SchedOK /\ CacheOK(t) /\ PlaceOK(t) /\ WaiterOK(t)
           /\ pc[Idle] = "call"
BY DEF QInv, SchedOK

\* What a committed transaction adds.
LEMMA CommitFacts ==
    ASSUME TypesInv, NEW t \in Task, NEW r \in Result, Commit(t, r)
    PROVE  /\ <<r>> \in Seq(Result) /\ txCache' = [txCache EXCEPT ![t] = Append(@, <<r>>)]
           /\ ptr' = [ptr EXCEPT ![t] = @ + 1]
           /\ UNCHANGED <<build, results, listDone, ticks, expiry, due>>
BY DEF Commit

\* The commits of a call, with their results.
LEMMA Commits ==
    ASSUME QInv, NEW t \in Task, SendTx(t) \/ SendTxJournal(t) \/ ReceiveTx(t) \/ ReceiveTxJournal(t)
    PROVE  /\ Active(t) /\ pc[t] \in {"try", "copied"} /\ ptr[t] = Len(txCache[t]) /\ Pending(t) = <<>>
           /\ \A i \in DOMAIN txCache[t] : txCache[t][i] = Refusal
           /\ SendTx(t) \/ SendTxJournal(t) => Sends(t) /\ ~ IsFull /\ Push(t) /\ Commit(t, "sent")
           /\ ReceiveTx(t) \/ ReceiveTxJournal(t) =>
                 /\ Op(t) = "receive" /\ ~ Sends(t) /\ ~ IsEmpty /\ Dequeue
                 /\ buffer[readPos] \in Result /\ Commit(t, buffer[readPos])
           /\ \E r \in Result : Commit(t, r)
<1>1. TypesInv /\ PositionsInv /\ CacheOK(t) /\ PlaceOK(t)
    BY TaskFacts
<1>2. CASE SendTx(t) \/ SendTxJournal(t)
    <2>1. pc[t] = "copied" /\ Push(t) /\ Commit(t, "sent")
        BY <1>2 DEF SendTx, SendTxJournal, At
    <2>2. Active(t) /\ Sends(t) /\ ~ IsFull /\ ptr[t] = Len(txCache[t])
        BY <1>1, <2>1 DEF PlaceOK
    <2>3. pc[t] \in Looping /\ ptr[t] >= Len(txCache[t])
        BY <1>1, <2>1, <2>2 DEF Looping, TypesInv
    <2>4. Pending(t) = <<>> /\ \A i \in DOMAIN txCache[t] : txCache[t][i] = Refusal
        BY <1>1, <2>2, <2>3, FreshAttempt
    <2>5. "sent" \in Result
        BY DEF Result
    <2>6. ~ (ReceiveTx(t) \/ ReceiveTxJournal(t))
        BY <2>1 DEF ReceiveTx, ReceiveTxJournal, At
    <2>7. QED
        BY <1>2, <2>1, <2>2, <2>4, <2>5, <2>6
<1>3. CASE ReceiveTx(t) \/ ReceiveTxJournal(t)
    <2>1. pc[t] = "try" /\ ~ HasCached(t) /\ Op(t) = "receive" /\ ~ IsEmpty /\ Dequeue /\ Commit(t, buffer[readPos])
        BY <1>3 DEF ReceiveTx, ReceiveTxJournal, At
    <2>2. Active(t) /\ ~ Sends(t) /\ pc[t] \in Looping
        BY <1>1, <2>1 DEF PlaceOK, Sends, Looping
    <2>3. ptr[t] >= Len(txCache[t])
        BY <1>1, <2>1 DEF HasCached, TypesInv
    <2>4. Pending(t) = <<>> /\ ptr[t] = Len(txCache[t]) /\ \A i \in DOMAIN txCache[t] : txCache[t][i] = Refusal
        BY <1>1, <2>2, <2>3, FreshAttempt
    <2>5. buffer[readPos] \in Result
        BY <1>1 DEF TypesInv, PositionsInv
    <2>6. ~ (SendTx(t) \/ SendTxJournal(t))
        BY <2>1 DEF SendTx, SendTxJournal, At
    <2>7. QED
        BY <1>3, <2>1, <2>2, <2>4, <2>5, <2>6
<1>4. QED
    BY <1>2, <1>3

\* What a refused attempt finds.
LEMMA RefusedFacts ==
    ASSUME QInv, NEW t \in Task, Refused(t)
    PROVE  /\ Active(t) /\ cur = t /\ pc[t] = "try" /\ ptr[t] = Len(txCache[t]) /\ Pending(t) = <<>>
           /\ \A i \in DOMAIN txCache[t] : txCache[t][i] = Refusal
           /\ items = IF Sends(t) THEN Length ELSE 0
<1>1. TypesInv /\ PositionsInv /\ CacheOK(t) /\ PlaceOK(t)
    BY TaskFacts
<1>2. cur = t /\ pc[t] = "try" /\ ~ HasCached(t) /\ items = IF Sends(t) THEN Length ELSE 0
    BY DEF Refused, At, IsFull, IsEmpty
<1>3. Active(t) /\ pc[t] \in Looping
    BY <1>1, <1>2 DEF PlaceOK, Looping
<1>4. ptr[t] >= Len(txCache[t])
    BY <1>1, <1>2 DEF HasCached, TypesInv
<1>5. QED
    BY <1>1, <1>2, <1>3, <1>4, FreshAttempt

\* The time until which a call sleeps.
LEMMA DeadlineType ==
    ASSUME TypesInv, NEW t \in Task
    PROVE  Deadline(t) \in 0 .. Never /\ Countdown(t) \in 0 .. Never /\ ticks[t] \in 0 .. Never
BY Constants DEF Deadline, Countdown, TypesInv

\* The result that a call returns.
LEMMA OutcomeType ==
    ASSUME QInv, NEW t \in Task, pc[t] = "end"
    PROVE  Outcome(t) \in Result
<1>1. txCache[t] \in Seq(Seq(Result)) /\ ptr[t] \in Nat /\ ptr[t] <= Len(txCache[t])
    BY TaskFacts DEF TypesInv, CacheOK, PlaceOK
<1>2. CASE ptr[t] = 0
    BY <1>2 DEF Outcome, Result
<1>3. CASE ptr[t] # 0
    <2>1. ptr[t] \in 1 .. Len(txCache[t])
        BY <1>1, <1>3
    <2>2. PICK x \in Seq(Result) : x = txCache[t][ptr[t]]
        BY <1>1, <2>1
    <2>3. x # <<>> => x[1] \in Result
        OBVIOUS
    <2>4. QED
        BY <2>2, <2>3 DEF Outcome, Refusal, Result
<1>4. QED
    BY <1>2, <1>3

\* Counting down keeps the type.
LEMMA LessType ==
    ASSUME NEW f \in [Task -> 0 .. Never]
    PROVE  /\ Less(f) \in [Task -> 0 .. Never]
           /\ \A t \in Task : Less(f)[t] = IF f[t] \in {0, Never} THEN f[t] ELSE f[t] - 1
BY Constants DEF Less

\* Every step keeps the types.
LEMMA TypesStep == QInv /\ [Next]_vars => TypesInv'
<1> SUFFICES ASSUME QInv, [Next]_vars PROVE TypesInv'
    OBVIOUS
<1>0. TypesInv /\ PositionsInv
    BY DEF QInv
<1>1. ASSUME NEW t \in Task, Step(t) PROVE TypesInv'
    <2>0. pc' \in [Task -> Places] /\ build' \in Builds
        BY <1>0, <1>1, StepFrame, TaskFacts DEF TypesInv
    <2>1. CASE BeginCall(t)
        <3>1. Active(t) /\ ticks' = [ticks EXCEPT ![t] = Wanted(t)]
            BY <2>1 DEF BeginCall, Wanted
        <3>2. Wanted(t) \in 0 .. Never
            BY <1>0, <3>1, CallType, Constants
        <3>3. UNCHANGED <<buffer, results, txCache, listDone>>
            BY <2>1 DEF BeginCall, persistent, queueVars
        <3>4. ticks' \in [Task -> 0 .. Never]
            BY <1>0, <3>1, <3>2 DEF TypesInv
        <3>5. expiry' \in [Task -> 0 .. Never] /\ due' \in [Task -> 0 .. Never]
            BY <1>0, <2>1, Constants DEF BeginCall, TypesInv
        <3>6. ptr' \in [Task -> Nat]
            BY <1>0, <2>1 DEF BeginCall, TypesInv
        <3>7. QED
            BY <1>0, <2>0, <3>3, <3>4, <3>5, <3>6 DEF TypesInv
    <2>2. CASE Bypass(t) \/ Resume(t) \/ Yield(t) \/ Finished(t)
        <3>1. UNCHANGED <<buffer, results, txCache, listDone, expiry, due>>
            BY <2>2 DEF Bypass, Resume, Yield, Finished, persistent, queueVars
        <3>2. ptr' = ptr \/ ptr' = [ptr EXCEPT ![t] = @ + 1]
            BY <2>2 DEF Bypass, Resume, Yield, Finished
        <3>3. ticks' = ticks \/ ticks' = [ticks EXCEPT ![t] = Countdown(t)]
            BY <2>2 DEF Bypass, Resume, Yield, Finished
        <3>4. ptr' \in [Task -> Nat]
            BY <1>0, <3>2 DEF TypesInv
        <3>5. ticks' \in [Task -> 0 .. Never]
            BY <1>0, <3>3, DeadlineType DEF TypesInv
        <3>6. QED
            BY <1>0, <2>0, <3>1, <3>4, <3>5 DEF TypesInv
    <2>3. CASE CopyItem(t)
        <3>1. CallNo(t) \in Nat
            BY <1>0 DEF CallNo, TypesInv
        <3>2. Item(t) \in Result
            BY <3>1 DEF Item, Result
        <3>3. buffer' \in [0 .. Length - 1 -> Result]
            BY <1>0, <2>3, <3>2 DEF CopyItem, TypesInv
        <3>4. QED
            BY <1>0, <2>0, <2>3, <3>3 DEF CopyItem, TypesInv
    <2>4. CASE SendTx(t) \/ SendTxJournal(t) \/ ReceiveTx(t) \/ ReceiveTxJournal(t)
        <3>1. PICK r \in Result : Commit(t, r)
            BY <2>4, Commits
        <3>2. buffer' = buffer
            BY <2>4, Commits DEF Push, PushBack, PushFront, Dequeue
        <3>3. <<r>> \in Seq(Result) /\ txCache' = [txCache EXCEPT ![t] = Append(@, <<r>>)]
            BY <1>0, <3>1, CommitFacts
        <3>4. txCache' \in [Task -> Seq(Seq(Result))]
            BY <1>0, <3>3, AppendFacts
        <3>5. QED
            BY <1>0, <2>0, <3>1, <3>2, <3>4 DEF Commit, TypesInv
    <2>5. CASE WakeOther(t)
        BY <1>0, <2>0, <2>5 DEF WakeOther, queueVars, TypesInv
    <2>6. CASE Block(t) \/ BlockJournal(t)
        <3>1. Sleep(t) /\ UNCHANGED <<buffer, results, listDone, ticks>>
            BY <2>6 DEF Block, BlockJournal, persistent, queueVars
        <3>2. expiry' \in [Task -> 0 .. Never] /\ due' \in [Task -> 0 .. Never]
            BY <1>0, <3>1, DeadlineType DEF Sleep, TypesInv
        <3>3. txCache' \in [Task -> Seq(Seq(Result))] /\ ptr' \in [Task -> Nat]
            <4>1. CASE Block(t)
                BY <1>0, <4>1 DEF Block, persistent, TypesInv
            <4>2. CASE BlockJournal(t)
                <5>1. Refusal \in Seq(Result) /\ txCache' = [txCache EXCEPT ![t] = Append(@, Refusal)]
                    BY <4>2 DEF BlockJournal, Refusal
                <5>2. QED
                    BY <1>0, <4>2, <5>1, AppendFacts DEF BlockJournal, TypesInv
            <4>3. QED
                BY <2>6, <4>1, <4>2
        <3>4. QED
            BY <1>0, <2>0, <3>1, <3>2, <3>3 DEF TypesInv
    <2>7. CASE GiveUp(t)
        <3>1. txCache' \in [Task -> Seq(Seq(Result))] /\ ptr' \in [Task -> Nat]
            <4>1. CASE build = "journal"
                <5>1. Refusal \in Seq(Result) /\ txCache' = [txCache EXCEPT ![t] = Append(@, Refusal)]
                    BY <2>7, <4>1 DEF GiveUp, Refusal
                <5>2. txCache' \in [Task -> Seq(Seq(Result))]
                    BY <1>0, <5>1, AppendFacts
                <5>3. ptr' = [ptr EXCEPT ![t] = @ + 1]
                    BY <2>7, <4>1 DEF GiveUp
                <5>4. QED
                    BY <1>0, <5>2, <5>3 DEF TypesInv
            <4>2. CASE build # "journal"
                BY <1>0, <2>7, <4>2 DEF GiveUp, TypesInv
            <4>3. QED
                BY <4>1, <4>2
        <3>2. QED
            BY <1>0, <2>0, <2>7, <3>1 DEF GiveUp, queueVars, TypesInv
    <2>8. CASE EndCall(t)
        <3>1. Outcome(t) \in Result /\ results[t] \in Seq(Result)
            BY <1>0, <2>8, OutcomeType DEF EndCall, At, TypesInv
        <3>2. Append(results[t], Outcome(t)) \in Seq(Result)
            BY <3>1
        <3>3. results' \in [Task -> Seq(Result)]
            <4>1. results' = [results EXCEPT ![t] = Append(@, Outcome(t))]
                BY <2>8 DEF EndCall
            <4>2. results \in [Task -> Seq(Result)]
                BY <1>0 DEF TypesInv
            <4>3. QED
                BY <3>2, <4>1, <4>2
        <3>4. txCache' \in [Task -> Seq(Seq(Result))] /\ listDone' \in [Task -> BOOLEAN]
            BY <1>0, <2>8 DEF EndCall, TypesInv
        <3>5. due' \in [Task -> 0 .. Never]
            BY <1>0, <2>8, Constants, SMTT(20) DEF EndCall, TypesInv
        <3>6. UNCHANGED <<build, buffer, ptr, ticks, expiry>>
            BY <2>8 DEF EndCall, queueVars
        <3>7. QED
            BY <1>0, <2>0, <3>3, <3>4, <3>5, <3>6 DEF TypesInv
    <2>9. QED
        BY <1>1, <2>1, <2>2, <2>3, <2>4, <2>5, <2>6, <2>7, <2>8 DEF Step
<1>2. CASE Tick
    BY <1>0, <1>2, LessType DEF Tick, persistent, queueVars, TypesInv
<1>3. CASE PowerFailure
    BY <1>0, <1>3, Constants DEF PowerFailure, persistent, queueVars, TypesInv, Places
<1>4. CASE UNCHANGED vars
    BY <1>0, <1>4 DEF vars, persistent, queueVars, registers, TypesInv
<1>5. QED
    BY <1>1, <1>2, <1>3, <1>4 DEF Next

\* Every step keeps the positions.
LEMMA PositionsInvStep == QInv /\ [Next]_vars => PositionsInv'
<1> SUFFICES ASSUME QInv, [Next]_vars PROVE PositionsInv'
    OBVIOUS
<1>0. PositionsInv
    BY DEF QInv
<1>1. ASSUME NEW t \in Task, SendTx(t) \/ SendTxJournal(t) \/ ReceiveTx(t) \/ ReceiveTxJournal(t)
      PROVE  PositionsInv'
    <2>1. (Push(t) /\ ~ IsFull) \/ (Dequeue /\ ~ IsEmpty)
        BY <1>1, Commits
    <2>2. QED
        BY <1>0, <2>1, PositionsStep DEF Push
<1>2. ASSUME UNCHANGED <<readPos, writePos, items>> PROVE PositionsInv'
    BY <1>0, <1>2 DEF PositionsInv
<1>3. ASSUME NEW t \in Task, \/ BeginCall(t) \/ Bypass(t) \/ CopyItem(t) \/ WakeOther(t) \/ Block(t)
                             \/ BlockJournal(t) \/ GiveUp(t) \/ Yield(t) \/ Resume(t) \/ EndCall(t) \/ Finished(t)
      PROVE  PositionsInv'
    BY <1>2, <1>3 DEF BeginCall, Bypass, CopyItem, WakeOther, Block, BlockJournal, GiveUp, Yield, Resume,
       EndCall, Finished, persistent, queueVars
<1>4. CASE Tick \/ PowerFailure \/ UNCHANGED vars
    BY <1>2, <1>4 DEF Tick, PowerFailure, vars, persistent, queueVars
<1>5. QED
    BY <1>1, <1>3, <1>4 DEF Next, Step

-----------------------------------------------------------------------------
(***************************************************************************)
(* What the steps do to the scheduler.                                     *)
(***************************************************************************)

\* The steps that leave the scheduler alone.
QuietStep(t) ==
    \/ BeginCall(t) \/ Bypass(t) \/ CopyItem(t) \/ SendTx(t) \/ ReceiveTx(t)
    \/ GiveUp(t) \/ Resume(t) \/ EndCall(t)

\* The steps that wake a task, if one waits.
WakingStep(t) == WakeOther(t) \/ SendTxJournal(t) \/ ReceiveTxJournal(t)

\* What the proofs need of the scheduler's state.
LEMMA SchedOKFacts ==
    ASSUME QInv
    PROVE  /\ ListsOK /\ Idle \notin Asleep /\ Idle \in Task
           /\ Readers \in WaitList /\ Writers \in WaitList /\ Readers # Writers
           /\ pc[Idle] = "call" /\ pc \in [Task -> Places] /\ cur \in Task
           /\ cur \in Asleep => pc[cur] = "yield"
           /\ Waiting(Readers) \subseteq Asleep /\ Waiting(Writers) \subseteq Asleep /\ Asleep \subseteq Task
           /\ \A t \in Task : Own(t) \in WaitList /\ Other(t) \in WaitList /\ Own(t) # Other(t)
<1>1. ListsOK /\ TypesInv
    BY DEF QInv, SchedOK
<1>2. Readers \in WaitList /\ Writers \in WaitList /\ Readers # Writers /\ Idle \in Task
    BY Constants
<1>3. cur \in Task
    BY <1>1 DEF ListsOK, SchedTypeOK
<1>4. QED
    BY <1>1, <1>2, <1>3, SleepersFacts DEF QInv, SchedOK, TypesInv, Own, Other

\* A step that puts nobody to sleep wakes at most one task.
LEMMA AwakeEffect ==
    ASSUME QInv, NEW t \in Task, QuietStep(t) \/ WakingStep(t)
    PROVE  /\ ListsOK' /\ cur = t /\ t \notin Asleep
           /\ UNCHANGED schedVars \/ \E w \in Task : Woken(w, Other(t))
<1>1. cur = t /\ pc[t] # "yield"
    BY DEF QuietStep, WakingStep, BeginCall, Bypass, CopyItem, SendTx, ReceiveTx, GiveUp, Refused, Resume, EndCall,
           WakeOther, SendTxJournal, ReceiveTxJournal, At
<1>2. t \notin Asleep
    BY <1>1, SchedOKFacts
<1>3. UNCHANGED schedVars \/ WakeFirst(Other(t))
    <2>1. CASE QuietStep(t)
        BY <2>1 DEF QuietStep, BeginCall, Bypass, CopyItem, SendTx, ReceiveTx, GiveUp, Resume, EndCall
    <2>2. CASE WakeOther(t)
        BY <2>2 DEF WakeOther
    <2>3. CASE SendTxJournal(t)
        BY <2>3, Commits DEF SendTxJournal, Other
    <2>4. CASE ReceiveTxJournal(t)
        BY <2>4, Commits DEF ReceiveTxJournal, Other
    <2>5. QED
        BY <2>1, <2>2, <2>3, <2>4 DEF WakingStep
<1>4. ListsOK /\ Other(t) \in WaitList
    BY SchedOKFacts
<1>5. CASE UNCHANGED schedVars
    BY <1>1, <1>2, <1>4, <1>5, SameLists
<1>6. CASE WakeFirst(Other(t))
    BY <1>1, <1>2, <1>4, <1>6, WakeFirstFacts
<1>7. QED
    BY <1>3, <1>5, <1>6

\* A call that blocks is awake and goes to sleep on its own wait list.
LEMMA BlockEffect ==
    ASSUME QInv, NEW t \in Task, Block(t) \/ BlockJournal(t)
    PROVE  ListsOK' /\ cur = t /\ t \notin Asleep /\ Slept(t, Own(t), Deadline(t))
<1>1. Refused(t) /\ BlockOn(t, Own(t), Deadline(t))
    BY DEF Block, BlockJournal, Sleep
<1>2. cur = t /\ pc[t] = "try"
    BY <1>1, RefusedFacts
<1>3. t \notin Asleep /\ ~ Delayed(t)
    BY <1>2, SchedOKFacts DEF Asleep, Delayed
<1>4. Deadline(t) \in 0 .. Never
    BY DeadlineType DEF QInv
<1>5. ListsOK /\ Own(t) \in WaitList
    BY SchedOKFacts
<1>6. QED
    BY <1>1, <1>2, <1>3, <1>4, <1>5, BlockOnFacts

\* A task that has made its calls is awake and goes to sleep for good.
LEMMA FinishedEffect ==
    ASSUME QInv, NEW t \in Task, Finished(t)
    PROVE  /\ ListsOK' /\ cur = t /\ t \notin Asleep
           /\ Asleep' = Asleep \cup {t} /\ UNCHANGED <<cur, wait>> /\ left' = [left EXCEPT ![t] = Never]
<1>1. cur = t /\ t \notin Asleep /\ ~ Delayed(t)
    BY SchedOKFacts DEF Finished, At, Asleep, Delayed
<1>2. ring' = RemoveFromReadyList(t) /\ AddToDelayedList(t, Never) /\ UNCHANGED <<cur, wait>>
    BY DEF Finished
<1>3. Never \in 0 .. Never
    BY Constants
<1>4. QED
    BY <1>1, <1>2, <1>3, SchedOKFacts, SleepFacts

\* A yield gives the processor to a task that is awake.
LEMMA YieldEffect ==
    ASSUME QInv, NEW t \in Task, Yield(t)
    PROVE  ListsOK' /\ cur = t /\ ~ Delayed(cur)' /\ UNCHANGED <<delay, left, wait>>
<1>1. YieldNow /\ cur = t
    BY DEF Yield, At
<1>2. QED
    BY <1>1, SchedOKFacts, YieldFacts

\* The tick and a power failure leave a task that is awake as the current one.
LEMMA TickEffect ==
    ASSUME QInv, Tick \/ PowerFailure
    PROVE  /\ ListsOK' /\ cur' \in Task /\ ~ Delayed(cur)'
           /\ Asleep' \subseteq Asleep
           /\ Waiting(Readers)' \subseteq Waiting(Readers) /\ Waiting(Writers)' \subseteq Waiting(Writers)
<1>1. ListsOK /\ Idle \notin Asleep /\ Readers \in WaitList /\ Writers \in WaitList
    BY SchedOKFacts
<1>2. CASE Tick
    <2>1. TickAndSwitch
        BY <1>2 DEF Tick
    <2>2. QED
        BY <1>1, <2>1, TickFacts
<1>3. CASE PowerFailure
    <2>1. Reschedule
        BY <1>3 DEF PowerFailure
    <2>2. ListsOK' /\ ~ Delayed(cur)' /\ cur' \in Task /\ UNCHANGED <<delay, left, wait>>
        BY <1>1, <2>1, YieldFacts
    <2>3. QED
        BY <2>2 DEF Asleep, Waiting
<1>4. QED
    BY <1>2, <1>3

\* No step but a block puts a task on a wait list, and no task but the one
\* that takes the step leaves the queue's list for another.
LEMMA WaitingEffect ==
    ASSUME QInv, [Next]_vars, NEW l \in {Readers, Writers}, NEW u \in Task, u \in Waiting(l)'
    PROVE  u \in Waiting(l) \/ (Own(u) = l /\ (Block(u) \/ BlockJournal(u)))
<1>0. l \in WaitList
    BY SchedOKFacts
<1>1. ASSUME NEW t \in Task, QuietStep(t) \/ WakingStep(t) PROVE u \in Waiting(l)
    <2>1. UNCHANGED schedVars \/ \E w \in Task : Woken(w, Other(t))
        BY <1>1, AwakeEffect
    <2>2. CASE UNCHANGED schedVars
        BY <2>2 DEF Waiting, schedVars
    <2>3. CASE \E w \in Task : Woken(w, Other(t))
        BY <1>0, <2>3 DEF Woken
    <2>4. QED
        BY <2>1, <2>2, <2>3
<1>2. ASSUME NEW t \in Task, Block(t) \/ BlockJournal(t), u \notin Waiting(l)
      PROVE  Own(u) = l /\ (Block(u) \/ BlockJournal(u))
    <2>1. Waiting(l)' = IF l = Own(t) THEN Waiting(l) \cup {t} ELSE Waiting(l)
        BY <1>0, <1>2, BlockEffect DEF Slept
    <2>2. u = t /\ l = Own(t)
        BY <1>2, <2>1
    <2>3. QED
        BY <1>2, <2>2
<1>3. ASSUME NEW t \in Task, Finished(t) \/ Yield(t) PROVE u \in Waiting(l)
    BY <1>3, FinishedEffect, YieldEffect DEF Waiting
<1>4. CASE Tick \/ PowerFailure
    BY <1>4, TickEffect
<1>5. CASE UNCHANGED vars
    BY <1>5 DEF vars, schedVars, Waiting
<1>6. QED
    BY <1>1, <1>2, <1>3, <1>4, <1>5 DEF Next, Step, QuietStep, WakingStep

\* Every step keeps the lists in order and the critical sections apart.
LEMMA SchedStep == QInv /\ [Next]_vars => SchedOK'
<1> SUFFICES ASSUME QInv, [Next]_vars PROVE SchedOK'
    OBVIOUS
<1>0. TypesInv /\ \A t \in Task : pc[t] \in {"copied", "wake"} => t = cur
    BY DEF QInv, SchedOK
<1> USE SchedOKFacts
<1>1. ASSUME NEW t \in Task, Step(t) PROVE SchedOK'
    <2>1. /\ t # Idle /\ cur = t /\ \E p \in Places : pc' = [pc EXCEPT ![t] = p]
          /\ \A u \in Task \ {t} : pc'[u] = pc[u]
        BY <1>0, <1>1, StepFrame
    <2>2. pc'[Idle] = "call"
        BY <2>1
    <2>0. \A u \in Task : pc'[u] \in {"copied", "wake"} => u = t
        BY <1>0, <2>1
    <2>3. CASE QuietStep(t) \/ WakingStep(t)
        <3>1. /\ ListsOK' /\ cur = t /\ t \notin Asleep
              /\ UNCHANGED schedVars \/ \E w \in Task : Woken(w, Other(t))
            BY <2>3, AwakeEffect
        <3>2. Asleep' \subseteq Asleep /\ cur' = cur
            BY <3>1, SameLists DEF Woken
        <3>3. QED
            BY <2>0, <2>2, <3>1, <3>2 DEF SchedOK
    <2>4. CASE Block(t) \/ BlockJournal(t) \/ Finished(t)
        <3>1. pc'[t] = "yield"
            BY <2>4 DEF Block, BlockJournal, Sleep, Finished, Goto
        <3>2. ListsOK' /\ Asleep' = Asleep \cup {t} /\ cur' = t
            BY <2>4, BlockEffect, FinishedEffect DEF Slept
        <3>3. QED
            BY <2>0, <2>1, <2>2, <3>1, <3>2 DEF SchedOK
    <2>5. CASE Yield(t)
        <3>1. \A u \in Task : pc'[u] \notin {"copied", "wake"}
            BY <2>0, <2>1, <2>5 DEF Yield, Goto
        <3>2. QED
            BY <2>2, <2>5, <3>1, YieldEffect DEF SchedOK, Delayed, Asleep
    <2>6. QED
        BY <1>1, <2>3, <2>4, <2>5 DEF Step, QuietStep, WakingStep
<1>2. CASE Tick \/ PowerFailure
    <2>1. pc'[Idle] = "call"
        BY <1>2 DEF Tick, PowerFailure
    <2>2. \A u \in Task : pc'[u] \notin {"copied", "wake"}
        BY <1>0, <1>2 DEF Tick, PowerFailure, InCritical
    <2>3. QED
        BY <1>2, <2>1, <2>2, TickEffect DEF SchedOK, Delayed, Asleep
<1>3. CASE UNCHANGED vars
    <2>1. UNCHANGED <<schedVars, pc, cur>>
        BY <1>3 DEF vars, registers, schedVars
    <2>2. QED
        BY <1>0, <2>1, SameLists DEF SchedOK
<1>4. QED
    BY <1>1, <1>2, <1>3 DEF Next

-----------------------------------------------------------------------------
(***************************************************************************)
(* Places, caches and wait lists.                                          *)
(***************************************************************************)

\* The cache of a task is as good as before when it and the loop are as before.
LEMMA CacheKept ==
    ASSUME NEW u \in Task, CacheOK(u), txCache'[u] = txCache[u], results'[u] = results[u], build' = build,
           ptr'[u] = ptr[u],
           pc'[u] = pc[u] \/ pc'[u] = "call" \/ (pc'[u] # "call" /\ pc'[u] \notin Looping /\ pc[u] # "call")
                \/ (pc[u] \in Looping /\ pc'[u] \in Looping)
    PROVE  CacheOK(u)'
BY SameCall DEF CacheOK, Looping

\* What a step of t leaves of the other tasks.
LEMMA OtherTask ==
    ASSUME QInv, NEW t \in Task, Step(t), NEW u \in Task \ {t}
    PROVE  CacheOK(u)' /\ PlaceOK(u)'
<1>1. /\ cur = t /\ build' = build /\ pc'[u] = pc[u] /\ txCache'[u] = txCache[u] /\ results'[u] = results[u]
      /\ ptr'[u] = ptr[u] /\ listDone'[u] = listDone[u]
    BY StepFrame, TaskFacts
<1>2. CacheOK(u) /\ PlaceOK(u) /\ pc[u] \notin {"copied", "wake"}
    BY <1>1, TaskFacts DEF SchedOK
<1>3. CacheOK(u)'
    BY <1>1, <1>2, CacheKept
<1>4. PlaceOK(u)'
    BY <1>1, <1>2, SameCall, SamePending DEF PlaceOK
<1>5. QED
    BY <1>3, <1>4

\* A result is added to the cache of an attempt that has passed all refusals.
LEMMA CacheAppend ==
    ASSUME QInv, NEW t \in Task, ptr[t] = Len(txCache[t]),
           \A i \in DOMAIN txCache[t] : txCache[t][i] = Refusal,
           NEW r \in Seq(Result), Len(r) <= 1, txCache' = [txCache EXCEPT ![t] = Append(@, r)],
           ptr' = [ptr EXCEPT ![t] = @ + 1], build' = build, results' = results,
           build = "opt_list" => r # Refusal, pc'[t] \in Looping => r = Refusal
    PROVE  CacheOK(t)' /\ ptr'[t] = Len(txCache'[t]) /\ Pending(t)' = r
<1>1. TypesInv /\ CacheOK(t)
    BY TaskFacts
<1>2. /\ Len(txCache'[t]) = Len(txCache[t]) + 1 /\ Pending(t)' = r
      /\ \A i \in 1 .. Len(txCache[t]) : txCache'[t][i] = txCache[t][i]
      /\ txCache'[t][Len(txCache[t]) + 1] = r /\ txCache'[t] \in Seq(Seq(Result))
    BY <1>1, AppendFacts
<1>3. ptr'[t] = Len(txCache'[t]) /\ Len(txCache[t]) \in Nat /\ txCache[t] \in Seq(Seq(Result))
    BY <1>1, <1>2 DEF TypesInv
<1>4. /\ DOMAIN txCache[t] = 1 .. Len(txCache[t])
      /\ DOMAIN txCache'[t] = 1 .. Len(txCache[t]) + 1
    BY <1>2, <1>3
<1>5. \A i \in 1 .. Len(txCache[t]) : txCache'[t][i] = Refusal
    BY <1>2, <1>4
<1>6. \A i \in DOMAIN txCache'[t] : Len(txCache'[t][i]) <= 1 /\ (i < Len(txCache'[t]) => txCache'[t][i] = Refusal)
    <2>1. Len(Refusal) = 0
        BY DEF Refusal
    <2> SUFFICES ASSUME NEW i \in 1 .. Len(txCache[t]) + 1
                 PROVE  Len(txCache'[t][i]) <= 1 /\ (i < Len(txCache'[t]) => txCache'[t][i] = Refusal)
        BY <1>4
    <2>2. CASE i = Len(txCache[t]) + 1
        BY <1>2, <1>3, <2>2
    <2>3. CASE i # Len(txCache[t]) + 1
        <3>1. i \in 1 .. Len(txCache[t])
            BY <1>3, <2>3
        <3>2. QED
            BY <1>5, <2>1, <3>1
    <2>4. QED
        BY <2>2, <2>3
<1>7. pc'[t] \in Looping => \A i \in 1 .. ptr'[t] : txCache'[t][i] = Refusal
    <2> SUFFICES ASSUME pc'[t] \in Looping, NEW i \in 1 .. Len(txCache[t]) + 1 PROVE txCache'[t][i] = Refusal
        BY <1>2, <1>3
    <2>1. i = Len(txCache[t]) + 1 \/ i \in 1 .. Len(txCache[t])
        BY <1>3
    <2>2. QED
        BY <1>2, <1>5, <2>1
<1>8. build = "opt_list" => /\ Len(txCache'[t]) <= 1
                            /\ \A i \in DOMAIN txCache'[t] : txCache'[t][i] # Refusal
    <2> SUFFICES ASSUME build = "opt_list" PROVE /\ Len(txCache'[t]) <= 1
                                                 /\ \A i \in DOMAIN txCache'[t] : txCache'[t][i] # Refusal
        OBVIOUS
    <2>1. \A i \in 1 .. Len(txCache[t]) : FALSE
        BY <1>1, <1>4 DEF CacheOK
    <2>2. Len(txCache[t]) = 0
        <3>1. Len(txCache[t]) >= 1 => 1 \in 1 .. Len(txCache[t])
            BY <1>3
        <3>2. QED
            BY <1>3, <2>1, <3>1
    <2>3. QED
        BY <1>2, <1>3, <1>4, <2>2
<1>9. QED
    BY <1>2, <1>3, <1>6, <1>7, <1>8 DEF CacheOK

\* A transaction that is passed over.
LEMMA BypassFacts ==
    ASSUME QInv, NEW t \in Task, Bypass(t)
    PROVE  /\ Active(t) /\ pc[t] = "try" /\ ptr[t] \in Nat /\ ptr'[t] = ptr[t] + 1 /\ ptr[t] + 1 <= Len(txCache[t])
           /\ \A i \in 1 .. ptr[t] : txCache[t][i] = Refusal
           /\ UNCHANGED <<build, results, txCache, listDone>>
           /\ \/ /\ txCache[t][ptr[t] + 1] # Refusal /\ Pending(t) # <<>> /\ ptr'[t] = Len(txCache[t])
                 /\ pc'[t] = IF build = "opt_list" THEN "wake" ELSE "end"
              \/ /\ txCache[t][ptr[t] + 1] = Refusal /\ build # "opt_list"
                 /\ pc'[t] = IF ticks[t] = 0 THEN "end" ELSE "yield"
<1>1. TypesInv /\ CacheOK(t) /\ PlaceOK(t)
    BY TaskFacts
<1>2. /\ txCache[t] \in Seq(Seq(Result)) /\ ptr[t] \in Nat /\ Len(txCache[t]) \in Nat
      /\ DOMAIN txCache[t] = 1 .. Len(txCache[t])
    BY <1>1 DEF TypesInv
<1>3. /\ pc[t] = "try" /\ ptr'[t] = ptr[t] + 1 /\ ptr[t] < Len(txCache[t])
      /\ UNCHANGED <<build, results, txCache, listDone>>
    BY <1>1 DEF Bypass, At, HasCached, persistent, TypesInv
<1>4. pc'[t] = IF txCache[t][ptr[t] + 1] # Refusal
               THEN IF build = "opt_list" THEN "wake" ELSE "end"
               ELSE IF ticks[t] = 0 THEN "end" ELSE "yield"
    BY <1>1 DEF Bypass, Goto, TypesInv
<1>5. Active(t) /\ \A i \in 1 .. ptr[t] : txCache[t][i] = Refusal
    BY <1>1, <1>3 DEF PlaceOK, CacheOK, Looping
<1>6. ptr[t] + 1 \in DOMAIN txCache[t] /\ ptr[t] + 1 <= Len(txCache[t])
    BY <1>2, <1>3
<1>7. CASE txCache[t][ptr[t] + 1] # Refusal
    <2>1. ~ (ptr[t] + 1 < Len(txCache[t]))
        BY <1>1, <1>6, <1>7 DEF CacheOK
    <2>2. ptr[t] + 1 = Len(txCache[t])
        BY <1>2, <1>6, <2>1
    <2>3. Pending(t) # <<>>
        BY <1>2, <1>6, <1>7, <2>2 DEF Pending, Refusal
    <2>4. QED
        BY <1>2, <1>3, <1>4, <1>5, <1>6, <1>7, <2>2, <2>3
<1>8. CASE txCache[t][ptr[t] + 1] = Refusal
    <2>1. build # "opt_list"
        BY <1>1, <1>6, <1>8 DEF CacheOK
    <2>2. QED
        BY <1>2, <1>3, <1>4, <1>5, <1>6, <1>8, <2>1
<1>9. QED
    BY <1>7, <1>8

\* A step keeps the cache and the place of the task that takes it.
LEMMA OwnTask ==
    ASSUME QInv, NEW t \in Task, Step(t), TypesInv'
    PROVE  CacheOK(t)' /\ PlaceOK(t)'
<1>0. TypesInv /\ CacheOK(t) /\ PlaceOK(t) /\ cur = t /\ build' = build
    BY TaskFacts, StepFrame
<1>t. /\ txCache[t] \in Seq(Seq(Result)) /\ ptr[t] \in Nat /\ Len(txCache[t]) \in Nat /\ pc[t] \in Places
      /\ build \in Builds
    BY <1>0 DEF TypesInv
<1>1. CASE BeginCall(t)
    <2>1. /\ Active(t) /\ pc'[t] = "try" /\ ptr'[t] = 0 /\ txCache' = txCache /\ results' = results
          /\ listDone' = listDone
        BY <1>0, <1>1 DEF BeginCall, Goto, persistent, TypesInv
    <2>2. CacheOK(t)'
        BY <1>0, <1>t, <2>1, SameCall DEF CacheOK
    <2>3. PlaceOK(t)'
        BY <1>0, <2>1, SameCall, SamePending DEF PlaceOK
    <2>4. QED
        BY <2>2, <2>3
<1>2. CASE Bypass(t)
    <2>1. /\ Active(t) /\ pc[t] = "try" /\ ptr'[t] = ptr[t] + 1 /\ ptr[t] + 1 <= Len(txCache[t])
          /\ \A i \in 1 .. ptr[t] : txCache[t][i] = Refusal
          /\ UNCHANGED <<build, results, txCache, listDone>>
        BY <1>2, BypassFacts
    <2>2. Active(t)' /\ Pending(t)' = Pending(t) /\ txCache'[t] = txCache[t]
        BY <2>1, SameCall, SamePending
    <2>3. CASE /\ txCache[t][ptr[t] + 1] # Refusal /\ Pending(t) # <<>> /\ ptr'[t] = Len(txCache[t])
               /\ pc'[t] = IF build = "opt_list" THEN "wake" ELSE "end"
        <3>1. CacheOK(t)'
            BY <1>0, <1>t, <2>1, <2>2, <2>3 DEF CacheOK, Looping
        <3>2. PlaceOK(t)'
            BY <1>0, <2>1, <2>2, <2>3 DEF PlaceOK
        <3>3. QED
            BY <3>1, <3>2
    <2>4. CASE /\ txCache[t][ptr[t] + 1] = Refusal /\ build # "opt_list"
               /\ pc'[t] = IF ticks[t] = 0 THEN "end" ELSE "yield"
        <3>1. \A i \in 1 .. ptr'[t] : txCache[t][i] = Refusal
            <4> SUFFICES ASSUME NEW i \in 1 .. ptr[t] + 1 PROVE txCache[t][i] = Refusal
                BY <2>1
            <4>1. i = ptr[t] + 1 \/ i \in 1 .. ptr[t]
                BY <1>t
            <4>2. QED
                BY <2>1, <2>4, <4>1
        <3>2. CacheOK(t)'
            BY <1>0, <1>t, <2>1, <2>2, <2>4, <3>1 DEF CacheOK
        <3>3. PlaceOK(t)'
            BY <1>0, <2>1, <2>2, <2>4 DEF PlaceOK
        <3>4. QED
            BY <3>2, <3>3
    <2>5. QED
        BY <1>2, <2>3, <2>4, BypassFacts
<1>3. CASE CopyItem(t)
    <2>1. /\ pc[t] = "try" /\ ~ HasCached(t) /\ Sends(t) /\ ~ IsFull /\ pc'[t] = "copied"
          /\ UNCHANGED <<readPos, writePos, items, results, txCache, listDone, ptr>>
        BY <1>0, <1>3 DEF CopyItem, At, Goto, TypesInv
    <2>2. Active(t) /\ pc[t] \in Looping /\ pc'[t] \in Looping
        BY <1>0, <2>1 DEF PlaceOK, Looping
    <2>3. ptr[t] = Len(txCache[t])
        BY <1>0, <1>t, <2>1, <2>2 DEF CacheOK, HasCached, Looping
    <2>4. CacheOK(t)'
        BY <1>0, <2>1, <2>2, CacheKept
    <2>5. Slot(t) \in 0 .. Length - 1
        BY TaskFacts, Constants DEF Slot, Before, PositionsInv
    <2>6. Slot(t)' = Slot(t) /\ Item(t)' = Item(t)
        BY <2>1, SameCall DEF Slot, Before
    <2>7. buffer'[Slot(t)] = Item(t)
        BY <1>0, <1>3, <2>5 DEF CopyItem, TypesInv
    <2>8. PlaceOK(t)'
        <3>1. buffer'[Slot(t)'] = Item(t)'
            BY <2>6, <2>7
        <3>2. ~ IsFull' /\ Sends(t)' /\ Active(t)' /\ Pending(t)' = Pending(t)
            BY <2>1, <2>2, SameCall, SamePending DEF IsFull
        <3>3. QED
            BY <1>0, <2>1, <2>3, <3>1, <3>2 DEF PlaceOK
    <2>9. QED
        BY <2>4, <2>8
<1>4. CASE SendTx(t) \/ ReceiveTx(t) \/ SendTxJournal(t) \/ ReceiveTxJournal(t)
    <2>1. PICK r \in Result : Commit(t, r)
        BY <1>4, Commits
    <2>2. /\ Active(t) /\ ptr[t] = Len(txCache[t])
          /\ \A i \in DOMAIN txCache[t] : txCache[t][i] = Refusal
        BY <1>4, Commits
    <2>3. pc'[t] = IF build = "opt_list" THEN "wake" ELSE "end"
        BY <1>0, <1>4 DEF SendTx, ReceiveTx, SendTxJournal, ReceiveTxJournal, Goto, TypesInv
    <2>4. /\ <<r>> \in Seq(Result) /\ txCache' = [txCache EXCEPT ![t] = Append(@, <<r>>)]
          /\ ptr' = [ptr EXCEPT ![t] = @ + 1] /\ UNCHANGED <<results, listDone>>
        BY <1>0, <2>1, CommitFacts
    <2>5. Len(<<r>>) <= 1 /\ <<r>> # <<>> /\ pc'[t] \notin Looping
        BY <2>3 DEF Looping
    <2>6. CacheOK(t)' /\ ptr'[t] = Len(txCache'[t]) /\ Pending(t)' = <<r>>
        BY <1>0, <2>2, <2>4, <2>5, CacheAppend DEF Refusal
    <2>7. PlaceOK(t)'
        BY <1>0, <2>2, <2>3, <2>4, <2>5, <2>6, SameCall DEF PlaceOK
    <2>8. QED
        BY <2>6, <2>7
<1>5. CASE WakeOther(t)
    <2>1. /\ pc[t] = "wake" /\ pc'[t] = "end" /\ listDone'[t] /\ UNCHANGED <<results, txCache, ptr>>
        BY <1>0, <1>5 DEF WakeOther, At, Goto, TypesInv
    <2>2. CacheOK(t)'
        BY <1>0, <2>1, CacheKept DEF Looping
    <2>3. PlaceOK(t)'
        BY <1>0, <2>1, SameCall, SamePending DEF PlaceOK
    <2>4. QED
        BY <2>2, <2>3
<1>6. CASE Block(t)
    <2>1. /\ Refused(t) /\ pc'[t] = "yield" /\ UNCHANGED <<results, txCache, listDone, ptr>>
        BY <1>0, <1>6 DEF Block, Sleep, Goto, persistent, TypesInv
    <2>2. Active(t) /\ pc[t] = "try" /\ Pending(t) = <<>>
        BY <2>1, RefusedFacts
    <2>3. CacheOK(t)'
        BY <1>0, <2>1, <2>2, CacheKept DEF Looping
    <2>4. PlaceOK(t)'
        BY <1>0, <2>1, <2>2, SameCall, SamePending DEF PlaceOK
    <2>5. QED
        BY <2>3, <2>4
<1>7. CASE BlockJournal(t) \/ (GiveUp(t) /\ build = "journal")
    <2>1. /\ Refused(t) /\ build = "journal" /\ pc'[t] \in {"yield", "end"} /\ UNCHANGED <<results, listDone>>
          /\ txCache' = [txCache EXCEPT ![t] = Append(@, Refusal)]
          /\ ptr' = [ptr EXCEPT ![t] = @ + 1]
        BY <1>0, <1>7 DEF BlockJournal, GiveUp, Sleep, Goto, TypesInv
    <2>2. Active(t) /\ ptr[t] = Len(txCache[t]) /\ \A i \in DOMAIN txCache[t] : txCache[t][i] = Refusal
        BY <2>1, RefusedFacts
    <2>3. Refusal \in Seq(Result) /\ Len(Refusal) <= 1
        BY DEF Refusal
    <2>4. CacheOK(t)' /\ ptr'[t] = Len(txCache'[t])
        BY <1>0, <2>1, <2>2, <2>3, CacheAppend
    <2>5. PlaceOK(t)'
        BY <1>0, <2>1, <2>2, <2>4, SameCall DEF PlaceOK
    <2>6. QED
        BY <2>4, <2>5
<1>8. CASE GiveUp(t) /\ build # "journal"
    <2>1. /\ Refused(t) /\ pc'[t] = "end" /\ UNCHANGED <<results, listDone, txCache, ptr>>
        BY <1>0, <1>8 DEF GiveUp, Goto, TypesInv
    <2>2. Active(t) /\ pc[t] = "try" /\ ptr[t] = Len(txCache[t]) /\ Pending(t) = <<>>
        BY <2>1, RefusedFacts
    <2>3. CacheOK(t)'
        BY <1>0, <2>1, <2>2, CacheKept DEF Looping
    <2>4. PlaceOK(t)'
        BY <1>0, <2>1, <2>2, SameCall, SamePending DEF PlaceOK
    <2>5. QED
        BY <2>3, <2>4
<1>9. CASE Yield(t) \/ Resume(t)
    <2>1. /\ pc[t] \in {"yield", "resume"} /\ pc'[t] \in {"resume", "call", "try"}
          /\ pc'[t] = "try" => Active(t)
          /\ UNCHANGED <<results, txCache, listDone, ptr>>
        BY <1>0, <1>9 DEF Yield, Resume, At, Goto, persistent, TypesInv
    <2>2. CacheOK(t)'
        BY <1>0, <2>1, CacheKept DEF Looping
    <2>3. PlaceOK(t)'
        BY <1>0, <2>1, SameCall, SamePending DEF PlaceOK
    <2>4. QED
        BY <2>2, <2>3
<1>10. CASE EndCall(t)
    <2>1. pc'[t] = "call" /\ txCache'[t] = <<>> /\ ~ listDone'[t]
        BY <1>0, <1>10 DEF EndCall, Goto, TypesInv
    <2>2. Len(txCache'[t]) = 0 /\ DOMAIN txCache'[t] = {} /\ Pending(t)' = <<>>
        BY <2>1 DEF Pending
    <2>3. CacheOK(t)'
        BY <2>1, <2>2 DEF CacheOK, Looping
    <2>4. PlaceOK(t)'
        BY <2>1, <2>2 DEF PlaceOK
    <2>5. QED
        BY <2>3, <2>4
<1>11. CASE Finished(t)
    <2>1. ~ Active(t) /\ pc'[t] = "yield" /\ UNCHANGED <<results, txCache, listDone, ptr>>
        BY <1>0, <1>11 DEF Finished, Goto, persistent, TypesInv
    <2>2. CacheOK(t)'
        BY <1>0, <2>1, SameCall DEF CacheOK
    <2>3. PlaceOK(t)'
        BY <1>0, <2>1, SameCall, SamePending DEF PlaceOK
    <2>4. QED
        BY <2>2, <2>3
<1>12. QED
    BY <1>1, <1>2, <1>3, <1>4, <1>5, <1>6, <1>7, <1>8, <1>9, <1>10, <1>11 DEF Step

\* Every step keeps caches and places in step.
LEMMA PlaceStep == QInv /\ [Next]_vars => \A u \in Task : CacheOK(u)' /\ PlaceOK(u)'
<1> SUFFICES ASSUME QInv, [Next]_vars, NEW u \in Task PROVE CacheOK(u)' /\ PlaceOK(u)'
    OBVIOUS
<1>0. TypesInv /\ SchedOK /\ CacheOK(u) /\ PlaceOK(u) /\ TypesInv'
    BY TaskFacts, TypesStep
<1>1. ASSUME NEW t \in Task, Step(t) PROVE CacheOK(u)' /\ PlaceOK(u)'
    BY <1>0, <1>1, OwnTask, OtherTask
<1>2. CASE Tick
    <2>1. UNCHANGED <<pc, ptr, build, results, txCache, listDone>> /\ pc[u] # "copied"
        BY <1>0, <1>2 DEF Tick, persistent, InCritical, SchedOK
    <2>2. QED
        BY <1>0, <2>1, CacheKept, SameCall, SamePending DEF PlaceOK
<1>3. CASE PowerFailure
    <2>1. UNCHANGED <<build, results, txCache, listDone>> /\ pc'[u] = "call"
        BY <1>3 DEF PowerFailure, persistent
    <2>2. CacheOK(u)'
        BY <1>0, <2>1, SameCall DEF CacheOK, Looping
    <2>3. PlaceOK(u)'
        BY <1>0, <2>1, SameCall, SamePending DEF PlaceOK
    <2>4. QED
        BY <2>2, <2>3
<1>4. CASE UNCHANGED vars
    <2>1. UNCHANGED <<pc, ptr, build, results, txCache, listDone, queueVars>>
        BY <1>4 DEF vars, persistent, registers
    <2>2. CacheOK(u)'
        BY <1>0, <2>1, CacheKept
    <2>3. PlaceOK(u)'
        BY <1>0, <2>1, SameCall, SamePending DEF PlaceOK, queueVars, IsFull, Slot, Before
    <2>4. QED
        BY <2>2, <2>3
<1>5. QED
    BY <1>1, <1>2, <1>3, <1>4 DEF Next

\* Who waits is where it was, or has just gone to sleep.
LEMMA WaiterStep == QInv /\ [Next]_vars => \A u \in Task : WaiterOK(u)'
<1> SUFFICES ASSUME QInv, [Next]_vars, NEW u \in Task PROVE WaiterOK(u)'
    OBVIOUS
<1>0. TypesInv /\ SchedOK /\ WaiterOK(u) /\ Readers # Writers
    BY TaskFacts, Constants
<1>1. ASSUME NEW l \in {Readers, Writers}, u \in Waiting(l)'
      PROVE  /\ Active(u)' /\ Pending(u)' = <<>> /\ pc'[u] \in {"call", "yield", "resume"}
             /\ (Sends(u)' <=> l = Writers)
    <2>1. CASE Own(u) = l /\ (Block(u) \/ BlockJournal(u))
        <3>1. /\ Refused(u) /\ pc'[u] = "yield" /\ results' = results
              /\ \/ txCache' = txCache
                 \/ txCache' = [txCache EXCEPT ![u] = Append(@, Refusal)]
            BY <1>0, <2>1 DEF Block, BlockJournal, Sleep, Goto, persistent, TypesInv
        <3>2. Active(u) /\ Pending(u) = <<>>
            BY <3>1, RefusedFacts
        <3>3. Refusal \in Seq(Result) /\ Refusal = <<>>
            BY DEF Refusal
        <3>4. Pending(u)' = <<>>
            BY <1>0, <3>1, <3>2, <3>3, SamePending, AppendFacts
        <3>5. Sends(u) <=> l = Writers
            BY <1>0, <2>1 DEF Own
        <3>6. QED
            BY <3>1, <3>2, <3>4, <3>5, SameCall
    <2>2. CASE u \in Waiting(l)
        <3>1. /\ Active(u) /\ Pending(u) = <<>> /\ pc[u] \in {"call", "yield", "resume"}
              /\ (Sends(u) <=> l = Writers)
            BY <1>0, <2>2 DEF WaiterOK
        <3>2. u \in Asleep
            BY <2>2, SchedOKFacts
        <3>3. SUFFICES results'[u] = results[u] /\ txCache'[u] = txCache[u] /\ pc'[u] \in {"call", "yield", "resume"}
            BY <3>1, SameCall, SamePending
        <3>4. ASSUME NEW t \in Task, Step(t), t # u
              PROVE  results'[u] = results[u] /\ txCache'[u] = txCache[u] /\ pc'[u] \in {"call", "yield", "resume"}
            BY <1>0, <3>1, <3>4, StepFrame, SchedOKFacts
        <3>5. ASSUME Step(u)
              PROVE  results'[u] = results[u] /\ txCache'[u] = txCache[u] /\ pc'[u] \in {"call", "yield", "resume"}
            <4>1. cur = u /\ pc[u] = "yield"
                BY <1>0, <3>2, <3>5, StepFrame, SchedOKFacts
            <4>2. Yield(u)
                BY <3>5, <4>1
                   DEF Step, BeginCall, Bypass, CopyItem, SendTx, ReceiveTx, WakeOther, SendTxJournal,
                       ReceiveTxJournal, Block, BlockJournal, GiveUp, Refused, Resume, EndCall, Finished, At
            <4>3. QED
                BY <1>0, <4>2 DEF Yield, Goto, persistent, TypesInv
        <3>6. CASE Tick \/ PowerFailure \/ UNCHANGED vars
            BY <3>1, <3>6 DEF Tick, PowerFailure, vars, persistent, registers
        <3>7. QED
            BY <3>4, <3>5, <3>6 DEF Next
    <2>3. QED
        BY <1>1, <2>1, <2>2, WaitingEffect
<1>2. QED
    BY <1>0, <1>1 DEF WaiterOK

\* The initial state satisfies the invariant, and nobody waits.
LEMMA InitQInv == Init => QInv
<1> SUFFICES ASSUME Init PROVE QInv
    OBVIOUS
<1>1. ListsOK /\ Asleep = {} /\ cur \in Task /\ Waiting(Readers) = {} /\ Waiting(Writers) = {}
    BY SchedInitFacts, Constants DEF Init
<1>2. Idle \in Task /\ Length \in Nat /\ Length >= 1 /\ Never \in Nat
    BY Constants
<1>3. TypesInv
    BY <1>2 DEF Init, TypesInv, Places, Result
<1>4. PositionsInv
    <2>1. Ahead(0, 0, 0)
        BY <1>2 DEF Ahead, Around
    <2>2. QED
        BY <2>1, AheadFacts DEF Init, PositionsInv
<1>5. SchedOK
    BY <1>1, <1>2 DEF Init, SchedOK
<1>6. ASSUME NEW t \in Task PROVE CacheOK(t) /\ PlaceOK(t) /\ WaiterOK(t)
    <2>1. txCache[t] = <<>> /\ pc[t] = "call" /\ ~ listDone[t] /\ Len(txCache[t]) = 0 /\ DOMAIN txCache[t] = {}
        BY DEF Init
    <2>2. Pending(t) = <<>>
        BY <2>1 DEF Pending
    <2>3. QED
        BY <1>1, <2>1, <2>2 DEF CacheOK, PlaceOK, WaiterOK, Looping
<1>7. QED
    BY <1>3, <1>4, <1>5, <1>6 DEF QInv

\* The invariant holds for every program, queue length, task set and build,
\* after any number of power failures.
THEOREM Inductive == Spec => []QInv
<1>1. QInv /\ [Next]_vars => QInv'
    BY TypesStep, PositionsInvStep, SchedStep, PlaceStep, WaiterStep DEF QInv
<1>2. QED
    BY InitQInv, <1>1, PTL DEF Spec

\* The type invariant of the module, with the positions of the ring buffer and
\* the agreement of all the lists.
THEOREM TypesHold == Spec => []TypeOK
<1>1. QInv => TypeOK
    BY DEF QInv, TypesInv, PositionsInv, SchedOK, ListsOK, TypeOK, Places
<1>2. QED
    BY <1>1, Inductive, PTL

-----------------------------------------------------------------------------
(***************************************************************************)
(* No wake-up is lost.  The two wait lists are treated alike: what a task  *)
(* on l waits for is Free(l), and Counted(l) are the tasks that will look  *)
(* at it before they sleep or that have yet to wake somebody on l.         *)
(***************************************************************************)
Free(l) == IF l = Readers THEN items ELSE Length - items

CountedFor(t, l) == Active(t) /\ ((Own(t) = l /\ Poised(t)) \/ (Other(t) = l /\ OwesWake(t)))

Counted(l) == {t \in Task : CountedFor(t, l)}

Offered(l) == Waiting(l) # {} => Free(l) <= Cardinality(Counted(l))

\* NoLostWakeup in these words.
LEMMA OfferedFacts ==
    ASSUME QInv
    PROVE  NoLostWakeup <=> (build = "opt_list" => Offered(Readers) /\ Offered(Writers))
<1>1. Readers \in WaitList /\ Writers \in WaitList /\ Readers # Writers /\ ListsOK
    BY SchedOKFacts
<1>2. /\ Waiting(Readers) = {} <=> wait[Readers] = <<>>
      /\ Waiting(Writers) = {} <=> wait[Writers] = <<>>
    BY <1>1, SleepersFacts
<1>3. Counted(Readers) = {t \in {u \in Task : Active(u) /\ ~ Sends(u)} : Poised(t)}
                            \cup {t \in {u \in Task : Active(u) /\ Sends(u)} : OwesWake(t)}
    BY <1>1 DEF Counted, CountedFor, Own, Other
<1>4. Counted(Writers) = {t \in {u \in Task : Active(u) /\ Sends(u)} : Poised(t)}
                            \cup {t \in {u \in Task : Active(u) /\ ~ Sends(u)} : OwesWake(t)}
    BY <1>1 DEF Counted, CountedFor, Own, Other
<1>5. Free(Readers) = items /\ Free(Writers) = Length - items
    BY <1>1 DEF Free
<1>6. QED
    BY <1>2, <1>3, <1>4, <1>5, Zenon DEF NoLostWakeup, Offered

\* Whether a task is counted depends on its own state only.
LEMMA SameCounted ==
    ASSUME NEW u \in Task, NEW l, CountedFor(u, l), results'[u] = results[u], txCache'[u] = txCache[u],
           listDone'[u] = listDone[u], pc'[u] = pc[u] \/ pc'[u] # "end",
           u \in Asleep' => u \in Asleep
    PROVE  CountedFor(u, l)'
<1>1. /\ Active(u)' <=> Active(u)
      /\ Own(u)' = Own(u) /\ Other(u)' = Other(u) /\ Pending(u)' = Pending(u)
    BY SameCall, SamePending
<1>2. OwesWake(u)' <=> OwesWake(u)
    BY <1>1 DEF OwesWake
<1>3. Poised(u) => Poised(u)'
    BY <1>1 DEF Poised, Delayed, Asleep
<1>4. QED
    BY <1>1, <1>2, <1>3 DEF CountedFor

\* The steps that change neither the items nor who is counted.
LEMMA QuietWakeStep ==
    ASSUME QInv, build = "opt_list", NEW l \in {Readers, Writers}, NEW u \in Task, CountedFor(u, l),
           \/ \E t \in Task : \/ BeginCall(t) \/ Bypass(t) \/ CopyItem(t) \/ Resume(t)
                              \/ EndCall(t) \/ Yield(t) \/ Finished(t)
           \/ Tick \/ PowerFailure \/ UNCHANGED vars
    PROVE  CountedFor(u, l)'
<1>0. TypesInv /\ PlaceOK(u) /\ CacheOK(u)
    BY TaskFacts
<1>a. Active(u) /\ (Poised(u) \/ OwesWake(u))
    BY DEF CountedFor
<1>1. ASSUME NEW t \in Task, BeginCall(t) \/ Bypass(t) \/ CopyItem(t) \/ Resume(t) \/ EndCall(t) PROVE CountedFor(u, l)'
    <2>1. UNCHANGED schedVars /\ Step(t)
        BY <1>1 DEF BeginCall, Bypass, CopyItem, Resume, EndCall, Step
    <2>2. u \in Asleep' => u \in Asleep
        BY <2>1 DEF Asleep, schedVars
    <2>3. CASE u # t
        <3>1. /\ pc'[u] = pc[u] /\ txCache'[u] = txCache[u] /\ results'[u] = results[u]
              /\ listDone'[u] = listDone[u]
            BY <2>1, <2>3, StepFrame, TaskFacts
        <3>2. QED
            BY <2>2, <3>1, SameCounted
    <2>4. CASE u = t /\ ~ EndCall(t) /\ ~ Bypass(t)
        <3>1. pc'[u] # "end" /\ UNCHANGED <<results, txCache, listDone>>
            BY <1>0, <1>1, <2>4 DEF BeginCall, CopyItem, Resume, Goto, persistent, TypesInv
        <3>2. QED
            BY <2>2, <3>1, SameCounted
    <2>5. CASE u = t /\ Bypass(t)
        <3>1. UNCHANGED <<results, txCache, listDone>> /\ pc'[u] # "end"
            BY <2>5, BypassFacts
        <3>2. QED
            BY <2>2, <3>1, SameCounted
    <2>6. CASE u = t /\ EndCall(t)
        <3>1. pc[t] = "end"
            BY <2>6 DEF EndCall, At
        <3>2. ~ Poised(u) /\ ~ OwesWake(u)
            BY <1>0, <2>6, <3>1 DEF Poised, OwesWake, PlaceOK
        <3>3. QED
            BY <1>a, <3>2
    <2>7. QED
        BY <2>3, <2>4, <2>5, <2>6
<1>2. ASSUME NEW t \in Task, Yield(t) PROVE CountedFor(u, l)'
    <2>1. UNCHANGED <<results, txCache, listDone, delay>> /\ (pc'[u] = pc[u] \/ pc'[u] = "resume")
        BY <1>0, <1>2 DEF Yield, YieldNow, Goto, persistent, TypesInv
    <2>2. QED
        BY <2>1, SameCounted DEF Asleep
<1>3. ASSUME NEW t \in Task, Finished(t) PROVE CountedFor(u, l)'
    <2>1. UNCHANGED <<results, txCache, listDone>> /\ (pc'[u] = pc[u] \/ pc'[u] = "yield") /\ u # t
        BY <1>0, <1>a, <1>3 DEF Finished, Goto, persistent, TypesInv
    <2>2. Asleep' = Asleep \cup {t}
        BY <1>3, FinishedEffect
    <2>3. QED
        BY <2>1, <2>2, SameCounted
<1>4. CASE Tick \/ PowerFailure
    <2>1. UNCHANGED <<results, txCache, listDone>> /\ (pc'[u] = pc[u] \/ pc'[u] = "call")
        BY <1>4 DEF Tick, PowerFailure, persistent
    <2>2. Asleep' \subseteq Asleep
        BY <1>4, TickEffect
    <2>3. QED
        BY <2>1, <2>2, SameCounted
<1>5. CASE UNCHANGED vars
    <2>1. UNCHANGED <<results, txCache, listDone, pc, delay>>
        BY <1>5 DEF vars, persistent, registers, schedVars
    <2>2. QED
        BY <2>1, SameCounted DEF Asleep
<1>6. QED
    BY <1>1, <1>2, <1>3, <1>4, <1>5

\* No step loses a wake-up: an item comes with a sender that owes a wake-up,
\* and whoever stops looking has taken one or found none.
LEMMA OfferedStep ==
    ASSUME QInv, QInv', [Next]_vars, build = "opt_list", NEW l \in {Readers, Writers}, Offered(l)
    PROVE  Offered(l)'
<1> SUFFICES ASSUME Waiting(l)' # {} PROVE Free(l)' <= Cardinality(Counted(l)')
    BY DEF Offered
<1>0. /\ TypesInv /\ PositionsInv /\ l \in WaitList /\ Length \in Nat /\ items \in 0 .. Length
      /\ Readers # Writers
    BY SchedOKFacts, Constants DEF QInv, PositionsInv
<1>1. /\ IsFiniteSet(Counted(l)) /\ IsFiniteSet(Counted(l)')
      /\ Cardinality(Counted(l)) \in Nat /\ Cardinality(Counted(l)') \in Nat
    <2>1. Counted(l) \in SUBSET Task /\ Counted(l)' \in SUBSET Task
        BY DEF Counted
    <2>2. QED
        BY <2>1, SchedConstants, FS_Subset, FS_CardinalityType
<1>2. \A u \in Task : /\ u \in Counted(l) <=> CountedFor(u, l)
                      /\ u \in Counted(l)' <=> CountedFor(u, l)'
    BY DEF Counted
<1>3. Free(l) \in Nat /\ (Waiting(l) # {} => Free(l) <= Cardinality(Counted(l)))
    BY <1>0 DEF Free, Offered
\* when nobody who was counted is missing
<1>4. ASSUME items' = items, Waiting(l) # {}, \A u \in Task : CountedFor(u, l) => CountedFor(u, l)'
      PROVE  Free(l)' <= Cardinality(Counted(l)')
    <2>1. Free(l)' = Free(l)
        BY <1>4 DEF Free
    <2>2. Counted(l) \in SUBSET Counted(l)'
        BY <1>2, <1>4 DEF Counted
    <2>3. Cardinality(Counted(l)) <= Cardinality(Counted(l)')
        BY <1>1, <2>2, SizeGrows
    <2>4. QED
        BY <1>1, <1>3, <1>4, <2>1, <2>3
\* when there is nothing to wait for
<1>5. ASSUME NEW t \in Task, Refused(t), items' = items, l = Own(t) PROVE Free(l)' <= Cardinality(Counted(l)')
    <2>1. items = IF Sends(t) THEN Length ELSE 0
        BY <1>5, RefusedFacts
    <2>2. Free(l)' = 0
        BY <1>0, <1>5, <2>1 DEF Free, Own
    <2>3. QED
        BY <1>1, <2>2
<1>6. CASE \/ \E t \in Task : \/ BeginCall(t) \/ Bypass(t) \/ CopyItem(t) \/ Resume(t)
                              \/ EndCall(t) \/ Yield(t) \/ Finished(t)
           \/ Tick \/ PowerFailure \/ UNCHANGED vars
    <2>1. \A u \in Task : CountedFor(u, l) => CountedFor(u, l)'
        BY <1>6, QuietWakeStep
    <2>2. items' = items
        BY <1>6 DEF BeginCall, Bypass, CopyItem, Resume, EndCall, Yield, Finished, Tick, PowerFailure, vars,
           persistent, queueVars
    <2>3. Waiting(l) # {}
        <3>0. wait'[l] \in Seq(Task)
            BY <1>0 DEF QInv, SchedOK, ListsOK, SchedTypeOK
        <3>1. PICK u \in Task : u \in Waiting(l)'
            BY <3>0, ElemsSubset DEF Waiting
        <3>2. ~ Block(u) /\ ~ BlockJournal(u)
            <4>1. ASSUME Block(u) \/ BlockJournal(u) PROVE FALSE
                <5>1. Refused(u) /\ Sleep(u)
                    BY <4>1 DEF Block, BlockJournal
                <5>2. pc[u] = "try" /\ cur = u /\ pc'[u] = "yield" /\ ~ HasCached(u) /\ Active(u)
                    BY <1>0, <5>1, RefusedFacts DEF Sleep, Goto, TypesInv, Refused
                <5>3. ASSUME NEW t \in Task, \/ BeginCall(t) \/ Bypass(t) \/ CopyItem(t) \/ Resume(t)
                                             \/ EndCall(t) \/ Yield(t) \/ Finished(t)
                      PROVE  FALSE
                    BY <1>0, <5>2, <5>3 DEF BeginCall, Bypass, CopyItem, Resume, EndCall, Yield, Finished, At, Goto, TypesInv
                <5>4. CASE Tick \/ PowerFailure \/ UNCHANGED vars
                    BY <5>2, <5>4 DEF Tick, PowerFailure, vars, registers
                <5>5. QED
                    BY <1>6, <5>3, <5>4
            <4>2. QED
                BY <4>1
        <3>3. QED
            BY <3>1, <3>2, WaitingEffect
    <2>4. QED
        BY <1>4, <2>1, <2>2, <2>3
<1>7. ASSUME NEW t \in Task, SendTx(t) \/ ReceiveTx(t) PROVE Free(l)' <= Cardinality(Counted(l)')
    <2>1. /\ UNCHANGED <<schedVars, results, listDone>> /\ pc'[t] = "wake" /\ Step(t)
          /\ cur = t /\ pc[t] # "end"
        BY <1>0, <1>7 DEF SendTx, ReceiveTx, Commit, Goto, Step, At, TypesInv
    <2>2. Active(t) /\ Pending(t) = <<>> /\ pc[t] \in {"try", "copied"}
        BY <1>7, Commits
    <2>3. t \notin Asleep /\ Waiting(l)' = Waiting(l) /\ Asleep' = Asleep
        BY <2>1, <2>2, SchedOKFacts DEF Waiting, Asleep, schedVars
    <2>4. CountedFor(t, l) <=> l = Own(t)
        BY <2>1, <2>2, <2>3, SchedOKFacts DEF CountedFor, Poised, OwesWake, Delayed, Asleep
    <2>5. Pending(t)' # <<>> /\ ~ listDone'[t] /\ Active(t)' /\ Other(t)' = Other(t)
        <3>1. Pending(t)' # <<>>
            BY <2>1 DEF QInv, PlaceOK
        <3>2. ~ listDone[t]
            BY <2>2, TaskFacts DEF PlaceOK
        <3>3. QED
            BY <2>1, <2>2, <3>1, <3>2, SameCall
    <2>6. l = Other(t) => CountedFor(t, l)'
        BY <2>5 DEF CountedFor, OwesWake
    <2>7. ASSUME NEW u \in Task \ {t}, CountedFor(u, l) PROVE CountedFor(u, l)'
        <3>1. /\ pc'[u] = pc[u] /\ txCache'[u] = txCache[u] /\ results'[u] = results[u]
              /\ listDone'[u] = listDone[u]
            BY <2>1, StepFrame, TaskFacts
        <3>2. QED
            BY <2>3, <2>7, <3>1, SameCounted
    <2>8. items' = IF Sends(t) THEN items + 1 ELSE items - 1
        BY <1>7, Commits DEF Push, PushBack, PushFront, Dequeue
    <2>9. CASE l = Other(t)
        <3>1. Free(l)' = Free(l) + 1
            BY <1>0, <2>8, <2>9 DEF Free, Other
        <3>2. t \notin Counted(l) /\ t \in Counted(l)' /\ Counted(l) \in SUBSET Counted(l)'
            BY <1>2, <2>4, <2>6, <2>7, <2>9, SchedOKFacts DEF Counted
        <3>3. Cardinality(Counted(l)) + 1 <= Cardinality(Counted(l)')
            BY <1>1, <3>2, SizeGains
        <3>4. QED
            BY <1>1, <1>3, <2>3, <3>1, <3>3
    <2>10. CASE l = Own(t)
        <3>1. Free(l)' = Free(l) - 1
            BY <1>0, <2>8, <2>10 DEF Free, Own
        <3>2. Counted(l) \ {t} \subseteq Counted(l)'
            BY <1>2, <2>7 DEF Counted
        <3>3. Cardinality(Counted(l)) <= Cardinality(Counted(l)') + 1
            BY <1>1, <3>2, SizeLoses
        <3>4. QED
            BY <1>1, <1>3, <2>3, <3>1, <3>3
    <2>11. QED
        BY <2>9, <2>10 DEF Own, Other
<1>8. ASSUME NEW t \in Task, WakeOther(t) PROVE Free(l)' <= Cardinality(Counted(l)')
    <2>1. /\ pc[t] = "wake" /\ cur = t /\ UNCHANGED <<items, results, txCache>> /\ Step(t)
        BY <1>8 DEF WakeOther, At, Step, queueVars
    <2>2. Pending(t) # <<>> /\ pc'[t] = "end"
        BY <1>0, <1>8, <2>1, TaskFacts DEF PlaceOK, WakeOther, Goto, TypesInv
    <2>3. ASSUME NEW u \in Task \ {t}, CountedFor(u, l), u \in Asleep' => u \in Asleep PROVE CountedFor(u, l)'
        <3>1. /\ pc'[u] = pc[u] /\ txCache'[u] = txCache[u] /\ results'[u] = results[u]
              /\ listDone'[u] = listDone[u]
            BY <2>1, StepFrame, TaskFacts
        <3>2. QED
            BY <2>3, <3>1, SameCounted
    <2>4. ~ Poised(t)
        BY <2>2 DEF Poised
    <2>5. CASE listDone[t]
        <3>1. UNCHANGED schedVars /\ ~ CountedFor(t, l)
            BY <1>8, <2>4, <2>5 DEF WakeOther, CountedFor, OwesWake
        <3>2. \A u \in Task : CountedFor(u, l) => CountedFor(u, l)'
            BY <2>3, <3>1 DEF schedVars, Asleep
        <3>3. Waiting(l) # {}
            BY <3>1 DEF Waiting, schedVars
        <3>4. QED
            BY <1>4, <2>1, <3>2, <3>3
    <2>6. CASE ~ listDone[t]
        <3>1. WakeFirst(Other(t)) /\ Other(t) \in WaitList /\ ListsOK
            BY <1>8, <2>6, SchedOKFacts DEF WakeOther
        <3>2. \/ Waiting(Other(t)) = {} /\ UNCHANGED schedVars
              \/ \E w \in Task : Woken(w, Other(t))
            BY <3>1, WakeFirstFacts
        <3>3. CASE l = Other(t)
            <4>1. PICK w \in Task : Woken(w, l)
                <5>1. ~ (Waiting(l) = {} /\ UNCHANGED schedVars)
                    BY DEF Waiting, schedVars
                <5>2. QED
                    BY <3>2, <3>3, <5>1
            <4>2. w \in Waiting(l) /\ Asleep' = Asleep \ {w} /\ w \in Asleep
                BY <4>1, SchedOKFacts DEF Woken
            <4>3. /\ Active(w) /\ Pending(w) = <<>> /\ pc[w] \in {"call", "yield", "resume"} /\ Own(w) = l
                <5>1. WaiterOK(w)
                    BY TaskFacts
                <5>2. QED
                    BY <1>0, <4>2, <5>1 DEF WaiterOK, Own
            <4>4. w # t
                BY <2>2, <4>3
            <4>5. ~ CountedFor(w, l)
                BY <4>2, <4>3 DEF CountedFor, Poised, OwesWake, Delayed, Asleep
            <4>6. CountedFor(w, l)'
                <5>1. /\ pc'[w] = pc[w] /\ txCache'[w] = txCache[w] /\ results'[w] = results[w]
                    BY <2>1, <4>4, StepFrame, TaskFacts
                <5>2. Active(w)' /\ Pending(w)' = <<>> /\ Own(w)' = l
                    BY <4>3, <5>1, SameCall, SamePending
                <5>3. Poised(w)'
                    BY <4>2, <4>3, <5>1, <5>2 DEF Poised, Delayed, Asleep
                <5>4. QED
                    BY <5>2, <5>3 DEF CountedFor
            <4>7. Counted(l) \ {t} \subseteq Counted(l)' /\ w \in Counted(l)' /\ w \notin Counted(l)
                BY <1>2, <2>3, <4>2, <4>5, <4>6 DEF Counted
            <4>8. Cardinality(Counted(l)) <= Cardinality(Counted(l)')
                BY <1>1, <4>7, SizeExchange
            <4>9. Free(l)' = Free(l)
                BY <2>1 DEF Free
            <4>10. QED
                BY <1>1, <1>3, <4>2, <4>8, <4>9
        <3>4. CASE l = Own(t)
            <4>1. Asleep' \subseteq Asleep /\ Waiting(l)' = Waiting(l)
                <5>1. CASE UNCHANGED schedVars
                    BY <5>1 DEF schedVars, Asleep, Waiting
                <5>2. CASE \E w \in Task : Woken(w, Other(t))
                    BY <1>0, <3>4, <5>2, SchedOKFacts DEF Woken
                <5>3. QED
                    BY <3>2, <5>1, <5>2
            <4>2. ~ CountedFor(t, l)
                BY <2>4, <3>4, SchedOKFacts DEF CountedFor
            <4>3. \A u \in Task : CountedFor(u, l) => CountedFor(u, l)'
                BY <2>3, <4>1, <4>2
            <4>4. QED
                BY <1>4, <2>1, <4>1, <4>3
        <3>5. QED
            BY <3>3, <3>4 DEF Own, Other
    <2>7. QED
        BY <2>5, <2>6
<1>9. ASSUME NEW t \in Task, Block(t) \/ GiveUp(t) PROVE Free(l)' <= Cardinality(Counted(l)')
    <2>1. Refused(t) /\ items' = items /\ Step(t)
        BY <1>9 DEF Block, GiveUp, Step, persistent, queueVars
    <2>2. CASE l = Own(t)
        BY <1>5, <2>1, <2>2
    <2>3. CASE l = Other(t)
        <3>1. Pending(t) = <<>>
            BY <2>1, RefusedFacts
        <3>2. ~ CountedFor(t, l)
            BY <2>3, <3>1, SchedOKFacts DEF CountedFor, OwesWake
        <3>3. Waiting(l)' = Waiting(l) /\ Asleep' \subseteq Asleep \cup {t}
            <4>1. CASE Block(t)
                BY <1>0, <2>3, <4>1, BlockEffect, SchedOKFacts DEF Slept
            <4>2. CASE GiveUp(t)
                BY <4>2 DEF GiveUp, schedVars, Waiting, Asleep
            <4>3. QED
                BY <1>9, <4>1, <4>2
        <3>4. ASSUME NEW u \in Task, CountedFor(u, l) PROVE CountedFor(u, l)'
            <4>1. u # t
                BY <3>2, <3>4
            <4>2. /\ pc'[u] = pc[u] /\ txCache'[u] = txCache[u] /\ results'[u] = results[u]
                  /\ listDone'[u] = listDone[u]
                BY <2>1, <4>1, StepFrame, TaskFacts
            <4>3. QED
                BY <3>3, <3>4, <4>1, <4>2, SameCounted
        <3>5. QED
            BY <1>4, <2>1, <3>3, <3>4
    <2>4. QED
        BY <2>2, <2>3 DEF Own, Other
<1>10. ASSUME NEW t \in Task, SendTxJournal(t) \/ ReceiveTxJournal(t) \/ BlockJournal(t) PROVE FALSE
    BY <1>10 DEF SendTxJournal, ReceiveTxJournal, BlockJournal
<1>11. QED
    BY <1>6, <1>7, <1>8, <1>9, <1>10 DEF Next, Step

\* With opt_list no wake-up is lost, whatever fails: while a task sleeps on
\* the queue, every item or free slot is matched by a task that will look at
\* it or by one that has yet to wake somebody.
THEOREM NoWakeupIsLost == Spec => []NoLostWakeup
<1>1. Init => NoLostWakeup
    <2>1. SUFFICES ASSUME Init PROVE NoLostWakeup
        OBVIOUS
    <2>2. Waiting(Readers) = {} /\ Waiting(Writers) = {}
        BY <2>1, SchedInitFacts, Constants DEF Init
    <2>3. QInv
        BY <2>1, InitQInv
    <2>4. QED
        BY <2>2, <2>3, OfferedFacts DEF Offered
<1>2. QInv /\ QInv' /\ NoLostWakeup /\ [Next]_vars => NoLostWakeup'
    <2> SUFFICES ASSUME QInv, QInv', NoLostWakeup, [Next]_vars PROVE NoLostWakeup'
        OBVIOUS
    <2>1. build' = build
        <3>1. ASSUME NEW t \in Task, Step(t) PROVE build' = build
            BY <3>1, StepFrame, TaskFacts
        <3>2. QED
            BY <3>1 DEF Next, Tick, PowerFailure, vars, persistent
    <2>2. build = "opt_list" => Offered(Readers) /\ Offered(Writers)
        BY OfferedFacts
    <2>3. build' = "opt_list" => Offered(Readers)' /\ Offered(Writers)'
        BY <2>1, <2>2, OfferedStep
    <2>4. (QInv => (NoLostWakeup <=> (build = "opt_list" => Offered(Readers) /\ Offered(Writers))))'
        BY OfferedFacts, PTL
    <2>5. QED
        BY <2>3, <2>4
<1>3. QED
    BY <1>1, <1>2, Inductive, PTL DEF Spec

-----------------------------------------------------------------------------
(***************************************************************************)
(* Calls time out when they should.                                        *)
(***************************************************************************)

\* With opt_list the register wakeup_time is what the history variable says,
\* and the remaining ticks are over only when the deadline has passed.
TimeOK(t) ==
    build = "opt_list" /\ Active(t) =>
        /\ pc[t] \in {"try", "yield", "resume"} => expiry[t] = due[t]
        /\ pc[t] = "try" => /\ ticks[t] # Never /\ (due[t] = Never => ticks[t] = Wanted(t))
                            /\ due[t] # Never /\ ticks[t] = 0 => due[t] = 0
        /\ pc[t] \in {"yield", "resume"} => due[t] # Never
        /\ t \in Asleep /\ due[t] # Never => left[t] = due[t]
        /\ pc[t] = "end" /\ Pending(t) = <<>> /\ Wanted(t) # 0 => due[t] = 0

\* A task that is asleep slept before, with the same time left.
LEMMA LeftKept ==
    ASSUME QInv, NEW t \in Task, Step(t), NEW u \in Task, u \in Asleep',
           u # t \/ ~ (Block(t) \/ BlockJournal(t) \/ Finished(t))
    PROVE  u \in Asleep /\ left'[u] = left[u]
<1>0. left \in [Task -> 0 .. Never] /\ ListsOK
    BY SchedOKFacts DEF ListsOK, SchedTypeOK
<1>1. CASE QuietStep(t) \/ WakingStep(t)
    <2>1. UNCHANGED schedVars \/ \E w \in Task : Woken(w, Other(t))
        BY <1>1, AwakeEffect
    <2>2. QED
        BY <1>0, <2>1, SameLists DEF Woken
<1>2. CASE Block(t) \/ BlockJournal(t)
    BY <1>0, <1>2, BlockEffect DEF Slept
<1>3. CASE Finished(t)
    BY <1>0, <1>3, FinishedEffect
<1>4. CASE Yield(t)
    BY <1>4, YieldEffect DEF Asleep
<1>5. QED
    BY <1>1, <1>2, <1>3, <1>4 DEF Step, QuietStep, WakingStep

\* A step keeps the time of every task.
LEMMA TimeStepTask ==
    ASSUME QInv, NEW t \in Task, Step(t), NEW u \in Task, TimeOK(u)
    PROVE  TimeOK(u)'
<1>0. TypesInv /\ PlaceOK(u) /\ CacheOK(u) /\ cur = t /\ build' = build
    BY TaskFacts, StepFrame
<1>c. Never \in Nat
    BY Constants
<1>1. CASE u # t
    <2>1. /\ pc'[u] = pc[u] /\ txCache'[u] = txCache[u] /\ results'[u] = results[u]
          /\ ticks'[u] = ticks[u] /\ expiry'[u] = expiry[u] /\ due'[u] = due[u]
        BY <1>1, StepFrame, TaskFacts
    <2>2. u \in Asleep' => u \in Asleep /\ left'[u] = left[u]
        BY <1>1, LeftKept
    <2>3. (Active(u)' <=> Active(u)) /\ Wanted(u)' = Wanted(u) /\ Pending(u)' = Pending(u)
        BY <2>1, SameCall, SamePending
    <2>4. QED
        BY <1>0, <2>1, <2>2, <2>3 DEF TimeOK
<1>2. CASE u = t /\ build = "opt_list"
    <2> USE <1>0, <1>2, <1>c
    <2>a. u \in Asleep' /\ ~ (Block(t) \/ BlockJournal(t) \/ Finished(t)) => u \in Asleep /\ left'[u] = left[u]
        BY LeftKept
    <2>1. CASE BeginCall(t)
        <3>1. /\ Active(t) /\ ticks'[t] = Wanted(t) /\ expiry'[t] = Never /\ due'[t] = Never /\ pc'[t] = "try"
              /\ UNCHANGED <<results, txCache>>
            BY <2>1 DEF BeginCall, Wanted, Goto, persistent, TypesInv
        <3>2. Wanted(t) # Never /\ Wanted(t)' = Wanted(t)
            BY <3>1, CallType, SameCall
        <3>3. QED
            BY <3>1, <3>2 DEF TimeOK
    <2>2. CASE Bypass(t) \/ SendTx(t) \/ ReceiveTx(t)
        <3>1. pc'[t] = "wake" /\ UNCHANGED <<results, due>> /\ pc[t] # "yield"
            <4>1. CASE Bypass(t)
                BY <4>1, BypassFacts DEF Bypass
            <4>2. CASE SendTx(t) \/ ReceiveTx(t)
                BY <4>2 DEF SendTx, ReceiveTx, Goto, Commit, At, TypesInv
            <4>3. QED
                BY <2>2, <4>1, <4>2
        <3>2. t \notin Asleep'
            BY <2>2, <2>a, AwakeEffect, SameLists, SchedOKFacts DEF QuietStep, Woken
        <3>3. QED
            BY <3>1, <3>2 DEF TimeOK
    <2>3. CASE CopyItem(t)
        <3>1. pc'[t] = "copied" /\ UNCHANGED <<results, due, left>> /\ Asleep' = Asleep
            BY <2>3 DEF CopyItem, Goto, schedVars, Asleep, TypesInv
        <3>2. QED
            BY <3>1, SameCall DEF TimeOK
    <2>4. CASE WakeOther(t)
        <3>1. pc[t] = "wake" /\ pc'[t] = "end" /\ UNCHANGED <<results, due, txCache>>
            BY <2>4 DEF WakeOther, At, Goto, TypesInv
        <3>2. Pending(t)' # <<>>
            BY <3>1, SamePending DEF PlaceOK
        <3>3. t \notin Asleep'
            <4>1. t \notin Asleep
                BY <2>4, AwakeEffect DEF WakingStep
            <4>2. ~ (Block(t) \/ BlockJournal(t) \/ Finished(t))
                BY <3>1 DEF Block, BlockJournal, Refused, Finished, At
            <4>3. QED
                BY <2>a, <4>1, <4>2
        <3>4. QED
            BY <3>1, <3>2, <3>3 DEF TimeOK
    <2>5. CASE Block(t)
        <3>1. /\ Refused(t) /\ pc'[t] = "yield" /\ expiry'[t] = Deadline(t)
              /\ due'[t] = (IF due[t] = Never THEN ticks[t] ELSE due[t])
              /\ UNCHANGED <<results, txCache>>
            BY <2>5 DEF Block, Sleep, Goto, persistent, TypesInv
        <3>2. Active(t) /\ pc[t] = "try"
            BY <3>1, RefusedFacts
        <3>3. left'[t] = Deadline(t)
            <4>1. left \in [Task -> 0 .. Never]
                BY SchedOKFacts DEF ListsOK, SchedTypeOK
            <4>2. QED
                BY <2>5, <4>1, BlockEffect DEF Slept
        <3>4. Deadline(t) = due'[t] /\ due'[t] # Never
            BY <3>1, <3>2 DEF TimeOK, Deadline
        <3>5. QED
            BY <3>1, <3>2, <3>3, <3>4 DEF TimeOK
    <2>6. CASE GiveUp(t)
        <3>1. /\ Refused(t) /\ ticks[t] = 0 /\ pc'[t] = "end" /\ UNCHANGED <<results, due, left>> /\ Asleep' = Asleep
            BY <2>6 DEF GiveUp, Goto, schedVars, Asleep, TypesInv
        <3>2. Active(t) /\ pc[t] = "try" /\ Wanted(t)' = Wanted(t)
            BY <3>1, RefusedFacts, SameCall
        <3>3. Wanted(t) # 0 => due[t] = 0
            BY <3>1, <3>2 DEF TimeOK
        <3>4. QED
            BY <3>1, <3>2, <3>3 DEF TimeOK
    <2>7. CASE Yield(t)
        <3>1. pc[t] = "yield" /\ pc'[t] = "resume" /\ UNCHANGED <<results, due, expiry, left, delay>>
            BY <2>7 DEF Yield, YieldNow, At, Goto, persistent, TypesInv
        <3>2. Asleep' = Asleep /\ (Active(t)' <=> Active(t))
            BY <3>1, SameCall DEF Asleep
        <3>3. QED
            BY <3>1, <3>2 DEF TimeOK
    <2>8. CASE Resume(t)
        <3>1. /\ pc[t] = "resume" /\ ticks'[t] = Countdown(t) /\ UNCHANGED <<results, due, expiry, left>>
              /\ Asleep' = Asleep /\ (Active(t) => pc'[t] = "try")
            BY <2>8 DEF Resume, At, Goto, persistent, schedVars, Asleep, TypesInv
        <3>2. (Active(t)' <=> Active(t)) /\ Wanted(t)' = Wanted(t)
            BY <3>1, SameCall
        <3>3. Active(t) => Countdown(t) = due[t] /\ expiry[t] = due[t] /\ due[t] # Never
            BY <3>1 DEF TimeOK, Countdown
        <3>4. QED
            BY <3>1, <3>2, <3>3 DEF TimeOK
    <2>9. CASE EndCall(t)
        <3>1. pc'[t] = "call" /\ due'[t] = Never
            BY <2>9 DEF EndCall, Goto, TypesInv
        <3>2. QED
            BY <3>1 DEF TimeOK
    <2>10. CASE Finished(t)
        <3>1. ~ Active(t)'
            BY <2>10, SameCall DEF Finished, persistent
        <3>2. QED
            BY <3>1 DEF TimeOK
    <2>11. ~ (SendTxJournal(t) \/ ReceiveTxJournal(t) \/ BlockJournal(t))
        BY DEF SendTxJournal, ReceiveTxJournal, BlockJournal
    <2>12. QED
        BY <2>1, <2>2, <2>3, <2>4, <2>5, <2>6, <2>7, <2>8, <2>9, <2>10, <2>11 DEF Step
<1>3. CASE u = t /\ build # "opt_list"
    BY <1>0, <1>3 DEF TimeOK
<1>4. QED
    BY <1>1, <1>2, <1>3

\* The tick counts down what is left of a sleep and of a deadline alike.
LEMMA TimeTick ==
    ASSUME QInv, Tick, NEW u \in Task, TimeOK(u)
    PROVE  TimeOK(u)'
<1>0. TypesInv /\ Never \in Nat
    BY TaskFacts, Constants
<1>1. UNCHANGED <<build, results, txCache, pc, ticks>> /\ expiry' = Less(expiry) /\ due' = Less(due)
    BY DEF Tick, persistent
<1>2. (Active(u)' <=> Active(u)) /\ Wanted(u)' = Wanted(u) /\ Pending(u)' = Pending(u)
    BY <1>1, SameCall, SamePending
<1>3. /\ expiry[u] \in 0 .. Never /\ due[u] \in 0 .. Never
      /\ expiry'[u] = IF expiry[u] \in {0, Never} THEN expiry[u] ELSE expiry[u] - 1
      /\ due'[u] = IF due[u] \in {0, Never} THEN due[u] ELSE due[u] - 1
    BY <1>0, <1>1, LessType DEF TypesInv
<1>4. /\ u \in Asleep' => u \in Asleep
      /\ left'[u] = IF left[u] \in {0, Never} THEN left[u] ELSE left[u] - 1
    <2>1. TickAndSwitch
        BY DEF Tick
    <2>2. QED
        BY <2>1, TickFacts, SchedOKFacts
<1>5. /\ due'[u] = Never <=> due[u] = Never
      /\ due[u] = 0 => due'[u] = 0
    BY <1>0, <1>3
<1>6. QED
    BY <1>1, <1>2, <1>3, <1>4, <1>5 DEF TimeOK

\* Every step keeps the time of every task.
LEMMA TimeStep ==
    ASSUME QInv, [Next]_vars, NEW u \in Task, TimeOK(u)
    PROVE  TimeOK(u)'
<1>1. CASE PowerFailure
    <2>1. due'[u] = Never /\ pc'[u] = "call"
        BY <1>1 DEF PowerFailure
    <2>2. QED
        BY <2>1 DEF TimeOK
<1>2. CASE UNCHANGED vars
    <2>1. UNCHANGED <<build, results, txCache, pc, ticks, expiry, due, delay, left>>
        BY <1>2 DEF vars, persistent, registers, schedVars
    <2>2. QED
        BY <2>1, SameCall, SamePending DEF TimeOK, Asleep
<1>3. QED
    BY <1>1, <1>2, TimeStepTask, TimeTick DEF Next

TimeInv == \A t \in Task : TimeOK(t)

\* With opt_list a call that sleeps again because another task was faster
\* wakes at its first deadline, and it gives up only when that has passed.
THEOREM CallsTimeOut == Spec => []TimesOutOnTime
<1>1. Init => TimeInv
    BY DEF Init, TimeInv, TimeOK
<1>2. QInv /\ TimeInv /\ [Next]_vars => TimeInv'
    BY TimeStep DEF TimeInv
<1>3. TimeInv => TimesOutOnTime
    BY DEF TimeInv, TimeOK, TimesOutOnTime, Wanted, Delayed, Asleep
<1>4. QED
    BY <1>1, <1>2, <1>3, Inductive, PTL DEF Spec

-----------------------------------------------------------------------------
(***************************************************************************)
(* The contents of the ring buffer.                                        *)
(***************************************************************************)

\* the n items of the buffer b from the slot r on
Ring(b, r, n) == [i \in 1 .. n |-> b[(r + i - 1) % Length]]

\* A ring is a sequence, and where its items are.
LEMMA RingFacts ==
    ASSUME NEW b \in [0 .. Length - 1 -> Result], NEW r \in 0 .. Length - 1, NEW n \in 0 .. Length
    PROVE  /\ Ring(b, r, n) \in Seq(Result) /\ Len(Ring(b, r, n)) = n
           /\ \A i \in 1 .. n : Ring(b, r, n)[i] = b[Around(r + (i - 1))] /\ Around(r + (i - 1)) \in 0 .. Length - 1
<1>0. Length \in Nat /\ Length >= 1 /\ n \in Nat
    BY Constants
<1>1. ASSUME NEW i \in 1 .. n
      PROVE  (r + i - 1) % Length = Around(r + (i - 1)) /\ Around(r + (i - 1)) \in 0 .. Length - 1
    <2>1. i - 1 \in 0 .. Length /\ r + i - 1 = r + (i - 1)
        BY <1>0
    <2>2. (r + i - 1) % Length = Around(r + (i - 1))
        BY <2>1, AroundFacts
    <2>3. QED
        BY <1>0, <2>1, <2>2 DEF Around
<1>2. \A i \in 1 .. n : b[(r + i - 1) % Length] \in Result
    BY <1>1
<1>3. PICK s : s = Ring(b, r, n)
    OBVIOUS
<1>4. s \in [1 .. n -> Result] /\ \A i \in 1 .. n : s[i] = b[(r + i - 1) % Length]
    BY <1>2, <1>3 DEF Ring
<1>5. s \in Seq(Result) /\ Len(s) = n
    BY <1>0, <1>4
<1>6. QED
    BY <1>1, <1>3, <1>4, <1>5

\* An item in the slot behind the ring.
LEMMA RingBack ==
    ASSUME NEW b \in [0 .. Length - 1 -> Result], NEW r \in 0 .. Length - 1, NEW n \in 0 .. Length,
           n # Length
    PROVE  Ring(b, r, n + 1) = Append(Ring(b, r, n), b[Around(r + n)])
<1>0. Length \in Nat /\ n \in Nat /\ n + 1 \in 0 .. Length
    BY Constants
<1>1. PICK s : s = Ring(b, r, n)
    OBVIOUS
<1>2. PICK u : u = Ring(b, r, n + 1)
    OBVIOUS
<1>3. /\ s \in Seq(Result) /\ Len(s) = n
      /\ \A i \in 1 .. n : s[i] = b[Around(r + (i - 1))]
    BY <1>1, RingFacts
<1>4. /\ u \in Seq(Result) /\ Len(u) = n + 1
      /\ \A i \in 1 .. n + 1 : u[i] = b[Around(r + (i - 1))]
    BY <1>0, <1>2, RingFacts
<1>5. PICK x : x = u[n + 1]
    OBVIOUS
<1>6. x \in Result /\ x = b[Around(r + n)]
    <2>1. n + 1 \in 1 .. n + 1 /\ n + 1 - 1 = n
        BY <1>0
    <2>2. QED
        BY <1>4, <1>5, <2>1
<1>7. PICK v : v = Append(s, x)
    OBVIOUS
<1>8. /\ v \in Seq(Result) /\ Len(v) = n + 1 /\ v[n + 1] = x
      /\ \A i \in 1 .. n : v[i] = s[i]
    BY <1>0, <1>3, <1>6, <1>7, AppendProperties
<1>9. \A i \in 1 .. n + 1 : u[i] = v[i]
    <2> SUFFICES ASSUME NEW i \in 1 .. n + 1 PROVE u[i] = v[i]
        OBVIOUS
    <2>1. i = n + 1 \/ i \in 1 .. n
        BY <1>0
    <2>2. QED
        BY <1>3, <1>4, <1>5, <1>8, <2>1
<1>10. u = v
    BY <1>4, <1>8, <1>9, SeqEqual
<1>11. QED
    BY <1>1, <1>2, <1>6, <1>7, <1>10

\* The ring without its first item.
LEMMA RingTail ==
    ASSUME NEW b \in [0 .. Length - 1 -> Result], NEW r \in 0 .. Length - 1, NEW n \in 1 .. Length
    PROVE  /\ Ring(b, r, n) # <<>> /\ Head(Ring(b, r, n)) = b[r]
           /\ Ring(b, After(r), n - 1) = Tail(Ring(b, r, n)) /\ After(r) \in 0 .. Length - 1
<1>0. Length \in Nat /\ Length >= 1 /\ n \in Nat /\ n \in 0 .. Length /\ n - 1 \in 0 .. Length /\ n - 1 \in Nat
    BY Constants
<1>1. PICK s : s = Ring(b, r, n)
    OBVIOUS
<1>2. PICK q : q = After(r)
    OBVIOUS
<1>3. q \in 0 .. Length - 1
    BY <1>0, <1>2 DEF After
<1>4. PICK u : u = Ring(b, q, n - 1)
    OBVIOUS
<1>5. /\ s \in Seq(Result) /\ Len(s) = n
      /\ \A i \in 1 .. n : s[i] = b[Around(r + (i - 1))]
    BY <1>0, <1>1, RingFacts
<1>6. /\ u \in Seq(Result) /\ Len(u) = n - 1
      /\ \A i \in 1 .. n - 1 : u[i] = b[Around(q + (i - 1))]
    BY <1>0, <1>3, <1>4, RingFacts
<1>7. s # <<>> /\ Head(s) = b[r]
    <2>1. Around(r + (1 - 1)) = r /\ 1 \in 1 .. n
        BY <1>0 DEF Around
    <2>2. s[1] = b[r]
        BY <1>5, <2>1
    <2>3. QED
        BY <1>5, <2>2
<1>8. PICK v : v = Tail(s)
    OBVIOUS
<1>9. v \in Seq(Result) /\ Len(v) = n - 1 /\ \A i \in 1 .. n - 1 : v[i] = s[i + 1]
    BY <1>0, <1>5, <1>7, <1>8, HeadTailProperties
<1>10. ASSUME NEW i \in 1 .. n - 1 PROVE u[i] = v[i]
    <2>1. Around(q + (i - 1)) = Around(r + (i + 1 - 1)) /\ i + 1 \in 1 .. n
        BY <1>0, <1>2 DEF Around, After
    <2>2. s[i + 1] = b[Around(r + (i + 1 - 1))]
        BY <1>5, <2>1
    <2>3. QED
        BY <1>6, <1>9, <2>1, <2>2
<1>11. u = v
    BY <1>6, <1>9, <1>10, SeqEqual
<1>12. QED
    BY <1>1, <1>2, <1>3, <1>4, <1>7, <1>8, <1>11

\* An item in the slot in front of the ring.
LEMMA RingFront ==
    ASSUME NEW b \in [0 .. Length - 1 -> Result], NEW r \in 0 .. Length - 1, NEW n \in 0 .. Length,
           n # Length
    PROVE  Ring(b, Before(r), n + 1) = <<b[Before(r)]>> \o Ring(b, r, n)
<1>0. Length \in Nat /\ Length >= 1 /\ n \in Nat /\ n + 1 \in 0 .. Length /\ n + 1 \in 1 .. Length
    BY Constants
<1>1. PICK q : q = Before(r)
    OBVIOUS
<1>2. q \in 0 .. Length - 1 /\ After(q) = r
    BY <1>0, <1>1 DEF Before, After
<1>3. PICK u : u = Ring(b, q, n + 1)
    OBVIOUS
<1>4. u \in Seq(Result) /\ Len(u) = n + 1
    BY <1>0, <1>2, <1>3, RingFacts
<1>5. u # <<>> /\ Head(u) = b[q] /\ Ring(b, r, n) = Tail(u)
    <2>1. PICK m \in 1 .. Length : m = n + 1
        BY <1>0
    <2>2. m - 1 = n /\ u = Ring(b, q, m)
        BY <1>0, <1>3, <2>1
    <2>3. u # <<>> /\ Head(u) = b[q] /\ Ring(b, After(q), m - 1) = Tail(u)
        BY <1>2, <2>2, RingTail
    <2>4. QED
        BY <1>2, <2>2, <2>3
<1>6. u = <<Head(u)>> \o Tail(u)
    <2>1. PICK v : v = Tail(u)
        OBVIOUS
    <2>2. v \in Seq(Result) /\ Len(v) = n /\ \A i \in 1 .. n : v[i] = u[i + 1]
        BY <1>0, <1>4, <1>5, <2>1, HeadTailProperties
    <2>3. PICK x \in Result : x = Head(u)
        BY <1>4, <1>5, HeadTailProperties
    <2>4. PICK w : w = <<x>> \o v
        OBVIOUS
    <2>5. /\ <<x>> \in Seq(Result) /\ Len(<<x>>) = 1 /\ <<x>>[1] = x
        BY <2>3
    <2>6. /\ w \in Seq(Result) /\ Len(w) = 1 + n
          /\ \A i \in 1 .. 1 + n : w[i] = IF i <= 1 THEN <<x>>[i] ELSE v[i - 1]
        BY <2>2, <2>4, <2>5, ConcatProperties
    <2>7. ASSUME NEW i \in 1 .. n + 1 PROVE u[i] = w[i]
        <3>1. CASE i = 1
            <4>1. w[1] = x
                BY <1>0, <2>5, <2>6, <3>1
            <4>2. u[1] = x
                BY <1>4, <1>5, <2>3
            <4>3. QED
                BY <3>1, <4>1, <4>2
        <3>2. CASE i # 1
            <4>1. i - 1 \in 1 .. n /\ ~ (i <= 1) /\ i - 1 + 1 = i /\ i \in 1 .. 1 + n
                BY <1>0, <3>2
            <4>2. w[i] = v[i - 1]
                BY <2>6, <4>1
            <4>3. v[i - 1] = u[i - 1 + 1]
                BY <2>2, <4>1
            <4>4. QED
                BY <4>1, <4>2, <4>3
        <3>3. QED
            BY <3>1, <3>2
    <2>8. Len(w) = n + 1
        BY <1>0, <2>6
    <2>9. u = w
        BY <1>4, <2>6, <2>7, <2>8, SeqEqual
    <2>10. QED
        BY <2>1, <2>3, <2>4, <2>9
<1>7. QED
    BY <1>1, <1>3, <1>5, <1>6

CopyKeeps(b, r, n, k, x) == Ring([b EXCEPT ![k] = x], r, n) = Ring(b, r, n)

\* The slot an item is copied to is none of the ring.
LEMMA RingCopy ==
    ASSUME NEW b \in [0 .. Length - 1 -> Result], NEW r \in 0 .. Length - 1, NEW n \in 0 .. Length,
           n # Length, NEW k, k = Around(r + n) \/ k = Before(r), NEW x \in Result
    PROVE  CopyKeeps(b, r, n, k, x)
<1>0. Length \in Nat /\ Length >= 1 /\ n \in Nat /\ r \in Nat
    BY Constants
<1>1. PICK c : c = [b EXCEPT ![k] = x]
    OBVIOUS
<1>2. c \in [0 .. Length - 1 -> Result] /\ \A j \in 0 .. Length - 1 : j # k => c[j] = b[j]
    BY <1>1
<1>3. PICK s : s = Ring(b, r, n)
    OBVIOUS
<1>4. PICK u : u = Ring(c, r, n)
    OBVIOUS
<1>5. /\ s \in Seq(Result) /\ Len(s) = n
      /\ \A i \in 1 .. n : s[i] = b[Around(r + (i - 1))] /\ Around(r + (i - 1)) \in 0 .. Length - 1
    BY <1>3, RingFacts
<1>6. /\ u \in Seq(Result) /\ Len(u) = n
      /\ \A i \in 1 .. n : u[i] = c[Around(r + (i - 1))]
    BY <1>2, <1>4, RingFacts
<1>7. ASSUME NEW i \in 1 .. n PROVE s[i] = u[i]
    <2>1. Around(r + (i - 1)) # k
        BY <1>0 DEF Around, Before
    <2>2. QED
        BY <1>2, <1>5, <1>6, <2>1
<1>8. s = u
    BY <1>5, <1>6, <1>7, SeqEqual
<1>9. QED
    BY <1>1, <1>3, <1>4, <1>8 DEF CopyKeeps

-----------------------------------------------------------------------------
(***************************************************************************)
(* The queue implements BoundedFifo.  In the build without opt_list this   *)
(* rests on a call being refused twice at most, its last refusal included: *)
(* then a repeated call passes over all of its cached results.             *)
(***************************************************************************)
RefusedOnce == "journal" \notin Builds \/ MaxRetries <= 1

\* Without opt_list: how many results a call has cached, how many of them it
\* has passed over, and that a repeated call has no time left behind the first.
AnswerOK(t) ==
    /\ build = "journal" =>
          /\ Len(txCache[t]) <= 2
          /\ Active(t) /\ Wanted(t) = 0 => Len(txCache[t]) <= 1
          /\ Active(t) /\ pc[t] \in Looping =>
                /\ ptr[t] <= 1 /\ (HasCached(t) => expiry[t] = Never)
                /\ pc[t] \in {"try", "copied"} => /\ Wanted(t) = 0 => ptr[t] = 0
                                                  /\ ptr[t] = 0 => ticks[t] = Wanted(t)
                /\ pc[t] \in {"yield", "resume"} => ptr[t] = 1 /\ Wanted(t) # 0
                /\ pc[t] = "try" /\ HasCached(t) /\ ptr[t] = 1 => ticks[t] = 0
    /\ pc[t] = "end" => ptr[t] = Len(txCache[t])

AnswerInv == \A t \in Task : AnswerOK(t)

\* A step keeps this of the task that takes it.
LEMMA AnswerOwnTask ==
    ASSUME RefusedOnce, QInv, QInv', NEW t \in Task, Step(t), AnswerOK(t)
    PROVE  AnswerOK(t)'
<1>0. TypesInv /\ PlaceOK(t) /\ CacheOK(t) /\ build' = build /\ PlaceOK(t)' /\ TypesInv'
    BY TaskFacts, StepFrame DEF QInv
<1>b. build \in {"journal", "opt_list"}
    BY <1>0, Constants DEF TypesInv
<1>1. CASE build = "opt_list"
    BY <1>0, <1>1 DEF AnswerOK, PlaceOK
<1>2. CASE build = "journal"
    <2>m. MaxRetries \in Nat /\ MaxRetries <= 1
        BY <1>0, <1>2, QueueAssumption DEF QueueAssumption, RefusedOnce, TypesInv
    <2>t. ptr[t] \in Nat /\ Len(txCache[t]) \in Nat /\ txCache[t] \in Seq(Seq(Result))
        BY <1>0 DEF TypesInv
    <2> USE <1>0, <1>2, <2>t
    <2>1. CASE BeginCall(t)
        <3>1. /\ Active(t) /\ ticks'[t] = Wanted(t) /\ expiry'[t] = Never /\ pc'[t] = "try" /\ ptr'[t] = 0
              /\ UNCHANGED <<results, txCache>>
            BY <2>1 DEF BeginCall, Wanted, Goto, persistent, TypesInv
        <3>2. QED
            BY <3>1, SameCall DEF AnswerOK
    <2>2. CASE Bypass(t)
        <3>1. /\ Active(t) /\ pc[t] = "try" /\ ptr'[t] = ptr[t] + 1 /\ HasCached(t) /\ ptr[t] < Len(txCache[t])
              /\ UNCHANGED <<results, txCache, expiry, ticks>>
            BY <2>2, BypassFacts DEF Bypass, HasCached, persistent
        <3>2. ptr[t] <= 1 /\ expiry[t] = Never /\ Len(txCache[t]) <= 2
            BY <3>1 DEF AnswerOK, Looping
        <3>3. (Active(t)' <=> Active(t)) /\ Wanted(t)' = Wanted(t)
            BY <3>1, SameCall
        <3>4. CASE pc'[t] = "end"
            <4>1. ptr'[t] = Len(txCache[t])
                <5>1. CASE ptr'[t] = Len(txCache[t])
                    BY <5>1
                <5>2. CASE ptr'[t] # Len(txCache[t])
                    <6>1. ticks[t] = 0
                        BY <2>2, <3>4, <5>2, BypassFacts
                    <6>2. ptr[t] = 0 => Wanted(t) = 0 /\ Len(txCache[t]) <= 1
                        BY <3>1, <6>1 DEF AnswerOK, Looping
                    <6>3. QED
                        BY <3>1, <3>2, <6>2
                <5>3. QED
                    BY <5>1, <5>2
            <4>2. QED
                BY <3>1, <3>3, <3>4, <4>1 DEF AnswerOK, Looping
        <3>5. CASE pc'[t] = "yield"
            <4>1. ticks[t] # 0
                BY <2>2, <3>5, BypassFacts
            <4>2. ptr[t] = 0 /\ Wanted(t) # 0
                BY <3>1, <3>2, <4>1 DEF AnswerOK, Looping
            <4>3. QED
                BY <3>1, <3>2, <3>3, <3>5, <4>2 DEF AnswerOK, Looping, HasCached
        <3>6. pc'[t] \in {"end", "yield"}
            BY <2>2, BypassFacts
        <3>7. QED
            BY <3>4, <3>5, <3>6
    <2>3. CASE CopyItem(t)
        <3>1. /\ pc[t] = "try" /\ pc'[t] = "copied" /\ UNCHANGED <<results, txCache, ptr, ticks, expiry>>
            BY <2>3 DEF CopyItem, At, Goto, TypesInv
        <3>2. (Active(t)' <=> Active(t)) /\ Wanted(t)' = Wanted(t) /\ (HasCached(t)' <=> HasCached(t))
            BY <3>1, SameCall DEF HasCached
        <3>3. QED
            BY <3>1, <3>2 DEF AnswerOK, Looping
    <2>4. ASSUME NEW r \in Seq(Result), txCache' = [txCache EXCEPT ![t] = Append(@, r)],
                 ptr' = [ptr EXCEPT ![t] = @ + 1], results' = results, Active(t),
                 ptr[t] = Len(txCache[t]), pc[t] \in {"try", "copied"}, pc'[t] = "end"
          PROVE  AnswerOK(t)'
        <3>1. Len(txCache'[t]) = Len(txCache[t]) + 1 /\ ptr'[t] = Len(txCache'[t])
            BY <2>4, AppendFacts DEF TypesInv
        <3>2. ptr[t] <= 1 /\ (Wanted(t) = 0 => ptr[t] = 0)
            BY <2>4 DEF AnswerOK, Looping
        <3>3. Wanted(t)' = Wanted(t)
            BY <2>4, SameCall
        <3>4. QED
            BY <2>4, <3>1, <3>2, <3>3 DEF AnswerOK, Looping
    <2>5. CASE SendTxJournal(t) \/ ReceiveTxJournal(t)
        <3>1. PICK r \in Result : Commit(t, r)
            BY <2>5, Commits
        <3>2. Active(t) /\ ptr[t] = Len(txCache[t]) /\ pc[t] \in {"try", "copied"}
            BY <2>5, Commits
        <3>3. pc'[t] = "end"
            BY <2>5 DEF SendTxJournal, ReceiveTxJournal, Goto, TypesInv
        <3>4. /\ <<r>> \in Seq(Result) /\ txCache' = [txCache EXCEPT ![t] = Append(@, <<r>>)]
              /\ ptr' = [ptr EXCEPT ![t] = @ + 1] /\ results' = results
            BY <3>1, CommitFacts
        <3>5. QED
            BY <2>4, <3>2, <3>3, <3>4
    <2>6. CASE GiveUp(t)
        <3>1. Refused(t) /\ pc'[t] = "end" /\ results' = results
              /\ txCache' = [txCache EXCEPT ![t] = Append(@, Refusal)] /\ ptr' = [ptr EXCEPT ![t] = @ + 1]
            BY <2>6 DEF GiveUp, Goto, TypesInv
        <3>2. Active(t) /\ ptr[t] = Len(txCache[t]) /\ pc[t] \in {"try", "copied"} /\ Refusal \in Seq(Result)
            BY <3>1, RefusedFacts DEF Refusal
        <3>3. QED
            BY <2>4, <3>1, <3>2
    <2>7. CASE BlockJournal(t)
        <3>1. /\ Refused(t) /\ ticks[t] # 0 /\ Len(txCache[t]) < MaxRetries /\ pc'[t] = "yield"
              /\ UNCHANGED <<results, ticks>>
              /\ txCache' = [txCache EXCEPT ![t] = Append(@, Refusal)] /\ ptr' = [ptr EXCEPT ![t] = @ + 1]
            BY <2>7 DEF BlockJournal, Sleep, Goto, TypesInv
        <3>2. Active(t) /\ ptr[t] = Len(txCache[t]) /\ pc[t] = "try" /\ Refusal \in Seq(Result)
            BY <3>1, RefusedFacts DEF Refusal
        <3>3. Len(txCache[t]) = 0 /\ ptr[t] = 0
            BY <2>m, <3>1, <3>2
        <3>4. Len(txCache'[t]) = 1 /\ ptr'[t] = 1
            BY <3>1, <3>2, <3>3, AppendFacts DEF TypesInv
        <3>5. Wanted(t) # 0 /\ Wanted(t)' = Wanted(t)
            BY <3>1, <3>2, <3>3, SameCall DEF AnswerOK, Looping
        <3>6. ~ HasCached(t)'
            BY <3>4 DEF HasCached
        <3>7. QED
            BY <3>1, <3>4, <3>5, <3>6 DEF AnswerOK
    <2>8. CASE Yield(t)
        <3>1. pc[t] = "yield" /\ pc'[t] = "resume" /\ UNCHANGED <<results, txCache, ptr, ticks, expiry>>
            BY <2>8 DEF Yield, At, Goto, persistent, TypesInv
        <3>2. (Active(t)' <=> Active(t)) /\ Wanted(t)' = Wanted(t) /\ (HasCached(t)' <=> HasCached(t))
            BY <3>1, SameCall DEF HasCached
        <3>3. QED
            BY <3>1, <3>2 DEF AnswerOK, Looping
    <2>9. CASE Resume(t)
        <3>1. /\ pc[t] = "resume" /\ ticks'[t] = Countdown(t) /\ UNCHANGED <<results, txCache, ptr, expiry>>
              /\ pc'[t] = IF Active(t) THEN "try" ELSE "call"
            BY <2>9 DEF Resume, At, Goto, persistent, TypesInv
        <3>2. (Active(t)' <=> Active(t)) /\ Wanted(t)' = Wanted(t) /\ (HasCached(t)' <=> HasCached(t))
            BY <3>1, SameCall DEF HasCached
        <3>3. Active(t) => ptr[t] = 1 /\ Wanted(t) # 0 /\ (HasCached(t) => expiry[t] = Never)
            BY <3>1 DEF AnswerOK, Looping
        <3>4. Active(t) /\ HasCached(t) => ticks'[t] = 0
            BY <3>1, <3>3 DEF Countdown
        <3>5. QED
            BY <3>1, <3>2, <3>3, <3>4 DEF AnswerOK, Looping
    <2>10. CASE EndCall(t)
        <3>1. pc'[t] = "call" /\ txCache'[t] = <<>>
            BY <2>10 DEF EndCall, Goto, TypesInv
        <3>2. Len(txCache'[t]) = 0
            BY <3>1
        <3>3. QED
            BY <3>1, <3>2 DEF AnswerOK, Looping
    <2>11. CASE Finished(t)
        <3>1. ~ Active(t)' /\ pc'[t] = "yield" /\ txCache' = txCache
            BY <2>11, SameCall DEF Finished, persistent, Goto, TypesInv
        <3>2. QED
            BY <3>1 DEF AnswerOK
    <2>12. ~ (SendTx(t) \/ ReceiveTx(t) \/ Block(t) \/ WakeOther(t))
        BY DEF SendTx, ReceiveTx, Block, WakeOther, At, PlaceOK
    <2>13. QED
        BY <2>1, <2>2, <2>3, <2>5, <2>6, <2>7, <2>8, <2>9, <2>10, <2>11, <2>12 DEF Step
<1>3. QED
    BY <1>b, <1>1, <1>2

\* Every step keeps this of every task.
LEMMA AnswerStep ==
    ASSUME RefusedOnce, QInv, QInv', [Next]_vars, NEW u \in Task, AnswerOK(u)
    PROVE  AnswerOK(u)'
<1>0. TypesInv
    BY TaskFacts
<1>1. ASSUME NEW t \in Task, Step(t) PROVE AnswerOK(u)'
    <2>1. CASE u = t
        BY <1>1, <2>1, AnswerOwnTask
    <2>2. CASE u # t
        <3>1. /\ pc'[u] = pc[u] /\ txCache'[u] = txCache[u] /\ results'[u] = results[u] /\ build' = build
              /\ ticks'[u] = ticks[u] /\ expiry'[u] = expiry[u] /\ ptr'[u] = ptr[u]
            BY <1>1, <2>2, StepFrame, TaskFacts
        <3>2. (Active(u)' <=> Active(u)) /\ Wanted(u)' = Wanted(u) /\ (HasCached(u)' <=> HasCached(u))
            BY <3>1, SameCall DEF HasCached
        <3>3. QED
            BY <3>1, <3>2 DEF AnswerOK
    <2>3. QED
        BY <2>1, <2>2
<1>2. CASE Tick
    <2>1. UNCHANGED <<build, results, txCache, pc, ticks, ptr>> /\ expiry' = Less(expiry)
        BY <1>2 DEF Tick, persistent
    <2>2. (Active(u)' <=> Active(u)) /\ Wanted(u)' = Wanted(u) /\ (HasCached(u)' <=> HasCached(u))
        BY <2>1, SameCall DEF HasCached
    <2>3. expiry[u] = Never => expiry'[u] = Never
        BY <1>0, <2>1, LessType DEF TypesInv
    <2>4. QED
        BY <2>1, <2>2, <2>3 DEF AnswerOK
<1>3. CASE PowerFailure
    <2>1. UNCHANGED <<build, results, txCache>> /\ pc'[u] = "call"
        BY <1>3 DEF PowerFailure, persistent
    <2>2. QED
        BY <2>1, SameCall DEF AnswerOK, Looping
<1>4. CASE UNCHANGED vars
    <2>1. UNCHANGED <<build, results, txCache, pc, ticks, ptr, expiry>>
        BY <1>4 DEF vars, persistent, registers
    <2>2. (Active(u)' <=> Active(u)) /\ Wanted(u)' = Wanted(u) /\ (HasCached(u)' <=> HasCached(u))
        BY <2>1, SameCall DEF HasCached
    <2>3. QED
        BY <2>1, <2>2 DEF AnswerOK
<1>5. QED
    BY <1>1, <1>2, <1>3, <1>4 DEF Next

\* A call that ends has passed over all that it has cached: it returns what
\* its transaction did.  Without opt_list this is so when no call goes to
\* sleep twice.
THEOREM CallsAnswer == ASSUME RefusedOnce PROVE Spec => [](AnswerInv /\ AnswersItsTransaction)
<1>1. Init => AnswerInv
    <2> SUFFICES ASSUME Init, NEW t \in Task PROVE AnswerOK(t)
        BY DEF AnswerInv
    <2>1. txCache[t] = <<>> /\ pc[t] = "call" /\ Len(txCache[t]) = 0
        BY DEF Init
    <2>2. QED
        BY <2>1 DEF AnswerOK, Looping
<1>2. QInv /\ QInv' /\ AnswerInv /\ [Next]_vars => AnswerInv'
    BY AnswerStep DEF AnswerInv
<1>3. AnswerInv => AnswersItsTransaction
    BY DEF AnswerInv, AnswerOK, AnswersItsTransaction
<1>4. QED
    BY <1>1, <1>2, <1>3, Inductive, PTL DEF Spec

\* What the queue holds and has answered, as BoundedFifo sees it.
LEMMA ViewFacts ==
    ASSUME TypesInv, PositionsInv
    PROVE  /\ Contents = Ring(buffer, readPos, items) /\ buffer \in [0 .. Length - 1 -> Result]
           /\ readPos \in 0 .. Length - 1 /\ items \in 0 .. Length /\ Len(Contents) = items
           /\ writePos = Around(readPos + items)
           /\ \A t \in Task : results[t] \in Seq(Result) /\ Answers[t] = results[t] \o Pending(t)
<1>1. /\ buffer \in [0 .. Length - 1 -> Result] /\ readPos \in 0 .. Length - 1 /\ items \in 0 .. Length
      /\ Ahead(readPos, writePos, items)
    BY AheadFacts DEF TypesInv, PositionsInv
<1>2. Contents = Ring(buffer, readPos, items)
    BY DEF Contents, Ring
<1>3. writePos = Around(readPos + items)
    BY <1>1 DEF Ahead
<1>4. Len(Contents) = items
    BY <1>1, <1>2, RingFacts
<1>5. \A t \in Task : results[t] \in Seq(Result) /\ Answers[t] = results[t] \o Pending(t)
    BY DEF TypesInv, Answers
<1>6. QED
    BY <1>1, <1>2, <1>3, <1>4, <1>5

\* A commit answers its call.
LEMMA CommitAnswers ==
    ASSUME TypesInv, PositionsInv, NEW t \in Task, NEW r \in Result, Commit(t, r), Pending(t) = <<>>
    PROVE  Answers' = [Answers EXCEPT ![t] = Append(@, r)] /\ Len(Answers[t]) = Len(results[t])
<1>1. /\ <<r>> \in Seq(Result) /\ txCache' = [txCache EXCEPT ![t] = Append(@, <<r>>)] /\ results' = results
    BY CommitFacts
<1>2. Pending(t)' = <<r>> /\ \A u \in Task \ {t} : Pending(u)' = Pending(u)
    BY <1>1, AppendFacts, SamePending
<1>3. results[t] \in Seq(Result) /\ Answers[t] = results[t]
    <2>1. results[t] \in Seq(Result) /\ Answers[t] = results[t] \o <<>>
        BY ViewFacts
    <2>2. QED
        BY <2>1, ConcatEmptySeq
<1>4. results[t] \o <<r>> = Append(results[t], r)
    BY <1>3, AppendIsConcat
<1>5. Answers' = [u \in Task |-> results[u] \o Pending(u)']
    BY <1>1 DEF Answers
<1>6. ASSUME NEW u \in Task
      PROVE  results[u] \o Pending(u)' = [Answers EXCEPT ![t] = Append(@, r)][u]
    <2>1. CASE u = t
        BY <1>2, <1>3, <1>4, <2>1 DEF Answers
    <2>2. CASE u # t
        BY <1>2, <2>2 DEF Answers
    <2>3. QED
        BY <2>1, <2>2
<1>7. Answers' = [Answers EXCEPT ![t] = Append(@, r)]
    BY <1>5, <1>6 DEF Answers
<1>8. QED
    BY <1>3, <1>7

\* Each transaction is one operation of BoundedFifo.
LEMMA CommitRefines ==
    ASSUME QInv, NEW t \in Task, SendTx(t) \/ SendTxJournal(t) \/ ReceiveTx(t) \/ ReceiveTxJournal(t)
    PROVE  Fifo!FifoNext
<1>0. TypesInv /\ PositionsInv /\ PlaceOK(t)
    BY TaskFacts
<1>1. /\ Contents = Ring(buffer, readPos, items) /\ buffer \in [0 .. Length - 1 -> Result]
      /\ readPos \in 0 .. Length - 1 /\ items \in 0 .. Length /\ Len(Contents) = items
      /\ writePos = Around(readPos + items)
    BY <1>0, ViewFacts
<1>2. Pending(t) = <<>>
    BY Commits
<1>3. Contents' = Ring(buffer', readPos', items')
    BY DEF Contents, Ring
<1>4. CASE SendTx(t) \/ SendTxJournal(t)
    <2>1. Sends(t) /\ ~ IsFull /\ Push(t) /\ Commit(t, "sent") /\ "sent" \in Result
        BY <1>4, Commits DEF Result
    <2>2. Answers' = [Answers EXCEPT ![t] = Append(@, "sent")] /\ Len(Answers[t]) = Len(results[t])
        BY <1>0, <1>2, <2>1, CommitAnswers
    <2>3. Fifo!Return(t, "sent") /\ Fifo!Item(t) = Item(t)
        BY <2>2 DEF Fifo!Return, Fifo!Item, Item, CallNo
    <2>4. Length \in Nat /\ items # Length /\ Len(Contents) < Length
        BY <1>1, <2>1, Constants DEF IsFull
    <2>5. buffer[Slot(t)] = Item(t)
        BY <1>0, <1>4 DEF PlaceOK, SendTx, SendTxJournal, At
    <2>6. CASE Op(t) = "send_back"
        <3>1. buffer' = buffer /\ readPos' = readPos /\ items' = items + 1 /\ Slot(t) = writePos
            BY <2>1, <2>6 DEF Push, PushBack, Slot
        <3>2. Contents' = Ring(buffer, readPos, items + 1)
            BY <1>3, <3>1
        <3>3. Contents' = Append(Contents, Item(t))
            BY <1>1, <2>4, <2>5, <3>1, <3>2, RingBack
        <3>4. Fifo!SendBack(t)
            BY <2>3, <2>4, <3>3 DEF Fifo!SendBack
        <3>5. QED
            BY <3>4 DEF Fifo!FifoNext
    <2>7. CASE Op(t) # "send_back"
        <3>1. buffer' = buffer /\ readPos' = Before(readPos) /\ items' = items + 1 /\ Slot(t) = Before(readPos)
            BY <2>1, <2>7 DEF Push, PushFront, Slot
        <3>2. Contents' = Ring(buffer, Before(readPos), items + 1)
            BY <1>3, <3>1
        <3>3. Contents' = <<Item(t)>> \o Contents
            BY <1>1, <2>4, <2>5, <3>1, <3>2, RingFront
        <3>4. Fifo!SendFront(t)
            BY <2>3, <2>4, <3>3 DEF Fifo!SendFront
        <3>5. QED
            BY <3>4 DEF Fifo!FifoNext
    <2>8. QED
        BY <2>6, <2>7
<1>5. CASE ReceiveTx(t) \/ ReceiveTxJournal(t)
    <2>1. /\ ~ IsEmpty /\ Dequeue /\ buffer[readPos] \in Result /\ Commit(t, buffer[readPos])
        BY <1>5, Commits
    <2>2. Answers' = [Answers EXCEPT ![t] = Append(@, buffer[readPos])]
        BY <1>0, <1>2, <2>1, CommitAnswers
    <2>3. buffer' = buffer /\ readPos' = After(readPos) /\ items' = items - 1 /\ items \in 1 .. Length
        BY <1>1, <2>1, Constants DEF Dequeue, IsEmpty
    <2>4. Contents # <<>> /\ Head(Contents) = buffer[readPos] /\ Contents' = Tail(Contents)
        <3>1. Contents' = Ring(buffer, After(readPos), items - 1)
            BY <1>3, <2>3
        <3>2. QED
            BY <1>1, <2>3, <3>1, RingTail
    <2>5. Fifo!Receive(t)
        BY <2>2, <2>4 DEF Fifo!Receive, Fifo!Return
    <2>6. QED
        BY <2>5 DEF Fifo!FifoNext
<1>6. QED
    BY <1>4, <1>5

\* The end of a call is a refusal, or nothing that was not answered before.
LEMMA EndRefines ==
    ASSUME QInv, NEW t \in Task, AnswerOK(t), EndCall(t)
    PROVE  Fifo!Refuse(t) \/ UNCHANGED <<Contents, Answers>>
<1>0. TypesInv /\ PositionsInv /\ CacheOK(t) /\ ptr[t] = Len(txCache[t])
    BY TaskFacts DEF AnswerOK, EndCall, At
<1>1. /\ results' = [results EXCEPT ![t] = Append(@, Outcome(t))] /\ txCache' = [txCache EXCEPT ![t] = <<>>]
      /\ UNCHANGED queueVars
    BY DEF EndCall
<1>2. Contents' = Contents
    BY <1>1 DEF Contents, queueVars
<1>3. Pending(t)' = <<>> /\ \A u \in Task \ {t} : Pending(u)' = Pending(u) /\ results'[u] = results[u]
    BY <1>0, <1>1, SamePending DEF TypesInv, Pending
<1>4. Outcome(t) \in Result /\ results[t] \in Seq(Result) /\ results'[t] = Append(results[t], Outcome(t))
    BY <1>0, <1>1, OutcomeType DEF EndCall, At, TypesInv
<1>5. results'[t] \o <<>> = results'[t] /\ results[t] \o <<>> = results[t]
    <2>1. Append(results[t], Outcome(t)) \in Seq(Result)
        BY <1>4
    <2>2. QED
        BY <1>4, <2>1, ConcatEmptySeq
<1>6. Answers' = [u \in Task |-> IF u = t THEN results'[t] ELSE Answers[u]]
    BY <1>3, <1>5 DEF Answers
<1>t. txCache[t] \in Seq(Seq(Result)) /\ ptr[t] \in Nat
    BY <1>0 DEF TypesInv
<1>7. CASE Pending(t) = <<>>
    <2>1. Outcome(t) = "refused"
        BY <1>0, <1>t, <1>7 DEF Outcome, Pending, Refusal
    <2>2. Answers[t] = results[t]
        BY <1>5, <1>7 DEF Answers
    <2>3. Answers' = [Answers EXCEPT ![t] = Append(@, "refused")]
        BY <1>4, <1>6, <2>1, <2>2 DEF Answers
    <2>4. QED
        BY <1>2, <2>3 DEF Fifo!Refuse, Fifo!Return
<1>8. CASE Pending(t) # <<>>
    <2>1. ptr[t] \in 1 .. Len(txCache[t]) /\ Pending(t) = txCache[t][ptr[t]]
        BY <1>0, <1>t, <1>8 DEF Pending
    <2>2. PICK x \in Seq(Result) : x = Pending(t)
        BY <1>t, <2>1
    <2>3. Len(x) <= 1 /\ x # <<>>
        BY <1>0, <1>t, <1>8, <2>1, <2>2 DEF CacheOK
    <2>4. x = <<x[1]>> /\ x[1] \in Result
        <3>0. Len(x) = 1
            <4>1. Len(x) \in Nat \ {0}
                BY <2>2, <2>3, EmptySeq
            <4>2. PICK n \in Nat \ {0} : n = Len(x)
                BY <4>1
            <4>3. n <= 1
                BY <2>3, <4>2
            <4>4. n = 1
                BY <4>3
            <4>5. QED
                BY <4>2, <4>4
        <3>1. Len(x) = 1 /\ x[1] \in Result
            BY <2>2, <3>0
        <3>2. PICK y \in Result : y = x[1]
            BY <3>1
        <3>3. <<y>> \in Seq(Result) /\ Len(<<y>>) = 1 /\ \A i \in 1 .. 1 : x[i] = <<y>>[i]
            BY <3>2
        <3>4. x = <<y>>
            BY <2>2, <3>1, <3>3, SeqEqual
        <3>5. QED
            BY <3>1, <3>2, <3>4
    <2>5. Outcome(t) = x[1]
        BY <1>t, <2>1, <2>2, <2>3 DEF Outcome, Refusal
    <2>6. results'[t] = results[t] \o x
        BY <1>4, <2>4, <2>5, AppendIsConcat
    <2>7. results'[t] = Answers[t]
        BY <2>2, <2>6 DEF Answers
    <2>8. Answers' = Answers
        BY <1>6, <2>7 DEF Answers
    <2>9. QED
        BY <1>2, <2>8
<1>9. QED
    BY <1>7, <1>8

\* Every step is an operation of BoundedFifo or invisible to it.
LEMMA FifoStep ==
    ASSUME QInv, AnswerInv, [Next]_vars
    PROVE  Fifo!FifoNext \/ UNCHANGED <<Contents, Answers>>
<1>0. TypesInv /\ PositionsInv
    BY DEF QInv
<1>1. ASSUME NEW t \in Task, SendTx(t) \/ SendTxJournal(t) \/ ReceiveTx(t) \/ ReceiveTxJournal(t)
      PROVE  Fifo!FifoNext
    BY <1>1, CommitRefines
<1>2. ASSUME NEW t \in Task, EndCall(t) PROVE Fifo!FifoNext \/ UNCHANGED <<Contents, Answers>>
    BY <1>2, EndRefines DEF Fifo!FifoNext, AnswerInv
<1>3. ASSUME UNCHANGED <<results, txCache>> PROVE Answers' = Answers
    BY <1>3 DEF Answers, Pending
<1>4. ASSUME UNCHANGED queueVars PROVE Contents' = Contents
    BY <1>4 DEF Contents, queueVars
<1>5. ASSUME NEW t \in Task, CopyItem(t) PROVE UNCHANGED <<Contents, Answers>>
    <2>1. /\ ~ IsFull /\ buffer' = [buffer EXCEPT ![Slot(t)] = Item(t)]
          /\ UNCHANGED <<readPos, writePos, items, results, txCache>>
        BY <1>5 DEF CopyItem
    <2>2. Item(t) \in Result
        <3>1. CallNo(t) \in Nat
            BY <1>0 DEF CallNo, TypesInv
        <3>2. QED
            BY <3>1 DEF Item, Result
    <2>3. /\ Contents = Ring(buffer, readPos, items) /\ buffer \in [0 .. Length - 1 -> Result]
          /\ readPos \in 0 .. Length - 1 /\ items \in 0 .. Length
          /\ writePos = Around(readPos + items)
        BY <1>0, ViewFacts
    <2>4. Slot(t) = Around(readPos + items) \/ Slot(t) = Before(readPos)
        BY <2>3 DEF Slot
    <2>5. Contents' = Ring([buffer EXCEPT ![Slot(t)] = Item(t)], readPos, items)
        BY <2>1 DEF Contents, Ring
    <2>6. items # Length
        BY <2>1 DEF IsFull
    <2>7. Contents' = Contents
        <3>1. PICK k : k = Slot(t)
            OBVIOUS
        <3>2. k = Around(readPos + items) \/ k = Before(readPos)
            BY <2>4, <3>1
        <3>3. CopyKeeps(buffer, readPos, items, k, Item(t))
            <4>1. /\ buffer \in [0 .. Length - 1 -> Result] /\ readPos \in 0 .. Length - 1
                  /\ items \in 0 .. Length
                BY <2>3
            <4>2. QED
                BY <2>2, <2>6, <3>2, <4>1, RingCopy
        <3>4. QED
            BY <2>3, <2>5, <3>1, <3>3, Zenon DEF CopyKeeps
    <2>8. QED
        BY <1>3, <2>1, <2>7
<1>6. ASSUME NEW t \in Task, BlockJournal(t) \/ GiveUp(t) PROVE UNCHANGED <<Contents, Answers>>
    <2>1. /\ Refused(t) /\ UNCHANGED <<queueVars, results>>
          /\ \/ txCache' = txCache
             \/ txCache' = [txCache EXCEPT ![t] = Append(@, Refusal)]
        BY <1>6 DEF BlockJournal, GiveUp
    <2>2. Refusal \in Seq(Result) /\ Refusal = <<>> /\ Pending(t) = <<>>
        BY <2>1, RefusedFacts DEF Refusal
    <2>3. \A u \in Task : Pending(u)' = Pending(u)
        BY <1>0, <2>1, <2>2, AppendFacts, SamePending
    <2>4. Answers' = Answers
        BY <2>1, <2>3 DEF Answers
    <2>5. QED
        BY <1>4, <2>1, <2>4
<1>7. ASSUME NEW t \in Task, \/ BeginCall(t) \/ Bypass(t) \/ WakeOther(t) \/ Block(t)
                             \/ Yield(t) \/ Resume(t) \/ Finished(t)
      PROVE  UNCHANGED <<Contents, Answers>>
    <2>1. UNCHANGED <<queueVars, results, txCache>>
        BY <1>7 DEF BeginCall, Bypass, WakeOther, Block, Yield, Resume, Finished, persistent
    <2>2. QED
        BY <1>3, <1>4, <2>1
<1>8. CASE Tick \/ PowerFailure \/ UNCHANGED vars
    <2>1. UNCHANGED <<queueVars, results, txCache>>
        BY <1>8 DEF Tick, PowerFailure, vars, persistent
    <2>2. QED
        BY <1>3, <1>4, <2>1
<1>9. QED
    BY <1>1, <1>2, <1>5, <1>6, <1>7, <1>8 DEF Next, Step

\* The queue is a bounded FIFO for every length, program and task set: a call
\* takes effect once and answers once, whatever power failures, timeouts and
\* faster tasks come between.  Without opt_list this is so when no call goes
\* to sleep twice.
THEOREM ImplementsBoundedFifo == ASSUME RefusedOnce PROVE Spec => ImplementsFifo
<1>1. Init => Fifo!FifoInit
    <2> SUFFICES ASSUME Init PROVE Fifo!FifoInit
        OBVIOUS
    <2>1. items = 0 /\ \A t \in Task : results[t] = <<>> /\ txCache[t] = <<>>
        BY DEF Init
    <2>2. Contents = <<>>
        BY <2>1 DEF Contents
    <2>3. \A t \in Task : Pending(t) = <<>> /\ results[t] \o Pending(t) = <<>>
        BY <2>1 DEF Pending
    <2>4. Answers = [t \in Task |-> <<>>]
        BY <2>3 DEF Answers
    <2>5. QED
        BY <2>2, <2>4 DEF Fifo!FifoInit
<1>2. QInv /\ AnswerInv /\ [Next]_vars => [Fifo!FifoNext]_(Fifo!fifoVars)
    BY FifoStep DEF Fifo!fifoVars
<1>3. QED
    BY <1>1, <1>2, Inductive, CallsAnswer, PTL DEF Spec, ImplementsFifo, Fifo!FifoSpec

=============================================================================
