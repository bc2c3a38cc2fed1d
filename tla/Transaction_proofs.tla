------------------------ MODULE Transaction_proofs -------------------------
(***************************************************************************)
(* The inductive invariant of Transaction and the proofs that rest on it.  *)
(***************************************************************************)
EXTENDS Transaction, WellFoundedInduction, TLAPS

\* between Transaction::begin and the commit write
InTx == {"body", "bump", "cache", "settail", "nr_set", "panic"}

\* The journal, the commit flag and the objects agree with the last commit.
JournalInv ==
    /\ pc \in InTx \union {"undo"} => ~tail.com
    /\ pc \in {"setptr", "clear", "nr_clear"} => tail.com
    /\ pc \in {"idle", "restart"} => jtail = 0
    /\ pc \in InTx \union {"setptr", "clear", "nr_clear"} => pos \in Positions
    /\ (pc \in InTx \union {"setptr"} /\ Kind = "fast") => jtail = 0
    /\ pc = "bump" => /\ Kind # "fast"
                      /\ jtail < JournalSize
                      /\ jlog[jtail + 1].addr \in Cell
                      /\ jlog[jtail + 1].old = mem[jlog[jtail + 1].addr]
    /\ \A i \in 1 .. jtail : jlog[i].addr \in Cell
    /\ tail.com => mem = stable
    /\ ~tail.com =>
          /\ \A c \in Cell :
                (\A i \in 1 .. jtail : jlog[i].addr # c) => mem[c] = stable[c]
          /\ \A i \in 1 .. jtail :
                (\A k \in 1 .. i - 1 : jlog[k].addr # jlog[i].addr)
                    => jlog[i].old = stable[jlog[i].addr]

\* What Journal::recover has restored so far stays restored.
UndoInv ==
    pc = "undo" =>
        /\ rptr <= jtail
        /\ \A c \in Cell :
              (\A i \in 1 .. rptr : jlog[i].addr # c) => mem[c] = stable[c]

-----------------------------------------------------------------------------

SizeOf(p) == Program[p].size

\* offset of the result that follows the first k cached ones
NextOff(k) == IF k < tail.id THEN hist[k + 1].off ELSE tail.off

\* Every result in the TxCache is the one recorded at its commit.
CacheInv ==
    /\ Len(hist) = tail.id
    /\ tail.off <= CacheSize
    /\ NextOff(0) = 0
    /\ \A k \in 1 .. tail.id :
          /\ hist[k].off + SizeOf(hist[k].pos) = NextOff(k)
          /\ hist[k].off + SizeOf(hist[k].pos) <= tail.off
          /\ IF SizeOf(hist[k].pos) > 0
             THEN hist[k].val \in Value /\ cache[hist[k].off] = hist[k].val
             ELSE hist[k].val = Unit

\* Before position pos lie exactly the first k cached transactions, and the
\* program holds their results.
Aligned(k) ==
    /\ k >= 1 => hist[k].pos < pos
    /\ k < tail.id => hist[k + 1].pos >= pos
    /\ \A p \in Positions :
          (p < pos /\ Cached(p)) =>
              \E m \in 1 .. k : hist[m].pos = p /\ view[p] = hist[m].val

\* TxCache.ptr follows the program.
PtrInv ==
    /\ pc \in InTx \union {"idle", "nr_clear"} =>
          /\ ptr.id <= tail.id
          /\ ptr.off = NextOff(ptr.id)
          /\ Aligned(ptr.id)
    /\ pc \in InTx \union {"nr_clear"} => (Cached(pos) => ptr.id = tail.id)
    /\ pc \in {"cache", "settail"} =>
          /\ Cached(pos)
          /\ ret \in IF Size > 0 THEN Value ELSE {Unit}
    /\ pc = "settail" =>
          /\ tail.off + Size <= CacheSize
          /\ Size > 0 => cache[tail.off] = ret
    /\ pc = "setptr" =>
          /\ tail.id >= 1
          /\ ptr.id = tail.id - 1
          /\ ptr.off = hist[tail.id].off
          /\ Aligned(ptr.id)
    /\ pc = "clear" =>
          /\ tail.id >= 1
          /\ ptr.id = tail.id
          /\ ptr.off = tail.off
          /\ Aligned(ptr.id - 1)
    /\ pc \in {"setptr", "clear"} =>
          /\ hist[tail.id].pos = pos
          /\ hist[tail.id].val = ret
    /\ pc = "nr_clear" => (retry \/ ~Cached(pos))
    /\ pc = "nr_set" => (retry \/ ~Cached(pos))
    /\ pc \in {"check", "undo", "restart"} => pos = 1

IInv == TypeOK /\ JournalInv /\ UndoInv /\ CacheInv /\ ExactlyOnce /\ PtrInv

\* The entries of the program have the types the assumption gives them.
LEMMA ProgramFacts ==
    /\ Len(Program) \in Nat
    /\ \A p \in Positions : Program[p].size \in {0, 1} /\ Program[p].kind \in Kinds
<1> DEFINE Tx == [kind : Kinds, size : {0, 1}]
<1>1. Program \in Seq(Tx)
    BY ProgramAssumption DEF ProgramAssumption
<1>2. Len(Program) \in Nat
    BY <1>1
<1>3. ASSUME NEW p \in Positions
      PROVE Program[p].size \in {0, 1} /\ Program[p].kind \in Kinds
    <2> HIDE DEF Tx
    <2>1. Program[p] \in Tx
        BY <1>1, <1>2 DEF Positions
    <2>2. QED
        BY <2>1 DEF Tx
<1>4. QED
    BY <1>2, <1>3

\* The program image satisfies the invariant.
LEMMA InitIInv == Init => IInv
<1> SUFFICES ASSUME Init PROVE IInv
    OBVIOUS
<1> USE ProgramFacts, SizeAssumption DEF Init, SizeAssumption
<1>1. TypeOK
    <2>1. hist \in Seq([pos : Positions, off : Nat, val : Result])
        OBVIOUS
    <2>2. mem \in [Cell -> Value] /\ stable \in [Cell -> Value]
        OBVIOUS
    <2>3. jlog \in [1 .. JournalSize -> Record]
        BY DEF Record
    <2>4. view \in [Positions -> Result \union {NoResult}]
        BY DEF InitView
    <2>5. /\ cache \in [0 .. CacheSize - 1 -> Value]
          /\ ptr \in [off : Nat, id : Nat]
          /\ tail \in [com : BOOLEAN, off : Nat, id : Nat]
        OBVIOUS
    <2>6. /\ jtail \in 0 .. JournalSize /\ rptr \in 0 .. JournalSize
          /\ pos \in 1 .. Len(Program) + 1
        OBVIOUS
    <2>7. recovery \in BOOLEAN /\ retry \in BOOLEAN /\ pc \in PCs /\ ret \in Result
        BY DEF PCs, Result
    <2> HIDE DEF Init
    <2>8. QED
        BY <2>1, <2>2, <2>3, <2>4, <2>5, <2>6, <2>7 DEF TypeOK
<1>2. JournalInv
    BY DEF JournalInv, InTx
<1>3. UndoInv
    BY DEF UndoInv
<1>4. CacheInv
    BY DEF CacheInv, NextOff
<1>5. ExactlyOnce
    BY DEF ExactlyOnce
<1>6. PtrInv
    BY DEF PtrInv, InTx, NextOff, Aligned, Positions
<1>7. QED
    BY <1>1, <1>2, <1>3, <1>4, <1>5, <1>6 DEF IInv

\* Journal, commit flag and objects stay in agreement with the last commit.
LEMMA JournalStep == IInv /\ [Next]_vars => JournalInv'
<1> SUFFICES ASSUME IInv, [Next]_vars PROVE JournalInv'
    OBVIOUS
<1> USE ProgramFacts, SizeAssumption DEF SizeAssumption, IInv, TypeOK, JournalInv, UndoInv, InTx, Kind, Positions, Logged, Cached, PtrInv, Record
<1>1. CASE Bypass
    BY <1>1 DEF Bypass, journalVars, cacheVars, localVars, history
<1>2. CASE Begin
    BY <1>2 DEF Begin, journalVars, cacheVars, localVars, history
<1>3. ASSUME NEW c \in Cell, AppendLog(c)
      PROVE JournalInv'
    <2>1. \A i \in 1 .. jtail : jlog'[i] = jlog[i]
        BY <1>3 DEF AppendLog, JournalHasRoom
    <2>2. jlog'[jtail + 1] = [addr |-> c, old |-> mem[c]]
        BY <1>3 DEF AppendLog, JournalHasRoom
    <2>3. /\ UNCHANGED <<mem, jtail, tail, pos, stable>>
          /\ pc' = "bump"
          /\ jtail < JournalSize
          /\ pos \in Positions
          /\ Kind # "fast"
          /\ ~tail.com
        BY <1>3 DEF AppendLog, JournalHasRoom, cacheVars, localVars, history
    <2>4. \A i \in 1 .. jtail : 1 .. i - 1 \subseteq 1 .. jtail
        OBVIOUS
    <2>5. ASSUME NEW i \in 1 .. jtail,
                 \A k \in 1 .. i - 1 : jlog'[k].addr # jlog'[i].addr
          PROVE jlog'[i].old = stable'[jlog'[i].addr]
        <3>1. jlog'[i] = jlog[i]
            BY <2>1
        <3>2. \A k \in 1 .. i - 1 : jlog[k].addr # jlog[i].addr
            BY <2>1, <2>4, <2>5
        <3>3. QED
            BY <2>3, <3>1, <3>2
    <2>6. ASSUME NEW d \in Cell, \A i \in 1 .. jtail : jlog'[i].addr # d
          PROVE mem'[d] = stable'[d]
        <3>1. \A i \in 1 .. jtail : jlog[i].addr # d
            BY <2>1, <2>6
        <3>2. mem[d] = stable[d]
            BY <2>3, <3>1
        <3>3. QED
            BY <2>3, <3>2
    <2>7. \A i \in 1 .. jtail : jlog'[i].addr \in Cell
        BY <2>1
    <2> HIDE DEF IInv, TypeOK, UndoInv, PtrInv
    <2>8. QED
        BY <2>2, <2>3, <2>5, <2>6, <2>7
<1>4. CASE JournalFull
    BY <1>4 DEF JournalFull, JournalHasRoom, journalVars, cacheVars, localVars, history
<1>5. CASE BumpTail
    <2> USE <1>5 DEF BumpTail, cacheVars, localVars, history
    <2>1. jlog[jtail + 1].old = mem[jlog[jtail + 1].addr]
        OBVIOUS
    <2>2. ASSUME NEW c \in Cell, \A i \in 1 .. jtail' : jlog'[i].addr # c
          PROVE mem'[c] = stable'[c]
        BY <2>2
    <2>3. ASSUME NEW i \in 1 .. jtail',
                 \A k \in 1 .. i - 1 : jlog'[k].addr # jlog'[i].addr
          PROVE jlog'[i].old = stable'[jlog'[i].addr]
        <3>1. CASE i <= jtail
            BY <2>3, <3>1
        <3>2. CASE i = jtail + 1
            BY <2>1, <2>3, <3>2
        <3>3. QED
            BY <3>1, <3>2
    <2>4. /\ UNCHANGED <<mem, jlog, tail, pos, stable>>
          /\ jtail \in Nat /\ jtail' = jtail + 1
          /\ pc' = "body"
          /\ ~tail.com
          /\ pos \in Positions
          /\ Kind # "fast"
        OBVIOUS
    <2>5. \A i \in 1 .. jtail' : jlog'[i].addr \in Cell
        <3>1. \A i \in 1 .. jtail' : i \in 1 .. jtail \/ i = jtail + 1
            BY <2>4
        <3>2. QED
            BY <3>1
    <2> HIDE <1>5 DEF IInv, TypeOK, UndoInv, PtrInv, BumpTail
    <2>6. QED
        BY <2>2, <2>3, <2>4, <2>5
<1>6. ASSUME NEW c \in Cell, NEW v \in Value, Write(c, v)
      PROVE JournalInv'
    BY <1>6 DEF Write, journalVars, cacheVars, localVars, history
<1>7. ASSUME NEW r \in Result, EndBody(r)
      PROVE JournalInv'
    BY <1>7 DEF EndBody, journalVars, cacheVars, localVars, history
<1>8. CASE EndBodyRetry
    BY <1>8 DEF EndBodyRetry, journalVars, cacheVars, localVars, history
<1>9. CASE CacheFull
    BY <1>9 DEF CacheFull, journalVars, cacheVars, localVars, history
<1>10. CASE CacheResult
    BY <1>10 DEF CacheResult, journalVars, cacheVars, localVars, history
<1>11. CASE CommitTail
    BY <1>11 DEF CommitTail, journalVars, cacheVars, localVars, history
<1>12. CASE AdvancePtr
    BY <1>12 DEF AdvancePtr, journalVars, cacheVars, localVars, history
<1>13. CASE ClearJournal
    BY <1>13 DEF ClearJournal, journalVars, cacheVars, localVars, history
<1>14. CASE CommitNoReplay
    BY <1>14 DEF CommitNoReplay, journalVars, cacheVars, localVars, history
<1>15. CASE ClearNoReplay
    BY <1>15 DEF ClearNoReplay, journalVars, cacheVars, localVars, history
<1>16. CASE CheckCommitted
    BY <1>16 DEF CheckCommitted, journalVars, cacheVars, localVars, history
<1>17. CASE UndoRecord
    <2> USE <1>17 DEF UndoRecord, journalVars, cacheVars, localVars, history
    <2>1. ASSUME NEW c \in Cell, \A i \in 1 .. jtail : jlog[i].addr # c
          PROVE mem'[c] = stable[c]
        <3>1. rptr \in 1 .. jtail
            OBVIOUS
        <3>2. QED
            BY <2>1, <3>1
    <2>2. ~tail.com /\ pc = "undo"
        OBVIOUS
    <2>3. QED
        BY <2>1, <2>2
<1>18. CASE UndoDone
    BY <1>18 DEF UndoDone, journalVars, cacheVars, localVars, history
<1>19. CASE Restart
    BY <1>19 DEF Restart, journalVars, cacheVars, localVars, history
<1>20. CASE Crash
    BY <1>20 DEF Crash, journalVars, cacheVars, localVars, history
<1>21. CASE UNCHANGED vars
    BY <1>21 DEF vars
<1>22. QED
    BY <1>1, <1>2, <1>3, <1>4, <1>5, <1>6, <1>7, <1>8, <1>9, <1>10, <1>11, <1>12, <1>13, <1>14, <1>15, <1>16, <1>17, <1>18, <1>19, <1>20, <1>21 DEF Next, Execute, Recover

\* Journal::recover makes progress and never undoes its own work.
LEMMA UndoStep == IInv /\ [Next]_vars => UndoInv'
<1> SUFFICES ASSUME IInv, [Next]_vars PROVE UndoInv'
    OBVIOUS
<1> USE ProgramFacts, SizeAssumption DEF SizeAssumption, IInv, TypeOK, JournalInv, UndoInv, InTx, Positions, Logged
<1>1. CASE Bypass
    BY <1>1 DEF Bypass, journalVars, cacheVars, localVars, history
<1>2. CASE Begin
    BY <1>2 DEF Begin, journalVars, cacheVars, localVars, history
<1>3. ASSUME NEW c \in Cell, AppendLog(c)
      PROVE UndoInv'
    BY <1>3 DEF AppendLog, JournalHasRoom, journalVars, cacheVars, localVars, history
<1>4. CASE JournalFull
    BY <1>4 DEF JournalFull, JournalHasRoom, journalVars, cacheVars, localVars, history
<1>5. CASE BumpTail
    BY <1>5 DEF BumpTail, journalVars, cacheVars, localVars, history
<1>6. ASSUME NEW c \in Cell, NEW v \in Value, Write(c, v)
      PROVE UndoInv'
    BY <1>6 DEF Write, journalVars, cacheVars, localVars, history
<1>7. ASSUME NEW r \in Result, EndBody(r)
      PROVE UndoInv'
    BY <1>7 DEF EndBody, journalVars, cacheVars, localVars, history
<1>8. CASE EndBodyRetry
    BY <1>8 DEF EndBodyRetry, journalVars, cacheVars, localVars, history
<1>9. CASE CacheFull
    BY <1>9 DEF CacheFull, journalVars, cacheVars, localVars, history
<1>10. CASE CacheResult
    BY <1>10 DEF CacheResult, journalVars, cacheVars, localVars, history
<1>11. CASE CommitTail
    BY <1>11 DEF CommitTail, journalVars, cacheVars, localVars, history
<1>12. CASE AdvancePtr
    BY <1>12 DEF AdvancePtr, journalVars, cacheVars, localVars, history
<1>13. CASE ClearJournal
    BY <1>13 DEF ClearJournal, journalVars, cacheVars, localVars, history
<1>14. CASE CommitNoReplay
    BY <1>14 DEF CommitNoReplay, journalVars, cacheVars, localVars, history
<1>15. CASE ClearNoReplay
    BY <1>15 DEF ClearNoReplay, journalVars, cacheVars, localVars, history
<1>16. CASE CheckCommitted
    BY <1>16 DEF CheckCommitted, journalVars, cacheVars, localVars, history
<1>17. CASE UndoRecord
    <2> USE <1>17 DEF UndoRecord, journalVars, cacheVars, history
    <2>1. rptr \in 1 .. jtail
        OBVIOUS
    <2>2. ASSUME NEW c \in Cell, \A i \in 1 .. rptr' : jlog[i].addr # c
          PROVE mem'[c] = stable[c]
        <3>1. CASE jlog[rptr].addr = c
            BY <2>1, <2>2, <3>1
        <3>2. CASE jlog[rptr].addr # c
            <4>1. \A i \in 1 .. rptr : jlog[i].addr # c
                BY <2>1, <2>2, <3>2
            <4>2. mem'[c] = mem[c]
                BY <3>2
            <4>3. QED
                BY <4>1, <4>2
        <3>3. QED
            BY <3>1, <3>2
    <2>3. rptr' <= jtail' /\ UNCHANGED <<jlog, stable>>
        BY <2>1
    <2>4. QED
        BY <2>2, <2>3
<1>18. CASE UndoDone
    BY <1>18 DEF UndoDone, journalVars, cacheVars, localVars, history
<1>19. CASE Restart
    BY <1>19 DEF Restart, journalVars, cacheVars, localVars, history
<1>20. CASE Crash
    BY <1>20 DEF Crash, journalVars, cacheVars, localVars, history
<1>21. CASE UNCHANGED vars
    BY <1>21 DEF vars
<1>22. QED
    BY <1>1, <1>2, <1>3, <1>4, <1>5, <1>6, <1>7, <1>8, <1>9, <1>10, <1>11, <1>12, <1>13, <1>14, <1>15, <1>16, <1>17, <1>18, <1>19, <1>20, <1>21 DEF Next, Execute, Recover

\* What the type of the history gives for one recorded result.
LEMMA HistFacts ==
    ASSUME TypeOK, CacheInv
    PROVE  /\ tail.id \in Nat /\ tail.off \in Nat
           /\ ptr.id \in Nat /\ ptr.off \in Nat
           /\ Len(hist) = tail.id
           /\ \A k \in 1 .. tail.id : /\ hist[k].pos \in Positions
                                      /\ hist[k].pos \in Nat
                                      /\ hist[k].off \in Nat
                                      /\ hist[k].val \in Result
<1> DEFINE Entry == [pos : Positions, off : Nat, val : Result]
<1>1. hist \in Seq(Entry) /\ Len(hist) = tail.id
    BY DEF TypeOK, CacheInv
<1>2. tail.id \in Nat /\ tail.off \in Nat /\ ptr.id \in Nat /\ ptr.off \in Nat
    BY DEF TypeOK
<1>3. ASSUME NEW k \in 1 .. tail.id
      PROVE /\ hist[k].pos \in Positions /\ hist[k].pos \in Nat
            /\ hist[k].off \in Nat /\ hist[k].val \in Result
    <2> HIDE DEF Entry
    <2>1. hist[k] \in Entry
        BY <1>1
    <2>2. QED
        BY <2>1, ProgramFacts DEF Entry, Positions
<1>4. QED
    BY <1>1, <1>2, <1>3

\* The history grows only at the commit write.
LEMMA HistFrame == [Next]_vars /\ ~CommitTail => UNCHANGED hist
BY DEF Next, Execute, Recover, vars, history, Bypass, Begin, AppendLog,
       JournalFull, BumpTail, Write, EndBody, EndBodyRetry, CacheFull,
       CacheResult, AdvancePtr, ClearJournal, CommitNoReplay, ClearNoReplay,
       CheckCommitted, UndoRecord, UndoDone, Restart, Crash

\* The next cached result is that of the transaction the program is about to
\* run.
LEMMA BypassPos ==
    ASSUME TypeOK, CacheInv, ExactlyOnce, PtrInv, Bypass
    PROVE  /\ ptr.id + 1 \in 1 .. tail.id
           /\ hist[ptr.id + 1].pos = pos
           /\ ptr.off = hist[ptr.id + 1].off
<1> USE HistFacts
<1>1. /\ ptr.id + 1 \in 1 .. tail.id /\ ptr.id < tail.id
      /\ pos \in Positions /\ Cached(pos) /\ pc = "idle"
    BY DEF Bypass, HasCachedResult
<1>2. Aligned(ptr.id) /\ ptr.off = hist[ptr.id + 1].off
    BY <1>1 DEF PtrInv, NextOff, InTx
<1>3. hist[ptr.id + 1].pos >= pos
    BY <1>1, <1>2 DEF Aligned
<1>4. ASSUME hist[ptr.id + 1].pos > pos PROVE FALSE
    <2>1. PICK m \in 1 .. (ptr.id + 1) - 1 : hist[m].pos = pos
        <3>1. pos \in 1 .. hist[ptr.id + 1].pos - 1
            BY <1>1, <1>4, ProgramFacts DEF Positions
        <3>2. QED
            BY <1>1, <3>1 DEF ExactlyOnce
    <2>2. m \in 1 .. ptr.id /\ ptr.id \in 1 .. tail.id
        BY <1>1, <2>1
    <2>3. hist[ptr.id].pos < pos
        BY <1>2, <2>2 DEF Aligned
    <2>4. m = ptr.id \/ hist[m].pos < hist[ptr.id].pos
        <3>1. CASE m # ptr.id
            <4>1. m \in 1 .. ptr.id - 1
                BY <2>2, <3>1
            <4>2. QED
                BY <2>2, <4>1 DEF ExactlyOnce
        <3>2. QED
            BY <3>1
    <2>5. pos \in Nat /\ hist[m].pos \in Nat /\ hist[ptr.id].pos \in Nat
        BY <1>1, <2>2, ProgramFacts DEF Positions
    <2>6. QED
        BY <2>1, <2>3, <2>4, <2>5
<1>5. hist[ptr.id + 1].pos \in Nat /\ pos \in Nat
    BY <1>1, ProgramFacts DEF Positions
<1>6. QED
    BY <1>1, <1>2, <1>3, <1>4, <1>5

\* A commit extends the history by the transaction at pos.
LEMMA CommitHist ==
    ASSUME TypeOK, CacheInv, CommitTail
    PROVE  /\ Len(hist') = tail.id + 1
           /\ \A k \in 1 .. tail.id : hist'[k] = hist[k]
           /\ hist'[tail.id + 1] = [pos |-> pos, off |-> tail.off, val |-> ret]
<1>1. hist \in Seq([pos : Positions, off : Nat, val : Result])
    BY DEF TypeOK
<1>2. hist' = Append(hist, [pos |-> pos, off |-> tail.off, val |-> ret])
    BY DEF CommitTail
<1>3. Len(hist) = tail.id
    BY HistFacts
<1> HIDE DEF TypeOK
<1>4. QED
    BY <1>1, <1>2, <1>3

\* A commit is that of the first cached transaction not yet committed.
LEMMA OnceStep == IInv /\ [Next]_vars => ExactlyOnce'
<1> SUFFICES ASSUME IInv, [Next]_vars PROVE ExactlyOnce'
    OBVIOUS
<1> USE DEF IInv
<1>1. CASE CommitTail
    <2> USE HistFacts, CommitHist, <1>1
    <2>1. /\ pos \in Positions /\ Cached(pos) /\ ptr.id = tail.id
          /\ Aligned(tail.id)
        BY DEF CommitTail, JournalInv, PtrInv, InTx
    <2>2. ASSUME NEW k \in 1 .. Len(hist')
          PROVE /\ Cached(hist'[k].pos)
                /\ \A p \in 1 .. hist'[k].pos - 1 :
                      Cached(p) => \E m \in 1 .. k - 1 : hist'[m].pos = p
                /\ \A m \in 1 .. k - 1 : hist'[m].pos < hist'[k].pos
        <3>1. CASE k \in 1 .. tail.id
            <4>1. hist'[k] = hist[k] /\ \A m \in 1 .. k - 1 : hist'[m] = hist[m]
                BY <3>1
            <4>2. k \in 1 .. Len(hist)
                BY <3>1
            <4>3. /\ Cached(hist[k].pos)
                  /\ \A p \in 1 .. hist[k].pos - 1 :
                        Cached(p) => \E m \in 1 .. k - 1 : hist[m].pos = p
                  /\ \A m \in 1 .. k - 1 : hist[m].pos < hist[k].pos
                BY <4>2 DEF ExactlyOnce
            <4>4. QED
                BY <4>1, <4>3
        <3>2. CASE k = tail.id + 1
            <4>1. hist'[k].pos = pos /\ k - 1 = tail.id
                BY <3>2
            <4>2. ASSUME NEW p \in 1 .. pos - 1, Cached(p)
                  PROVE \E m \in 1 .. tail.id : hist'[m].pos = p
                <5>1. p \in Positions /\ p < pos
                    BY <2>1, ProgramFacts DEF Positions
                <5>2. PICK m \in 1 .. tail.id : hist[m].pos = p
                    BY <2>1, <4>2, <5>1 DEF Aligned
                <5>3. hist'[m].pos = p
                    BY <5>2
                <5>4. QED
                    BY <5>3
            <4>3. ASSUME NEW m \in 1 .. tail.id PROVE hist'[m].pos < pos
                <5>1. hist[tail.id].pos < pos
                    BY <2>1 DEF Aligned
                <5>2. m = tail.id \/ hist[m].pos < hist[tail.id].pos
                    <6>1. m = tail.id \/ m \in 1 .. tail.id - 1
                        OBVIOUS
                    <6>2. tail.id \in 1 .. Len(hist)
                        OBVIOUS
                    <6>3. \A n \in 1 .. tail.id - 1 : hist[n].pos < hist[tail.id].pos
                        BY <6>2 DEF ExactlyOnce
                    <6>4. QED
                        BY <6>1, <6>3
                <5>3. pos \in Nat /\ hist[m].pos \in Nat /\ hist[tail.id].pos \in Nat
                    BY <2>1, ProgramFacts DEF Positions
                <5>4. QED
                    BY <5>1, <5>2, <5>3
            <4>4. QED
                BY <2>1, <4>1, <4>2, <4>3
        <3>3. k \in 1 .. tail.id \/ k = tail.id + 1
            OBVIOUS
        <3>4. QED
            BY <3>1, <3>2, <3>3
    <2>3. QED
        BY <2>2 DEF ExactlyOnce, Cached
<1>2. CASE ~CommitTail
    BY <1>2, HistFrame DEF ExactlyOnce, Cached
<1>3. QED
    BY <1>1, <1>2

\* The TxCache, its offset and its id change only at a commit.
LEMMA CacheFrame ==
    ASSUME TypeOK, [Next]_vars, ~CommitTail
    PROVE  tail'.id = tail.id /\ tail'.off = tail.off
<1> tail \in [com : BOOLEAN, off : Nat, id : Nat]
    BY DEF TypeOK
<1> QED
    BY DEF Next, Execute, Recover, vars, cacheVars, Bypass, Begin, AppendLog,
           JournalFull, BumpTail, Write, EndBody, EndBodyRetry, CacheFull,
           CacheResult, AdvancePtr, ClearJournal, CommitNoReplay, ClearNoReplay,
           CheckCommitted, UndoRecord, UndoDone, Restart, Crash

\* Only cache_result writes to the TxCache.
LEMMA ResultsFrame == [Next]_vars /\ ~CacheResult => UNCHANGED cache
BY DEF Next, Execute, Recover, vars, cacheVars, Bypass, Begin, AppendLog,
       JournalFull, BumpTail, Write, EndBody, EndBodyRetry, CacheFull,
       CommitTail, AdvancePtr, ClearJournal, CommitNoReplay, ClearNoReplay,
       CheckCommitted, UndoRecord, UndoDone, Restart, Crash

\* No recorded result is overwritten, and the offsets stay contiguous.
LEMMA CacheStep == IInv /\ [Next]_vars => CacheInv'
<1> SUFFICES ASSUME IInv, [Next]_vars PROVE CacheInv'
    OBVIOUS
<1> USE HistFacts DEF IInv
<1> DEFINE Good(k) ==
        /\ hist[k].off + SizeOf(hist[k].pos) = NextOff(k)
        /\ hist[k].off + SizeOf(hist[k].pos) <= tail.off
        /\ IF SizeOf(hist[k].pos) > 0
           THEN hist[k].val \in Value /\ cache[hist[k].off] = hist[k].val
           ELSE hist[k].val = Unit
<1>1. CASE CommitTail
    <2> USE CommitHist, <1>1
    <2>1. /\ tail'.id = tail.id + 1 /\ tail'.off = tail.off + Size
          /\ UNCHANGED cache
        BY DEF CommitTail
    <2>2. /\ pos \in Positions /\ Size \in {0, 1}
          /\ tail.off + Size <= CacheSize
          /\ ret \in IF Size > 0 THEN Value ELSE {Unit}
          /\ Size > 0 => cache[tail.off] = ret
        BY ProgramFacts DEF CommitTail, JournalInv, PtrInv, InTx, Size
    <2>3. NextOff(0)' = 0
        <3>1. CASE tail.id = 0
            BY <2>1, <3>1 DEF NextOff, CacheInv
        <3>2. CASE tail.id > 0
            BY <2>1, <3>2 DEF NextOff, CacheInv
        <3>3. QED
            BY <3>1, <3>2
    <2>4. ASSUME NEW k \in 1 .. tail.id + 1 PROVE Good(k)'
        <3>1. CASE k = tail.id + 1
            BY <2>1, <2>2, <3>1 DEF NextOff, SizeOf, Size
        <3>2. CASE k \in 1 .. tail.id
            <4>1. Good(k) /\ hist'[k] = hist[k]
                BY <3>2 DEF CacheInv
            <4>2. NextOff(k)' = NextOff(k)
                <5>1. CASE k < tail.id
                    BY <2>1, <5>1 DEF NextOff
                <5>2. CASE k = tail.id
                    BY <2>1, <5>2 DEF NextOff
                <5>3. QED
                    BY <3>2, <5>1, <5>2
            <4>3. SizeOf(hist[k].pos) \in {0, 1}
                BY <3>2, ProgramFacts DEF SizeOf
            <4>4. tail.off <= tail'.off /\ hist[k].off \in Nat
                BY <2>1, <2>2, <3>2
            <4>5. hist[k].off + SizeOf(hist[k].pos) <= tail'.off
                <5>1. hist[k].off + SizeOf(hist[k].pos) <= tail.off
                    BY ONLY <4>1
                <5>2. tail.off \in Nat /\ tail'.off \in Nat
                    BY <2>1, <2>2
                <5>3. QED
                    BY ONLY <4>3, <4>4, <5>1, <5>2
            <4> HIDE DEF IInv
            <4>6. QED
                BY ONLY <2>1, <4>1, <4>2, <4>5 DEF SizeOf
        <3>3. QED
            BY <3>1, <3>2
    <2>5. QED
        BY <2>1, <2>2, <2>3, <2>4 DEF CacheInv
<1>2. CASE CacheResult
    <2>1. UNCHANGED <<hist, tail>>
        BY <1>2 DEF CacheResult, history
    <2>2. ASSUME NEW k \in 1 .. tail.id, SizeOf(hist[k].pos) > 0
          PROVE cache'[hist[k].off] = cache[hist[k].off]
        <3>1. Good(k) /\ SizeOf(hist[k].pos) \in {0, 1}
            BY ProgramFacts DEF CacheInv, SizeOf
        <3>2. hist[k].off # tail.off
            BY <2>2, <3>1
        <3>3. cache \in [0 .. CacheSize - 1 -> Value]
            BY DEF TypeOK
        <3>4. cache' = cache \/ cache' = [cache EXCEPT ![tail.off] = ret]
            BY <1>2 DEF CacheResult
        <3>5. hist[k].off \in 0 .. CacheSize - 1
            BY <2>2, <3>1, SizeAssumption DEF SizeAssumption, CacheInv
        <3>6. QED
            BY <3>2, <3>3, <3>4, <3>5
    <2>3. QED
        BY <2>1, <2>2 DEF CacheInv, NextOff, SizeOf
<1>3. CASE ~CommitTail /\ ~CacheResult
    BY <1>3, HistFrame, CacheFrame, ResultsFrame DEF CacheInv, NextOff, SizeOf
<1>4. QED
    BY <1>1, <1>2, <1>3

\* Types of everything but the results: their types need the rest of IInv.
CoreType ==
    /\ mem \in [Cell -> Value]
    /\ jlog \in [1 .. JournalSize -> Record]
    /\ jtail \in 0 .. JournalSize
    /\ ptr \in [off : Nat, id : Nat]
    /\ tail \in [com : BOOLEAN, off : Nat, id : Nat]
    /\ recovery \in BOOLEAN
    /\ pc \in PCs
    /\ pos \in 1 .. Len(Program) + 1
    /\ ret \in Result
    /\ retry \in BOOLEAN
    /\ rptr \in 0 .. JournalSize
    /\ stable \in [Cell -> Value]

\* Every action keeps the types of CoreType.
LEMMA CoreTypeStep == IInv /\ [Next]_vars => CoreType'
<1> SUFFICES ASSUME IInv, [Next]_vars PROVE CoreType'
    OBVIOUS
<1> USE ProgramFacts, SizeAssumption DEF SizeAssumption, IInv, TypeOK, CoreType, InTx, Positions, Record, Result, PCs, JournalInv, UndoInv
<1>1. CASE Bypass
    <2>1. pos \in Positions /\ Size \in {0, 1}
        BY <1>1 DEF Bypass, Size
    <2>2. ptr' \in [off : Nat, id : Nat]
        <3>1. /\ ptr' = [off |-> ptr.off + Size, id |-> ptr.id + 1]
              /\ ptr.off \in Nat /\ ptr.id \in Nat
            BY <1>1 DEF Bypass
        <3> HIDE DEF IInv
        <3>2. QED
            BY <2>1, <3>1
    <2>3. pos' \in 1 .. Len(Program) + 1
        BY <1>1, <2>1 DEF Bypass
    <2>4. QED
        BY <1>1, <2>2, <2>3 DEF Bypass, journalVars, history
<1>2. CASE Begin
    BY <1>2 DEF Begin, journalVars, cacheVars, localVars, history
<1>3. ASSUME NEW c \in Cell, AppendLog(c)
      PROVE CoreType'
    BY <1>3 DEF AppendLog, JournalHasRoom, journalVars, cacheVars, localVars, history
<1>4. CASE JournalFull
    BY <1>4 DEF JournalFull, JournalHasRoom, journalVars, cacheVars, localVars, history
<1>5. CASE BumpTail
    BY <1>5 DEF BumpTail, journalVars, cacheVars, localVars, history
<1>6. ASSUME NEW c \in Cell, NEW v \in Value, Write(c, v)
      PROVE CoreType'
    BY <1>6 DEF Write, journalVars, cacheVars, localVars, history
<1>7. ASSUME NEW r \in Result, EndBody(r)
      PROVE CoreType'
    BY <1>7 DEF EndBody, journalVars, cacheVars, localVars, history
<1>8. CASE EndBodyRetry
    BY <1>8 DEF EndBodyRetry, journalVars, cacheVars, localVars, history
<1>9. CASE CacheFull
    BY <1>9 DEF CacheFull, journalVars, cacheVars, localVars, history
<1>10. CASE CacheResult
    BY <1>10 DEF CacheResult, journalVars, cacheVars, localVars, history
<1>11. CASE CommitTail
    <2>1. Size \in {0, 1}
        BY <1>11 DEF CommitTail, Size
    <2>2. tail' \in [com : BOOLEAN, off : Nat, id : Nat]
        BY <1>11, <2>1, SMTT(20) DEF CommitTail
    <2>3. QED
        BY <1>11, <2>2 DEF CommitTail, journalVars, localVars
<1>12. CASE AdvancePtr
    <2>1. ptr' \in [off : Nat, id : Nat]
        <3>1. tail.off \in Nat /\ tail.id \in Nat /\ ptr.id + 1 \in Nat
            OBVIOUS
        <3>2. \/ ptr' = [off |-> tail.off, id |-> tail.id]
              \/ ptr' = [ptr EXCEPT !.id = ptr.id + 1]
            BY <1>12 DEF AdvancePtr
        <3>3. ptr \in [off : Nat, id : Nat]
            OBVIOUS
        <3>4. QED
            BY ONLY <3>1, <3>2, <3>3
    <2>2. pos' \in 1 .. Len(Program) + 1 /\ pc' \in PCs
        BY <1>12 DEF AdvancePtr
    <2>3. QED
        BY <1>12, <2>1, <2>2 DEF AdvancePtr, journalVars, history
<1>13. CASE ClearJournal
    BY <1>13 DEF ClearJournal, journalVars, cacheVars, localVars, history
<1>14. CASE CommitNoReplay
    BY <1>14 DEF CommitNoReplay, journalVars, cacheVars, localVars, history
<1>15. CASE ClearNoReplay
    BY <1>15 DEF ClearNoReplay, journalVars, cacheVars, localVars, history
<1>16. CASE CheckCommitted
    BY <1>16 DEF CheckCommitted, journalVars, cacheVars, localVars, history
<1>17. CASE UndoRecord
    BY <1>17 DEF UndoRecord, journalVars, cacheVars, localVars, history
<1>18. CASE UndoDone
    BY <1>18 DEF UndoDone, journalVars, cacheVars, localVars, history
<1>19. CASE Restart
    BY <1>19 DEF Restart, journalVars, cacheVars, localVars, history
<1>20. CASE Crash
    <2>1. /\ pos' = 1 /\ pc' = "check" /\ ret' = Unit /\ retry' = FALSE
          /\ rptr' = 0
        BY <1>20 DEF Crash
    <2>2. UNCHANGED <<mem, jlog, jtail, ptr, tail, recovery, stable>>
        BY <1>20 DEF Crash, journalVars, cacheVars, history
    <2>3. /\ pos' \in 1 .. Len(Program) + 1 /\ rptr' \in 0 .. JournalSize
          /\ pc' \in PCs /\ ret' \in Result
        BY <2>1
    <2>4. retry' \in BOOLEAN
        BY ONLY <2>1
    <2>5. QED
        BY <2>2, <2>3, <2>4
<1>21. CASE UNCHANGED vars
    BY <1>21 DEF vars
<1>22. QED
    BY <1>1, <1>2, <1>3, <1>4, <1>5, <1>6, <1>7, <1>8, <1>9, <1>10, <1>11, <1>12, <1>13, <1>14, <1>15, <1>16, <1>17, <1>18, <1>19, <1>20, <1>21 DEF Next, Execute, Recover

\* The history keeps its type.
LEMMA HistTypeStep ==
    IInv /\ [Next]_vars => hist' \in Seq([pos : Positions, off : Nat, val : Result])
<1> SUFFICES ASSUME IInv, [Next]_vars
             PROVE  hist' \in Seq([pos : Positions, off : Nat, val : Result])
    OBVIOUS
<1> USE DEF IInv
<1>1. CASE CommitTail
    <2> DEFINE Entry == [pos : Positions, off : Nat, val : Result]
    <2>1. hist \in Seq(Entry)
        BY DEF TypeOK
    <2>2. [pos |-> pos, off |-> tail.off, val |-> ret] \in Entry
        BY <1>1, HistFacts DEF CommitTail, JournalInv, InTx, TypeOK
    <2>3. hist' = Append(hist, [pos |-> pos, off |-> tail.off, val |-> ret])
        BY <1>1 DEF CommitTail
    <2> HIDE DEF Entry, IInv
    <2>4. hist' \in Seq(Entry)
        BY ONLY <2>1, <2>2, <2>3
    <2>5. QED
        BY <2>4 DEF Entry
<1>2. CASE ~CommitTail
    BY <1>2, HistFrame DEF TypeOK
<1>3. QED
    BY <1>1, <1>2

\* The TxCache keeps its type: only the result of a transaction that has one
\* is stored in it.
LEMMA CacheTypeStep ==
    IInv /\ [Next]_vars => cache' \in [0 .. CacheSize - 1 -> Value]
<1> SUFFICES ASSUME IInv, [Next]_vars PROVE cache' \in [0 .. CacheSize - 1 -> Value]
    OBVIOUS
<1>1. cache \in [0 .. CacheSize - 1 -> Value]
    BY DEF IInv, TypeOK
<1>2. CASE CacheResult
    <2>1. Size > 0 => ret \in Value
        BY <1>2 DEF CacheResult, IInv, PtrInv
    <2>2. QED
        BY <1>1, <1>2, <2>1 DEF CacheResult
<1>3. CASE ~CacheResult
    BY <1>1, <1>3, ResultsFrame
<1>4. QED
    BY <1>2, <1>3

\* A bypassed transaction yields the result recorded at its commit.
LEMMA BypassResult ==
    ASSUME IInv, Bypass
    PROVE  view' = [view EXCEPT ![pos] = hist[ptr.id + 1].val]
<1> USE DEF IInv
<1>1. /\ ptr.id + 1 \in 1 .. tail.id
      /\ hist[ptr.id + 1].pos = pos
      /\ ptr.off = hist[ptr.id + 1].off
    BY BypassPos
<1>2. Size \in {0, 1} /\ pos \in Positions /\ SizeOf(hist[ptr.id + 1].pos) = Size
    BY <1>1, ProgramFacts DEF Bypass, Size, SizeOf
<1>3. (IF Size > 0 THEN cache[ptr.off] ELSE Unit) = hist[ptr.id + 1].val
    BY <1>1, <1>2 DEF CacheInv
<1>4. QED
    BY <1>3 DEF Bypass

\* The program's local results keep their type.
LEMMA ViewTypeStep ==
    IInv /\ [Next]_vars => view' \in [Positions -> Result \union {NoResult}]
<1> SUFFICES ASSUME IInv, [Next]_vars
             PROVE  view' \in [Positions -> Result \union {NoResult}]
    OBVIOUS
<1>1. view \in [Positions -> Result \union {NoResult}] /\ ret \in Result
    BY DEF IInv, TypeOK
<1>2. CASE Bypass
    <2>1. hist[ptr.id + 1].val \in Result
        BY <1>2, BypassPos, HistFacts DEF IInv
    <2>2. QED
        BY <1>1, <1>2, <2>1, BypassResult
<1>3. CASE AdvancePtr \/ ClearJournal
    BY <1>1, <1>3 DEF AdvancePtr, ClearJournal
<1>4. CASE ClearNoReplay
    <2>1. pos \in Positions
        BY <1>4 DEF ClearNoReplay, IInv, JournalInv
    <2>2. (IF retry THEN view[pos] ELSE ret) \in Result \union {NoResult}
        BY <1>1, <2>1
    <2>3. view' = [view EXCEPT ![pos] = IF retry THEN view[pos] ELSE ret]
        BY <1>4 DEF ClearNoReplay
    <2>4. QED
        BY <1>1, <2>2, <2>3
<1>5. CASE Crash
    BY <1>5 DEF Crash, InitView
<1>6. ASSUME ~Bypass, ~AdvancePtr, ~ClearJournal, ~ClearNoReplay, ~Crash
      PROVE  UNCHANGED view
    BY <1>6 DEF Next, Execute, Recover, vars, localVars, Begin, AppendLog,
           JournalFull, BumpTail, Write, EndBody, EndBodyRetry, CacheFull,
           CacheResult, CommitTail, CommitNoReplay, CheckCommitted,
           UndoRecord, UndoDone, Restart
<1>7. QED
    BY <1>1, <1>2, <1>3, <1>4, <1>5, <1>6

\* Every step keeps TypeOK.
LEMMA TypeStep == IInv /\ [Next]_vars => TypeOK'
BY CoreTypeStep, HistTypeStep, CacheTypeStep, ViewTypeStep
   DEF TypeOK, CoreType, Positions

\* The program passes a transaction whose result it has cached or retrieved.
LEMMA AlignedAdvance ==
    ASSUME TypeOK, CacheInv, ExactlyOnce, NEW k \in Nat, k + 1 \in 1 .. tail.id,
           Aligned(k), pos \in Positions, hist[k + 1].pos = pos,
           view' = [view EXCEPT ![pos] = hist[k + 1].val],
           pos' = pos + 1, hist' = hist, tail'.id = tail.id
    PROVE  Aligned(k + 1)'
<1> USE HistFacts
<1>1. pos \in Nat /\ pos' \in Nat
    BY ProgramFacts DEF Positions
<1>2. hist'[k + 1].pos < pos'
    BY <1>1
<1>3. ASSUME k + 1 < tail'.id PROVE hist'[k + 2].pos >= pos'
    <2>1. k + 2 \in 1 .. Len(hist) /\ k + 1 \in 1 .. (k + 2) - 1
        BY <1>3
    <2>2. hist[k + 1].pos < hist[k + 2].pos
        BY <2>1 DEF ExactlyOnce
    <2>3. hist[k + 2].pos \in Nat
        BY <2>1
    <2>4. QED
        BY <1>1, <2>2, <2>3
<1>4. ASSUME NEW p \in Positions, p < pos', Cached(p)
      PROVE  \E m \in 1 .. k + 1 : hist'[m].pos = p /\ view'[p] = hist'[m].val
    <2>1. view \in [Positions -> Result \union {NoResult}]
        BY DEF TypeOK
    <2>2. CASE p = pos
        <3>1. view'[p] = hist[k + 1].val
            BY <2>1, <2>2
        <3>2. QED
            BY <2>2, <3>1
    <2>3. CASE p # pos
        <3>1. p < pos
            BY <1>1, <1>4, <2>3, ProgramFacts DEF Positions
        <3>2. PICK m \in 1 .. k : hist[m].pos = p /\ view[p] = hist[m].val
            BY <1>4, <3>1 DEF Aligned
        <3>3. view'[p] = view[p]
            BY <2>1, <2>3
        <3>4. m \in 1 .. k + 1
            OBVIOUS
        <3>5. QED
            BY <3>2, <3>3, <3>4
    <2>4. QED
        BY <2>2, <2>3
<1>5. (k + 1) + 1 = k + 2
    OBVIOUS
<1>6. QED
    BY <1>2, <1>3, <1>4, <1>5 DEF Aligned, Cached, Positions

\* The program passes a transaction whose result is never cached.
LEMMA AlignedSkip ==
    ASSUME TypeOK, CacheInv, ExactlyOnce, NEW k \in Nat, k <= tail.id,
           Aligned(k), pos \in Positions, ~Cached(pos), NEW x,
           view' = [view EXCEPT ![pos] = x],
           pos' = pos + 1, hist' = hist, tail'.id = tail.id
    PROVE  Aligned(k)'
<1> USE HistFacts
<1>1. pos \in Nat /\ pos' \in Nat
    BY ProgramFacts DEF Positions
<1>2. k >= 1 => hist'[k].pos < pos'
    BY <1>1 DEF Aligned
<1>3. ASSUME k < tail'.id PROVE hist'[k + 1].pos >= pos'
    <2>1. k + 1 \in 1 .. Len(hist) /\ k + 1 \in 1 .. tail.id
        BY <1>3
    <2>2. Cached(hist[k + 1].pos) /\ hist[k + 1].pos \in Nat
        BY <2>1 DEF ExactlyOnce
    <2>3. hist[k + 1].pos >= pos
        BY <1>3 DEF Aligned
    <2>4. hist[k + 1].pos # pos
        BY <2>2
    <2>5. QED
        BY <1>1, <2>2, <2>3, <2>4
<1>4. ASSUME NEW p \in Positions, p < pos', Cached(p)
      PROVE  \E m \in 1 .. k : hist'[m].pos = p /\ view'[p] = hist'[m].val
    <2>1. p # pos
        BY <1>4
    <2>2. p < pos
        BY <1>1, <1>4, <2>1, ProgramFacts DEF Positions
    <2>3. view'[p] = view[p]
        BY <2>1 DEF TypeOK
    <2>4. QED
        BY <1>4, <2>2, <2>3 DEF Aligned
<1>5. QED
    BY <1>2, <1>3, <1>4 DEF Aligned, Cached, Positions

\* TxCache.ptr follows the program through every step.
LEMMA PtrStep == IInv /\ [Next]_vars => PtrInv'
<1> SUFFICES ASSUME IInv, [Next]_vars PROVE PtrInv'
    OBVIOUS
<1> USE ProgramFacts, SizeAssumption DEF SizeAssumption, IInv, TypeOK, InTx, Kind, Size, Positions, Cached, Record, Result, SizeOf, JournalInv, PtrInv, Aligned, NextOff, CacheInv
<1>1. CASE Bypass
    <2> HIDE DEF TypeOK, InTx, Kind, Size, Positions, Cached, Record, Result, SizeOf,
               JournalInv, PtrInv, Aligned, NextOff, CacheInv
    <2>1. /\ ptr.id + 1 \in 1 .. tail.id
          /\ hist[ptr.id + 1].pos = pos
          /\ ptr.off = hist[ptr.id + 1].off
        BY <1>1, BypassPos
    <2>2. view' = [view EXCEPT ![pos] = hist[ptr.id + 1].val]
        BY <1>1, BypassResult
    <2>3. /\ pos \in Positions /\ pos' = pos + 1 /\ pc = "idle" /\ pc' = "idle"
          /\ UNCHANGED <<hist, tail>>
          /\ ptr'.id = ptr.id + 1 /\ ptr'.off = ptr.off + Size
        BY <1>1 DEF Bypass, history
    <2>4. Aligned(ptr.id) /\ ptr.id \in Nat /\ tail.id \in Nat
        BY <2>3, HistFacts DEF PtrInv, InTx
    <2>5. ASSUME NEW k \in Nat, k = ptr.id PROVE Aligned(k + 1)'
        BY <2>1, <2>2, <2>3, <2>4, <2>5, AlignedAdvance
    <2>6. Aligned(ptr.id)'
        BY <2>3, <2>4, <2>5 DEF Aligned
    <2>7. ptr'.off = NextOff(ptr.id)'
        <3>1. hist[ptr.id + 1].off + SizeOf(hist[ptr.id + 1].pos) = NextOff(ptr.id + 1)
            BY <2>1 DEF CacheInv
        <3>2. SizeOf(hist[ptr.id + 1].pos) = Size
            BY <2>1 DEF SizeOf, Size
        <3>3. ptr'.off = NextOff(ptr.id + 1)
            BY <2>1, <2>3, <3>1, <3>2
        <3>4. QED
            BY <2>3, <3>3 DEF NextOff
    <2>8. ptr'.id <= tail'.id
        BY <2>1, <2>3
    <2>9. QED
        BY <2>3, <2>6, <2>7, <2>8 DEF PtrInv, InTx
<1>2. CASE Begin
    <2> HIDE DEF TypeOK, InTx, Kind, Size, Positions, Cached, Record, Result, SizeOf,
               JournalInv, PtrInv, Aligned, NextOff, CacheInv
    <2>1. /\ UNCHANGED <<hist, view, pos, ptr>>
          /\ tail'.id = tail.id /\ tail'.off = tail.off
          /\ pc = "idle" /\ pc' = "body"
          /\ Cached(pos) => ~(ptr.id < tail.id)
        BY <1>2 DEF Begin, localVars, history, HasCachedResult, TypeOK
    <2>2. Aligned(ptr.id) /\ ptr.off = NextOff(ptr.id) /\ ptr.id <= tail.id
        BY <2>1 DEF PtrInv
    <2>3. Aligned(ptr.id)' /\ NextOff(ptr.id)' = NextOff(ptr.id)
        BY <2>1, <2>2 DEF Aligned, NextOff, Cached, Positions
    <2>4. Cached(pos)' => ptr'.id = tail'.id
        BY <2>1, <2>2, HistFacts DEF Cached
    <2>5. QED
        BY <2>1, <2>2, <2>3, <2>4 DEF PtrInv, InTx
<1>3. ASSUME NEW c \in Cell, AppendLog(c)
      PROVE PtrInv'
    BY <1>3 DEF AppendLog, JournalHasRoom, journalVars, cacheVars, localVars, history
<1>4. CASE JournalFull
    BY <1>4 DEF JournalFull, JournalHasRoom, journalVars, cacheVars, localVars, history
<1>5. CASE BumpTail
    BY <1>5 DEF BumpTail, journalVars, cacheVars, localVars, history
<1>6. ASSUME NEW c \in Cell, NEW v \in Value, Write(c, v)
      PROVE PtrInv'
    BY <1>6 DEF Write, journalVars, cacheVars, localVars, history
<1>7. ASSUME NEW r \in Result, EndBody(r)
      PROVE PtrInv'
    BY <1>7 DEF EndBody, journalVars, cacheVars, localVars, history
<1>8. CASE EndBodyRetry
    BY <1>8 DEF EndBodyRetry, journalVars, cacheVars, localVars, history
<1>9. CASE CacheFull
    BY <1>9 DEF CacheFull, journalVars, cacheVars, localVars, history
<1>10. CASE CacheResult
    <2> HIDE DEF TypeOK, InTx, Kind, Size, Positions, Cached, Record, Result, SizeOf,
               JournalInv, PtrInv, Aligned, NextOff, CacheInv
    <2>1. /\ UNCHANGED <<hist, view, pos, ptr, tail, ret>>
          /\ pc = "cache" /\ pc' = "settail"
          /\ tail.off + Size <= CacheSize
        BY <1>10 DEF CacheResult, localVars, history
    <2>2. /\ Aligned(ptr.id) /\ ptr.off = NextOff(ptr.id) /\ ptr.id <= tail.id
          /\ Cached(pos) /\ ptr.id = tail.id
          /\ ret \in IF Size > 0 THEN Value ELSE {Unit}
        BY <2>1 DEF PtrInv, InTx
    <2>3. Aligned(ptr.id)' /\ NextOff(ptr.id)' = NextOff(ptr.id) /\ Size' = Size
        BY <2>1, <2>2 DEF Aligned, NextOff, Cached, Positions, Size
    <2>4. ASSUME Size > 0 PROVE cache'[tail.off] = ret
        <3>1. pos \in Positions /\ Size \in {0, 1}
            BY <2>1, ProgramFacts DEF JournalInv, InTx, Size
        <3>2. tail.off \in 0 .. CacheSize - 1
            BY <2>1, <2>4, <3>1, HistFacts
        <3>3. QED
            BY <1>10, <2>4, <3>2 DEF CacheResult, TypeOK
    <2>5. QED
        BY <2>1, <2>2, <2>3, <2>4 DEF PtrInv, InTx, Cached
<1>11. CASE CommitTail
    <2> HIDE DEF TypeOK, InTx, Kind, Size, Positions, Cached, Record, Result, SizeOf,
               JournalInv, PtrInv, Aligned, NextOff, CacheInv
    <2>1. /\ UNCHANGED <<view, pos, ptr, ret>>
          /\ pc = "settail" /\ pc' = "setptr"
          /\ tail'.id = tail.id + 1
        BY <1>11 DEF CommitTail, localVars
    <2>2. /\ Aligned(ptr.id) /\ ptr.off = NextOff(ptr.id)
          /\ Cached(pos) /\ ptr.id = tail.id /\ tail.id \in Nat
        BY <2>1, HistFacts DEF PtrInv, InTx
    <2>3. ptr.off = tail.off
        BY <2>2 DEF NextOff
    <2>4. /\ \A k \in 1 .. tail.id : hist'[k] = hist[k]
          /\ hist'[tail.id + 1] = [pos |-> pos, off |-> tail.off, val |-> ret]
        BY <1>11, CommitHist
    <2>5. Aligned(ptr.id)'
        <3>1. pos \in Nat
            BY <2>1, ProgramFacts DEF JournalInv, InTx, Positions
        <3>2. tail.id >= 1 => hist'[tail.id].pos < pos
            BY <2>2, <2>4 DEF Aligned
        <3>3. ASSUME NEW p \in Positions, p < pos, Cached(p)
              PROVE \E m \in 1 .. tail.id : hist'[m].pos = p /\ view[p] = hist'[m].val
            <4>1. PICK m \in 1 .. tail.id : hist[m].pos = p /\ view[p] = hist[m].val
                BY <2>2, <3>3 DEF Aligned
            <4>2. QED
                BY <2>4, <4>1
        <3>4. hist'[tail.id + 1].pos >= pos
            BY <2>4, <3>1
        <3>5. QED
            BY <2>1, <2>2, <3>2, <3>3, <3>4 DEF Aligned, Positions, Cached
    <2>6. QED
        BY <2>1, <2>2, <2>3, <2>4, <2>5 DEF PtrInv, InTx
<1>12. CASE AdvancePtr
    <2> HIDE DEF TypeOK, InTx, Kind, Size, Positions, Cached, Record, Result, SizeOf,
               JournalInv, PtrInv, Aligned, NextOff, CacheInv
    <2>1. /\ UNCHANGED <<hist, tail, ret, retry>> /\ pc = "setptr"
          /\ ptr' = IF Size > 0 THEN [off |-> tail.off, id |-> tail.id]
                                 ELSE [ptr EXCEPT !.id = ptr.id + 1]
        BY <1>12 DEF AdvancePtr, history
    <2>2. /\ tail.id >= 1 /\ ptr.id = tail.id - 1 /\ ptr.off = hist[tail.id].off
          /\ Aligned(ptr.id) /\ hist[tail.id].pos = pos /\ hist[tail.id].val = ret
        BY <2>1 DEF PtrInv
    <2>3. pos \in Positions /\ Size \in {0, 1} /\ tail.id \in 1 .. tail.id
        BY <2>1, <2>2, ProgramFacts, HistFacts DEF JournalInv, Size
    <2>4. ptr'.id = tail.id /\ ptr'.off = tail.off
        <3>1. CASE Size > 0
            BY <2>1, <3>1
        <3>2. CASE Size = 0
            <4>1. ptr'.id = ptr.id + 1 /\ ptr'.off = ptr.off
                BY <2>1, <3>2 DEF TypeOK
            <4>2. hist[tail.id].off + SizeOf(hist[tail.id].pos) = tail.off
                BY <2>3, HistFacts DEF CacheInv, NextOff
            <4>3. hist[tail.id].off = tail.off
                BY <2>2, <2>3, <3>2, <4>2, HistFacts DEF SizeOf, Size
            <4>4. QED
                BY <2>2, <2>3, <4>1, <4>3, HistFacts
        <3>3. QED
            BY <2>3, <3>1, <3>2
    <2>5. CASE Kind = "fast"
        <3>1. /\ view' = [view EXCEPT ![pos] = ret] /\ pos' = pos + 1
              /\ pc' = "idle"
            BY <1>12, <2>5 DEF AdvancePtr
        <3>2. /\ ptr.id \in Nat /\ ptr.id + 1 = tail.id
            BY <2>2, <2>3, HistFacts
        <3>3. ASSUME NEW k \in Nat, k = ptr.id PROVE Aligned(k + 1)'
            BY <2>1, <2>2, <2>3, <3>1, <3>2, <3>3, AlignedAdvance
        <3>4. Aligned(ptr.id)'
            BY <2>4, <3>2, <3>3 DEF Aligned
        <3>5. NextOff(ptr.id)' = tail'.off
            BY <2>1, <2>4, HistFacts DEF NextOff
        <3>6. QED
            BY <2>1, <2>4, <3>1, <3>4, <3>5, HistFacts DEF PtrInv, InTx
    <2>6. CASE Kind # "fast"
        <3>1. UNCHANGED <<view, pos>> /\ pc' = "clear"
            BY <1>12, <2>6 DEF AdvancePtr
        <3>2. Aligned(ptr.id - 1)'
            BY <2>1, <2>2, <2>4, <3>1 DEF Aligned, Cached, Positions
        <3>3. QED
            BY <2>1, <2>2, <2>4, <3>1, <3>2 DEF PtrInv, InTx
    <2>7. QED
        BY <2>5, <2>6
<1>13. CASE ClearJournal
    <2> HIDE DEF TypeOK, InTx, Kind, Size, Positions, Cached, Record, Result, SizeOf,
               JournalInv, PtrInv, Aligned, NextOff, CacheInv
    <2>1. /\ UNCHANGED <<hist, tail, ptr>> /\ pc = "clear" /\ pc' = "idle"
          /\ view' = [view EXCEPT ![pos] = ret] /\ pos' = pos + 1
        BY <1>13 DEF ClearJournal, cacheVars, history
    <2>2. /\ tail.id >= 1 /\ ptr.id = tail.id /\ ptr.off = tail.off
          /\ Aligned(ptr.id - 1) /\ hist[tail.id].pos = pos
          /\ hist[tail.id].val = ret /\ pos \in Positions
        BY <2>1 DEF PtrInv, JournalInv
    <2>3. ptr.id - 1 \in Nat /\ (ptr.id - 1) + 1 = tail.id /\ tail.id \in 1 .. tail.id
        BY <2>2, HistFacts
    <2>4. ASSUME NEW k \in Nat, k = ptr.id - 1 PROVE Aligned(k + 1)'
        <3>1. k + 1 = tail.id /\ Aligned(k)
            BY <2>2, <2>3, <2>4
        <3>2. QED
            BY <2>1, <2>2, <2>3, <3>1, AlignedAdvance
    <2>5. Aligned(ptr.id)'
        BY <2>1, <2>2, <2>3, <2>4 DEF Aligned
    <2>6. NextOff(ptr.id)' = tail'.off
        BY <2>1, <2>2, HistFacts DEF NextOff
    <2>7. QED
        BY <2>1, <2>2, <2>5, <2>6, HistFacts DEF PtrInv, InTx
<1>14. CASE CommitNoReplay
    BY <1>14 DEF CommitNoReplay, journalVars, cacheVars, localVars, history
<1>15. CASE ClearNoReplay
    <2> HIDE DEF TypeOK, InTx, Kind, Size, Positions, Cached, Record, Result, SizeOf,
               JournalInv, PtrInv, Aligned, NextOff, CacheInv
    <2>1. /\ UNCHANGED <<hist, tail, ptr>> /\ pc = "nr_clear" /\ pc' = "idle"
          /\ view' = [view EXCEPT ![pos] = IF retry THEN view[pos] ELSE ret]
          /\ pos' = IF retry THEN pos ELSE pos + 1
        BY <1>15 DEF ClearNoReplay, cacheVars, history
    <2>2. /\ Aligned(ptr.id) /\ ptr.off = NextOff(ptr.id) /\ ptr.id <= tail.id
          /\ pos \in Positions /\ (retry \/ ~Cached(pos))
        BY <2>1 DEF PtrInv, JournalInv
    <2>3. Aligned(ptr.id)'
        <3>1. CASE retry
            <4>1. view' = view /\ pos' = pos
                BY <2>1, <2>2, <3>1 DEF TypeOK
            <4>2. QED
                BY <2>1, <2>2, <4>1 DEF Aligned, Cached, Positions
        <3>2. CASE ~retry
            <4>1. ~Cached(pos) /\ pos' = pos + 1 /\ view' = [view EXCEPT ![pos] = ret]
                BY <2>1, <2>2, <3>2
            <4>2. ASSUME NEW k \in Nat, k = ptr.id PROVE Aligned(k)'
                BY <2>1, <2>2, <4>1, <4>2, AlignedSkip
            <4>3. QED
                BY <2>1, <4>2, HistFacts DEF Aligned
        <3>3. QED
            BY <3>1, <3>2
    <2>4. NextOff(ptr.id)' = NextOff(ptr.id)
        BY <2>1 DEF NextOff
    <2>5. QED
        BY <2>1, <2>2, <2>3, <2>4 DEF PtrInv, InTx
<1>16. CASE CheckCommitted
    BY <1>16 DEF CheckCommitted, journalVars, cacheVars, localVars, history
<1>17. CASE UndoRecord
    BY <1>17 DEF UndoRecord, journalVars, cacheVars, localVars, history
<1>18. CASE UndoDone
    BY <1>18 DEF UndoDone, journalVars, cacheVars, localVars, history
<1>19. CASE Restart
    <2> HIDE DEF TypeOK, InTx, Kind, Size, Positions, Cached, Record, Result, SizeOf,
               JournalInv, PtrInv, Aligned, NextOff, CacheInv
    <2>1. /\ UNCHANGED <<hist, tail, pos>> /\ pc = "restart" /\ pc' = "idle"
          /\ ptr'.id = 0 /\ ptr'.off = 0
        BY <1>19 DEF Restart, localVars, history
    <2>2. pos = 1
        BY <2>1 DEF PtrInv
    <2>3. NextOff(ptr.id)' = 0
        BY <2>1 DEF NextOff, CacheInv
    <2>4. ASSUME tail.id > 0 PROVE hist[1].pos >= 1
        BY <2>4, HistFacts, ProgramFacts DEF Positions
    <2>5. \A p \in Positions : ~(p < 1)
        BY ProgramFacts DEF Positions
    <2>6. Aligned(ptr.id)'
        BY <2>1, <2>2, <2>4, <2>5, HistFacts DEF Aligned
    <2>7. QED
        BY <2>1, <2>3, <2>6, HistFacts DEF PtrInv, InTx
<1>20. CASE Crash
    BY <1>20 DEF Crash, journalVars, cacheVars, localVars, history
<1>21. CASE UNCHANGED vars
    <2>1. UNCHANGED <<hist, view, pos, ptr, tail, pc, ret, retry, cache>>
        BY <1>21 DEF vars
    <2>2. PtrInv
        OBVIOUS
    <2> HIDE DEF IInv
    <2>3. QED
        BY ONLY <2>1, <2>2 DEF PtrInv, InTx, Aligned, NextOff, Cached, Size, Positions
<1>22. QED
    BY <1>1, <1>2, <1>3, <1>4, <1>5, <1>6, <1>7, <1>8, <1>9, <1>10, <1>11, <1>12, <1>13, <1>14, <1>15, <1>16, <1>17, <1>18, <1>19, <1>20, <1>21 DEF Next, Execute, Recover

\* IInv is inductive.
LEMMA Step == IInv /\ [Next]_vars => IInv'
BY TypeStep, JournalStep, UndoStep, CacheStep, OnceStep, PtrStep DEF IInv

\* The journal, the commit flag, the TxCache and the program agree, for every
\* program, journal size and cache size, after any number of power failures.
THEOREM Inductive == Spec => []IInv
BY InitIInv, Step, PTL DEF Spec

\* A transaction object is type correct: neither the journal's tail nor the
\* TxCache's offset runs past its array.
THEOREM TypeCorrect == Spec => []TypeOK
<1>1. IInv => TypeOK
    BY DEF IInv
<1>2. QED
    BY <1>1, Inductive, PTL

\* Between two transactions and after every recovery the persistent objects
\* are as the last commit left them.
THEOREM CrashAtomic == Spec => []CrashAtomicity
<1>1. IInv => CrashAtomicity
    <2> SUFFICES ASSUME IInv, pc \in {"idle", "restart"} PROVE mem = stable
        BY DEF CrashAtomicity
    <2>1. mem \in [Cell -> Value] /\ stable \in [Cell -> Value] /\ jtail = 0
        BY DEF IInv, TypeOK, JournalInv
    <2>2. CASE tail.com
        BY <2>2 DEF IInv, JournalInv
    <2>3. CASE ~tail.com
        <3>1. \A c \in Cell :
                 (\A i \in 1 .. jtail : jlog[i].addr # c) => mem[c] = stable[c]
            BY <2>3 DEF IInv, JournalInv
        <3>2. 1 .. jtail = {}
            BY <2>1
        <3>3. \A c \in Cell : mem[c] = stable[c]
            BY <3>1, <3>2
        <3>4. QED
            BY <2>1, <3>3
    <2>4. QED
        BY <2>2, <2>3
<1>2. QED
    BY <1>1, Inductive, PTL

\* A nonempty set of natural numbers has a least element.
LEMMA LeastRecord ==
    ASSUME NEW S \in SUBSET Nat, S # {}
    PROVE  \E i \in S : \A k \in S : i <= k
<1>1. IsWellFoundedOn(OpToRel(<, Nat), Nat)
    BY NatLessThanWellFounded
<1>2. PICK i \in S : \A k \in S : ~(<<k, i>> \in OpToRel(<, Nat))
    BY <1>1, WFMin, Zenon
<1>3. \A k \in S : ~(k < i)
    BY <1>2 DEF OpToRel
<1>4. QED
    BY <1>3

\* Undoing the journal gives the objects of the last commit back: the oldest
\* record of an object holds its value from before the transaction.
LEMMA RecoverableFact == IInv => RecoverableIsStable
<1> SUFFICES ASSUME IInv PROVE Recoverable = stable
    BY DEF RecoverableIsStable
<1>1. /\ mem \in [Cell -> Value] /\ stable \in [Cell -> Value]
      /\ jtail \in Nat
    BY SizeAssumption DEF IInv, TypeOK, SizeAssumption
<1>2. CASE tail.com
    BY <1>2 DEF IInv, JournalInv, Recoverable
<1>3. CASE ~tail.com
    <2>1. ASSUME NEW c \in Cell
          PROVE (IF RecordsOf(c) = {} THEN mem[c] ELSE jlog[OldestRecord(c)].old)
                    = stable[c]
        <3>1. CASE RecordsOf(c) = {}
            <4>1. \A i \in 1 .. jtail : jlog[i].addr # c
                BY <3>1 DEF RecordsOf
            <4>2. QED
                BY <1>3, <3>1, <4>1 DEF IInv, JournalInv
        <3>2. CASE RecordsOf(c) # {}
            <4> DEFINE i == OldestRecord(c)
            <4>1. RecordsOf(c) \in SUBSET Nat
                BY <1>1 DEF RecordsOf
            <4>2. i \in RecordsOf(c) /\ \A k \in RecordsOf(c) : i <= k
                BY <3>2, <4>1, LeastRecord DEF OldestRecord
            <4> HIDE DEF i
            <4>3. i \in 1 .. jtail /\ jlog[i].addr = c
                BY <4>2 DEF RecordsOf
            <4>4. ASSUME NEW k \in 1 .. i - 1 PROVE jlog[k].addr # jlog[i].addr
                <5>1. k \in 1 .. jtail /\ ~(i <= k)
                    BY <1>1, <4>3
                <5>2. QED
                    BY <4>2, <4>3, <5>1 DEF RecordsOf
            <4>5. jlog[i].old = stable[c]
                BY <1>3, <4>3, <4>4 DEF IInv, JournalInv
            <4>6. QED
                BY <3>2, <4>5 DEF i
        <3>3. QED
            BY <3>1, <3>2
    <2>2. Recoverable = [c \in Cell |-> IF RecordsOf(c) = {} THEN mem[c]
                                          ELSE jlog[OldestRecord(c)].old]
        BY <1>3 DEF Recoverable
    <2>3. Recoverable = [c \in Cell |-> stable[c]]
        BY <2>1, <2>2
    <2>4. QED
        BY <1>1, <2>3
<1>4. QED
    BY <1>2, <1>3

\* At every moment, what recovery would restore is what the last commit left.
THEOREM AlwaysRecoverable == Spec => []RecoverableIsStable
BY RecoverableFact, Inductive, PTL

\* The restarted program sees the results of its first run.
THEOREM ReplayCorrect == Spec => []ReplayFaithful
<1>1. IInv => ReplayFaithful
    <2> SUFFICES ASSUME IInv, NEW p \in Positions, p < pos, Cached(p)
                 PROVE \E k \in 1 .. Len(hist) : /\ hist[k].pos = p
                                                 /\ view[p] = hist[k].val
        BY DEF ReplayFaithful
    <2> USE HistFacts DEF IInv
    <2>1. ASSUME NEW k \in Nat, k <= tail.id, Aligned(k)
          PROVE  \E m \in 1 .. Len(hist) : hist[m].pos = p /\ view[p] = hist[m].val
        <3>1. PICK m \in 1 .. k : hist[m].pos = p /\ view[p] = hist[m].val
            BY <2>1 DEF Aligned
        <3>2. m \in 1 .. Len(hist)
            BY <2>1, <3>1
        <3>3. QED
            BY <3>1, <3>2
    <2>2. CASE pc \in InTx \union {"idle", "nr_clear"}
        BY <2>1, <2>2 DEF PtrInv
    <2>3. CASE pc = "setptr"
        BY <2>1, <2>3 DEF PtrInv
    <2>4. CASE pc = "clear"
        <3>1. ptr.id - 1 \in Nat /\ ptr.id - 1 <= tail.id /\ Aligned(ptr.id - 1)
            BY <2>4 DEF PtrInv
        <3>2. QED
            BY <2>1, <3>1
    <2>5. CASE pc \in {"check", "undo", "restart"}
        BY <2>5, ProgramFacts DEF PtrInv, Positions
    <2>6. pc \in PCs
        BY DEF TypeOK
    <2>7. QED
        BY <2>2, <2>3, <2>4, <2>5, <2>6 DEF PCs, InTx
<1>2. QED
    BY <1>1, Inductive, PTL

\* Every cached transaction commits once, in program order.
THEOREM CommitsOnce == Spec => []ExactlyOnce
<1>1. IInv => ExactlyOnce
    BY DEF IInv
<1>2. QED
    BY <1>1, Inductive, PTL

\* As long as no power failure was recovered from, the program has no cached
\* result ahead of it.
RecoveryInv ==
    /\ (~recovery /\ pc \in InTx \union {"idle", "nr_clear"}) => ptr.id = tail.id
    /\ pc \in {"undo", "restart"} => recovery

\* Every step keeps RecoveryInv.
LEMMA RecoveryStep == IInv /\ RecoveryInv /\ [Next]_vars => RecoveryInv'
<1> SUFFICES ASSUME IInv, RecoveryInv, [Next]_vars PROVE RecoveryInv'
    OBVIOUS
<1> USE DEF IInv, TypeOK, InTx, RecoveryInv, PtrInv
<1>1. CASE Bypass
    BY <1>1 DEF Bypass, HasCachedResult, journalVars, cacheVars, localVars, history
<1>2. CASE Begin
    BY <1>2 DEF Begin, journalVars, cacheVars, localVars, history
<1>3. ASSUME NEW c \in Cell, AppendLog(c)
      PROVE RecoveryInv'
    BY <1>3 DEF AppendLog, JournalHasRoom, journalVars, cacheVars, localVars, history
<1>4. CASE JournalFull
    BY <1>4 DEF JournalFull, JournalHasRoom, journalVars, cacheVars, localVars, history
<1>5. CASE BumpTail
    BY <1>5 DEF BumpTail, journalVars, cacheVars, localVars, history
<1>6. ASSUME NEW c \in Cell, NEW v \in Value, Write(c, v)
      PROVE RecoveryInv'
    BY <1>6 DEF Write, journalVars, cacheVars, localVars, history
<1>7. ASSUME NEW r \in Result, EndBody(r)
      PROVE RecoveryInv'
    BY <1>7 DEF EndBody, journalVars, cacheVars, localVars, history
<1>8. CASE EndBodyRetry
    BY <1>8 DEF EndBodyRetry, journalVars, cacheVars, localVars, history
<1>9. CASE CacheFull
    BY <1>9 DEF CacheFull, journalVars, cacheVars, localVars, history
<1>10. CASE CacheResult
    BY <1>10 DEF CacheResult, journalVars, cacheVars, localVars, history
<1>11. CASE CommitTail
    BY <1>11 DEF CommitTail, journalVars, cacheVars, localVars, history
<1>12. CASE AdvancePtr
    <2>1. /\ tail'.id = tail.id /\ pc = "setptr" /\ pc' \in {"idle", "clear"}
          /\ tail.id \in Nat /\ ptr.id + 1 = tail.id /\ UNCHANGED recovery
        BY <1>12 DEF AdvancePtr
    <2>2. ptr'.id = tail.id
        <3>1. CASE Size > 0
            BY <1>12, <3>1 DEF AdvancePtr
        <3>2. CASE ~(Size > 0)
            BY <1>12, <2>1, <3>2 DEF AdvancePtr
        <3>3. QED
            BY <3>1, <3>2
    <2>3. QED
        BY <2>1, <2>2
<1>13. CASE ClearJournal
    BY <1>13 DEF ClearJournal, journalVars, cacheVars, localVars, history
<1>14. CASE CommitNoReplay
    BY <1>14 DEF CommitNoReplay, journalVars, cacheVars, localVars, history
<1>15. CASE ClearNoReplay
    BY <1>15 DEF ClearNoReplay, journalVars, cacheVars, localVars, history
<1>16. CASE CheckCommitted
    BY <1>16 DEF CheckCommitted, journalVars, cacheVars, localVars, history
<1>17. CASE UndoRecord
    BY <1>17 DEF UndoRecord, journalVars, cacheVars, localVars, history
<1>18. CASE UndoDone
    BY <1>18 DEF UndoDone, journalVars, cacheVars, localVars, history
<1>19. CASE Restart
    BY <1>19 DEF Restart, journalVars, cacheVars, localVars, history
<1>20. CASE Crash
    BY <1>20 DEF Crash, journalVars, cacheVars, localVars, history
<1>21. CASE UNCHANGED vars
    BY <1>21 DEF vars
<1>22. QED
    BY <1>1, <1>2, <1>3, <1>4, <1>5, <1>6, <1>7, <1>8, <1>9, <1>10, <1>11, <1>12, <1>13, <1>14, <1>15, <1>16, <1>17, <1>18, <1>19, <1>20, <1>21 DEF Next, Execute, Recover

\* The debug_assert of try_retrieve_result never fails: a transaction is
\* bypassed only by a program that was restarted.
THEOREM BypassRecovers == Spec => []BypassOnlyInRecovery
<1>1. Init => RecoveryInv
    BY DEF Init, RecoveryInv, InTx
<1>2. IInv /\ RecoveryInv => BypassOnlyInRecovery
    BY HistFacts DEF IInv, RecoveryInv, BypassOnlyInRecovery, HasCachedResult
<1>3. QED
    BY <1>1, <1>2, RecoveryStep, Inductive, PTL DEF Spec

-----------------------------------------------------------------------------
(* Refinement of AtomicTx.                                                 *)

\* the results of the commits, as the program saw them
Committed == [k \in 1 .. Len(hist) |-> [pos |-> hist[k].pos, val |-> hist[k].val]]

\* Only try_run commits a transaction that is to be run again.
RetryInv == (pc = "nr_set" /\ retry) => Kind = "try"

\* The abstract state, read off persistent memory, is that of the last commit.
RefInv == IInv /\ RetryInv /\ Recoverable = stable /\ RecordedResults = Committed

\* Every step keeps RetryInv.
LEMMA RetryStep == RetryInv /\ [Next]_vars => RetryInv'
<1> SUFFICES ASSUME RetryInv, [Next]_vars PROVE RetryInv'
    OBVIOUS
<1>1. ASSUME NEW r \in Result, EndBody(r) PROVE RetryInv'
    BY <1>1 DEF EndBody, RetryInv
<1>2. CASE EndBodyRetry
    BY <1>2 DEF EndBodyRetry, RetryInv, Kind
<1>3. CASE UNCHANGED vars
    BY <1>3 DEF vars, RetryInv, Kind
<1>4. CASE pc' # "nr_set"
    BY <1>4 DEF RetryInv
<1>5. QED
    BY <1>1, <1>2, <1>3, <1>4
       DEF Next, Execute, Recover, Bypass, Begin, AppendLog, JournalFull, BumpTail,
           Write, CacheFull, CacheResult, CommitTail, AdvancePtr, ClearJournal,
           CommitNoReplay, ClearNoReplay, CheckCommitted, UndoRecord, UndoDone,
           Restart, Crash

\* The TxCache holds the results of the commits.
LEMMA RecordedIsCommitted == IInv => RecordedResults = Committed
<1> SUFFICES ASSUME IInv
             PROVE  \A k \in 1 .. Len(hist) :
                        (IF Program[hist[k].pos].size > 0 THEN cache[hist[k].off] ELSE Unit)
                            = hist[k].val
    BY DEF RecordedResults, Committed
<1>1. Len(hist) = tail.id
    BY HistFacts DEF IInv
<1>2. QED
    BY <1>1 DEF IInv, CacheInv, SizeOf

\* What recovery would restore changes only at a commit write.
LEMMA StableFrame == [Next]_vars /\ ~CommitTail /\ ~CommitNoReplay => UNCHANGED stable
BY DEF Next, Execute, Recover, vars, history, Bypass, Begin, AppendLog,
       JournalFull, BumpTail, Write, EndBody, EndBodyRetry, CacheFull,
       CacheResult, AdvancePtr, ClearJournal, ClearNoReplay,
       CheckCommitted, UndoRecord, UndoDone, Restart, Crash

\* The commit write of a recorded transaction is the abstract commit of the
\* first transaction that has none.
LEMMA CommitTailRefines ==
    ASSUME RefInv, RefInv', CommitTail
    PROVE  Atomic!CommitRecorded
<1>1. /\ pos \in Positions /\ Cached(pos) /\ ptr.id = tail.id /\ Aligned(tail.id)
      /\ ret \in IF Size > 0 THEN Value ELSE {Unit}
    BY DEF CommitTail, RefInv, IInv, JournalInv, PtrInv, InTx
<1>2. Recoverable' \in [Cell -> Value]
    BY DEF RefInv, IInv, TypeOK
<1>3. /\ Len(hist) = tail.id /\ tail.id \in Nat
      /\ \A k \in 1 .. tail.id : hist[k].pos \in Nat /\ hist[k].val \in Result
    BY HistFacts DEF RefInv, IInv
<1>4. /\ Len(hist') = tail.id + 1
      /\ \A k \in 1 .. tail.id : hist'[k] = hist[k]
      /\ hist'[tail.id + 1] = [pos |-> pos, off |-> tail.off, val |-> ret]
    BY CommitHist DEF RefInv, IInv
<1>5. RecordedResults = [k \in 1 .. tail.id |-> [pos |-> hist[k].pos, val |-> hist[k].val]]
    BY <1>3 DEF RefInv, Committed
<1>6. RecordedResults'
        = [k \in 1 .. tail.id + 1 |-> [pos |-> hist'[k].pos, val |-> hist'[k].val]]
    BY <1>4 DEF RefInv, Committed
<1>7. RecordedResults' = Append(RecordedResults, [pos |-> pos, val |-> ret])
    <2> DEFINE Entry == [pos : Nat, val : Result]
    <2>1. \A k \in 1 .. tail.id : [pos |-> hist[k].pos, val |-> hist[k].val] \in Entry
        BY <1>3
    <2> HIDE DEF Entry
    <2>2. RecordedResults \in [1 .. tail.id -> Entry]
        BY <1>5, <2>1
    <2>3. RecordedResults \in Seq(Entry) /\ Len(RecordedResults) = tail.id
        BY <1>3, <2>2
    <2>4. Append(RecordedResults, [pos |-> pos, val |-> ret])
            = [k \in 1 .. tail.id + 1 |-> IF k = tail.id + 1 THEN [pos |-> pos, val |-> ret]
                                          ELSE RecordedResults[k]]
        BY <1>3, <2>3
    <2>5. ASSUME NEW k \in 1 .. tail.id + 1
          PROVE  [pos |-> hist'[k].pos, val |-> hist'[k].val]
                    = IF k = tail.id + 1 THEN [pos |-> pos, val |-> ret] ELSE RecordedResults[k]
        <3>1. CASE k = tail.id + 1
            BY <1>4, <3>1
        <3>2. CASE k \in 1 .. tail.id
            BY <1>3, <1>4, <1>5, <3>2
        <3>3. QED
            BY <1>3, <3>1, <3>2
    <2>6. QED
        BY <1>6, <2>4, <2>5
<1>8. \A k \in 1 .. tail.id : hist[k].pos < pos
    <2>1. SUFFICES ASSUME NEW k \in 1 .. tail.id PROVE hist[k].pos < pos
        OBVIOUS
    <2>2. hist[tail.id].pos < pos
        BY <1>1, <1>3 DEF Aligned
    <2>3. k = tail.id \/ hist[k].pos < hist[tail.id].pos
        BY <1>3 DEF RefInv, IInv, ExactlyOnce
    <2>4. QED
        BY <1>1, <1>3, <2>2, <2>3, ProgramFacts DEF Positions
<1>9. /\ Len(RecordedResults) = tail.id
      /\ \A k \in 1 .. tail.id : RecordedResults[k].pos = hist[k].pos
    BY <1>3, <1>5
<1>10. pos \in Atomic!Pending
    <2>1. \A k \in 1 .. Len(RecordedResults) : RecordedResults[k].pos # pos
        BY <1>1, <1>3, <1>8, <1>9, ProgramFacts DEF Positions
    <2>2. QED
        BY <1>1, <2>1 DEF Atomic!Pending, Positions, Cached
<1>11. ASSUME NEW p \in Atomic!Pending PROVE pos <= p
    <2>1. /\ p \in Positions /\ Cached(p)
          /\ \A k \in 1 .. tail.id : hist[k].pos # p
        BY <1>9 DEF Atomic!Pending, Positions, Cached
    <2>2. ~(p < pos)
        BY <1>1, <2>1 DEF Aligned
    <2>3. QED
        BY <1>1, <2>1, <2>2, ProgramFacts DEF Positions
<1>12. QED
    BY <1>1, <1>2, <1>7, <1>10, <1>11 DEF Atomic!CommitRecorded, Size

\* The commit write of any other transaction changes the store only.
LEMMA NoReplayRefines ==
    ASSUME RefInv, RefInv', CommitNoReplay
    PROVE  Atomic!CommitUnrecorded
<1>1. pos \in Positions /\ (retry \/ ~Cached(pos))
    BY DEF CommitNoReplay, RefInv, IInv, JournalInv, PtrInv, InTx
<1>2. Program[pos].kind \in {"once", "try"}
    BY <1>1 DEF Cached, CommitNoReplay, RefInv, RetryInv, Kind
<1>3. Recoverable' \in [Cell -> Value]
    BY DEF RefInv, IInv, TypeOK
<1>4. Committed' = Committed
    BY DEF CommitNoReplay, Committed
<1>5. RecordedResults' = RecordedResults
    BY <1>4 DEF RefInv
<1>6. QED
    BY <1>1, <1>2, <1>3, <1>5 DEF Atomic!CommitUnrecorded, Positions

\* Journal and TxCache implement atomic transactions, for every program and
\* every pattern of power failures.
THEOREM ImplementsAtomicTx == Spec => RefinesAtomicTx
<1>1. RefInv /\ Init => Atomic!Init
    <2> SUFFICES ASSUME RefInv, Init PROVE Atomic!Init
        OBVIOUS
    <2>1. Recoverable = [c \in Cell |-> InitVal]
        BY DEF RefInv, Init
    <2>2. RecordedResults = <<>>
        BY DEF RefInv, Init, Committed
    <2>3. QED
        BY <2>1, <2>2 DEF Atomic!Init
<1>2. RefInv /\ RefInv' /\ [Next]_vars => [Atomic!Next]_(Atomic!avars)
    <2> SUFFICES ASSUME RefInv, RefInv', [Next]_vars
                 PROVE  Atomic!Next \/ UNCHANGED Atomic!avars
        OBVIOUS
    <2>1. CASE CommitTail
        BY <2>1, CommitTailRefines DEF Atomic!Next
    <2>2. CASE CommitNoReplay
        BY <2>2, NoReplayRefines DEF Atomic!Next
    <2>3. CASE ~CommitTail /\ ~CommitNoReplay
        <3>1. UNCHANGED <<stable, hist>>
            BY <2>3, HistFrame, StableFrame
        <3>2. Committed' = Committed
            BY <3>1 DEF Committed
        <3>3. QED
            BY <3>1, <3>2 DEF RefInv, Atomic!avars
    <2>4. QED
        BY <2>1, <2>2, <2>3
<1>3. Init => RetryInv
    BY DEF Init, RetryInv
<1>4. IInv /\ RetryInv => RefInv
    BY RecoverableFact, RecordedIsCommitted DEF RefInv, RecoverableIsStable
<1>5. QED
    BY <1>1, <1>2, <1>3, <1>4, RetryStep, Inductive, PTL
       DEF Spec, RefinesAtomicTx, Atomic!Spec

=============================================================================
