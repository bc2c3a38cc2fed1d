------------------------ MODULE SyscallReplay_proofs ------------------------
(***************************************************************************)
(* Proofs about SyscallReplay: system calls take effect exactly once and   *)
(* their results are replayed, for tasks whose transactions make one call  *)
(* each and meet any number of power failures, and for all tasks that meet *)
(* at most one.                                                            *)
(***************************************************************************)
EXTENDS SyscallReplay, FiniteSetTheorems, TLAPS

(***************************************************************************)
(* Where a position is in the code.                                        *)
(***************************************************************************)
\* the transactions that begin at p or before
Begun(c, p) == Cardinality({q \in 1 .. p : c[q].op = "begin"})

\* the calls of the n-th transaction at p or before
CallsOf(c, n, p) == Cardinality({q \in 1 .. p : c[q].op = "sys" /\ Begun(c, q) = n})

\* position p, or the end of the code, is inside a transaction
InTx(c, p) == \E b \in 1 .. p - 1 : c[b].op = "begin" /\ CallsBetween(c, b, p)

\* the how-manieth call of its transaction p is
CallNo(c, p) == CallsOf(c, Begun(c, p), p)

Inside == InTx(Program, pos)

(***************************************************************************)
(* The tasks the theorems are about.                                       *)
(***************************************************************************)
\* a call outside a transaction is not made in front of a call that may have
\* been under way when the power failed
OutsideLast(c) ==
    \A q \in DOMAIN c : c[q].op = "out" =>
        \A p \in DOMAIN c : c[p].op = "sys" /\ q < p => InTx(c, q) /\ Begun(c, q) # Begun(c, p)

OneCallEach(c) == \A p \in DOMAIN c : c[p].op = "sys" => CallNo(c, p) <= 1

Replayable == \A t \in Tasks : OutsideLast(t.code) /\ (OneCallEach(t.code) \/ t.crashes <= 1)

(***************************************************************************)
(* The invariant.                                                          *)
(***************************************************************************)
Jit     == {"jit", "jit_kernel", "jit_list", "jit_user", "jit_restart"}
Calling == {"kernel", "kptr", "entry", "bump", "kreset", "lreset", "commit", "panic"}
IsSys   == Op(pos) = "sys"

\* where the task is, and what it has passed
PlaceInv ==
    /\ pc \in Jit => pos = 1
    /\ pc \in {"jit_kernel", "jit_list"} => HasEntry
    /\ pc = "begin" => pos \in Positions /\ Op(pos) = "begin" /\ uptr = utail /\ rptr = 0
    /\ pc \in {"uptr", "uend"} =>
          /\ pos \in Positions /\ Op(pos) = "end" /\ Inside
          /\ ucom /\ Begun(Program, pos) = utail /\ uptr = IF pc = "uptr" THEN utail - 1 ELSE utail
    /\ pc \in Calling =>
          /\ pos \in Positions /\ Op(pos) \in {"sys", "out"}
          /\ pc \in {"entry", "bump", "commit", "panic"} => IsSys
          /\ IsSys => rtail = IF pc \in {"kreset", "lreset", "commit"} THEN rptr + 1 ELSE rptr
    /\ pc \notin Jit \cup {"uptr", "uend"} =>
          IF Inside
          THEN /\ ~ ucom /\ uptr = utail /\ Begun(Program, pos - 1) = utail + 1
               /\ rptr = CallsOf(Program, utail + 1, pos - 1) /\ rptr <= rtail
          ELSE uptr <= utail /\ Begun(Program, pos - 1) = uptr
    /\ ucom /\ pc \notin {"uptr", "uend", "jit", "jit_kernel", "jit_list", "jit_user"} => rtail = 0
    /\ Writing => EntryFits

\* the kernel TxCache: how full it is, and how far the call is in it
KernelInv ==
    /\ pc \in {"kernel", "entry", "bump", "panic", "kreset"} => ktail <= 2 * crashes + knum - 1
    /\ pc = "kptr" => ktail <= 2 * crashes + knum /\ knum <= Ktx(pos)
    /\ pc \notin {"kernel", "kptr", "entry", "bump", "panic", "kreset"} => ktail <= 2 * crashes
    /\ pc \in {"kernel", "entry", "bump", "panic", "kreset"} => knum <= Ktx(pos) + 1
    /\ pc \in {"lreset", "commit", "jit_list"} => ktail = 0
    /\ pc = "commit" => ~ listDone
    /\ pc \in Calling /\ IsSys =>
          /\ pc = "kernel" => kptr = knum - 1 /\ kptr <= ktail
          /\ pc = "kptr" => ktail = knum
          /\ pc \in {"entry", "bump", "panic"} =>
                ktail >= Ktx(pos) /\ (Program[pos].list => listDone)

\* the calls of the transaction under way that are on record
Recorded == IF ucom THEN 0 ELSE rtail

\* the results on record are inside the replay cache, although calls without
\* a result may have moved its tail out
FitInv ==
    \A p \in Syscalls :
        Returns(p) /\ Begun(Program, p) = utail + 1 /\ CallNo(Program, p) <= Recorded =>
            CallNo(Program, p) <= ReplaySize

BaseInv == task \in Tasks /\ Types /\ PlaceInv /\ KernelInv /\ FitInv

\* how often what a call does has been done
Untouched(p) == (\A k \in 1 .. Ktx(p) : kruns[p][k] = 0) /\ lruns[p] = 0
Done(p) ==
    (\A k \in 1 .. Ktx(p) : kruns[p][k] = 1) /\ lruns[p] = IF Program[p].list THEN 1 ELSE 0
SoFar(p) ==
    /\ ktail <= Ktx(p) /\ \A k \in 1 .. Ktx(p) : kruns[p][k] = IF k <= ktail THEN 1 ELSE 0
    /\ listDone => Program[p].list
    /\ lruns[p] = IF listDone THEN 1 ELSE 0

\* the kernel TxCache and list_tx_done hold something, or something of a call
\* that is complete
Left  == ktail # 0 \/ listDone
Stale == \/ pc \in {"kreset", "lreset"} /\ IsSys
         \/ pc = "jit" /\ HasEntry
         \/ pc \in {"jit_kernel", "jit_list"}

\* where a call is: in a transaction that committed, on record in the one
\* under way, the next one behind the record, or further ahead
Committed(p) == Begun(Program, p) <= utail
OnRecord(p)  == Begun(Program, p) = utail + 1 /\ CallNo(Program, p) <= Recorded
Current(p)   == Begun(Program, p) = utail + 1 /\ CallNo(Program, p) = Recorded + 1
Ahead(p)     == Begun(Program, p) > utail + 1 \/ (Begun(Program, p) = utail + 1 /\ CallNo(Program, p) > Recorded + 1)

\* how far a call is follows from where it is
CurrentOK(p) == (IF Stale THEN Untouched(p) ELSE SoFar(p)) /\ (ucom => ~ Left)
CallOK(p) ==
    /\ Committed(p) => Done(p)
    /\ OnRecord(p) => Done(p) /\ (Returns(p) => first[p] = entries[CallNo(Program, p)])
    /\ Current(p) => CurrentOK(p)
    /\ Ahead(p) => Untouched(p)

\* what is left belongs to a call that the task has yet to get to, unless
\* there are no more calls in transactions
Owner(q) ==
    /\ q \in Positions /\ Op(q) \in {"sys", "out"} /\ InTx(Program, q) /\ Begun(Program, q) = utail + 1
    /\ Op(q) = "sys" => CallNo(Program, q) = rtail + 1
    /\ pc \notin Jit /\ Inside => pos <= q
NoMoreCalls == \A p \in Syscalls : Begun(Program, p) <= utail
LeftInv == Left /\ ~ Stale => NoMoreCalls \/ (~ ucom /\ \E q \in Positions : Owner(q))

\* before the first power failure nothing is replayed
FirstRun ==
    crashes = 0 /\ pc \notin {"uptr", "uend"} =>
        /\ pc \notin Jit
        /\ IF Inside THEN HasEntry => pc \in {"kreset", "lreset", "commit"} /\ IsSys
           ELSE rtail = 0

RecordInv ==
    /\ \A p \in Syscalls : CallOK(p)
    /\ Writing => entries[rtail + 1] = ret
    /\ pc \in {"kreset", "lreset", "commit"} /\ IsSys /\ Returns(pos) => first[pos] = ret

RInv == BaseInv /\ FirstRun /\ LeftInv /\ RecordInv /\ ReplayedResults

-----------------------------------------------------------------------------
(***************************************************************************)
(* Counting along the code.                                                *)
(***************************************************************************)
\* Counting the positions up to p that are in S, one more position at a time.
LEMMA CountStep ==
    ASSUME NEW S, NEW p \in Nat
    PROVE  /\ Cardinality({q \in 1 .. p : q \in S}) \in Nat
           /\ Cardinality({q \in 1 .. p + 1 : q \in S}) =
                 Cardinality({q \in 1 .. p : q \in S}) + IF p + 1 \in S THEN 1 ELSE 0
<1> DEFINE A == {q \in 1 .. p : q \in S}
           B == {q \in 1 .. p + 1 : q \in S}
<1>1. IsFiniteSet(A) /\ Cardinality(A) \in Nat
    <2>1. IsFiniteSet(1 .. p)
        BY FS_Interval
    <2>2. IsFiniteSet(A)
        BY <2>1, FS_Subset
    <2>3. QED
        BY <2>2, FS_CardinalityType
<1>2. CASE p + 1 \in S
    <2>1. B = A \cup {p + 1} /\ p + 1 \notin A
        BY <1>2
    <2>2. QED
        BY <1>1, <1>2, <2>1, FS_AddElement
<1>3. CASE p + 1 \notin S
    <2>1. B = A
        BY <1>3
    <2>2. QED
        BY <1>1, <1>3, <2>1
<1>4. QED
    BY <1>2, <1>3

\* Counting further does not count less.
LEMMA CountGrows ==
    ASSUME NEW S, NEW p \in Nat, NEW r \in Nat, p <= r
    PROVE  Cardinality({q \in 1 .. p : q \in S}) <= Cardinality({q \in 1 .. r : q \in S})
<1> DEFINE A == {q \in 1 .. p : q \in S}
           B == {q \in 1 .. r : q \in S}
<1>1. IsFiniteSet(B)
    BY FS_Interval, FS_Subset, IsFiniteSet(1 .. r)
<1>2. A \subseteq B
    OBVIOUS
<1>3. QED
    BY <1>1, <1>2, FS_Subset

\* Nothing is before the first position.
LEMMA CountNone ==
    ASSUME NEW S
    PROVE  Cardinality({q \in 1 .. 0 : q \in S}) = 0
<1>1. {q \in 1 .. 0 : q \in S} = {}
    OBVIOUS
<1>2. QED
    BY <1>1, FS_EmptySet

Begins(c) == {q \in DOMAIN c : c[q].op = "begin"}
SysOf(c, n) == {q \in DOMAIN c : c[q].op = "sys" /\ Begun(c, q) = n}

\* What Begun and CallsOf count, in the form of the lemmas above.
LEMMA CountsAre ==
    ASSUME NEW c \in Seq(Instr), NEW p \in 0 .. Len(c), NEW n
    PROVE  /\ Begun(c, p) = Cardinality({q \in 1 .. p : q \in Begins(c)})
           /\ CallsOf(c, n, p) = Cardinality({q \in 1 .. p : q \in SysOf(c, n)})
<1>1. {q \in 1 .. p : c[q].op = "begin"} = {q \in 1 .. p : q \in Begins(c)}
    BY DEF Begins
<1>2. {q \in 1 .. p : c[q].op = "sys" /\ Begun(c, q) = n} = {q \in 1 .. p : q \in SysOf(c, n)}
    BY DEF SysOf
<1>3. QED
    BY <1>1, <1>2 DEF Begun, CallsOf

\* Begun and CallsOf from one position to the next.
LEMMA CountFacts ==
    ASSUME NEW c \in Seq(Instr), NEW p \in 0 .. Len(c), NEW n
    PROVE  /\ Begun(c, p) \in Nat /\ CallsOf(c, n, p) \in Nat
           /\ Begun(c, 0) = 0 /\ CallsOf(c, n, 0) = 0
           /\ p < Len(c) =>
                 /\ Begun(c, p + 1) = Begun(c, p) + IF c[p + 1].op = "begin" THEN 1 ELSE 0
                 /\ CallsOf(c, n, p + 1) = CallsOf(c, n, p)
                       + IF c[p + 1].op = "sys" /\ Begun(c, p + 1) = n THEN 1 ELSE 0
<1>0. Len(c) \in Nat /\ DOMAIN c = 1 .. Len(c) /\ p \in Nat /\ 0 \in 0 .. Len(c)
    OBVIOUS
<1>1. Begun(c, p) \in Nat /\ CallsOf(c, n, p) \in Nat
    <2>1. \A S : Cardinality({q \in 1 .. p : q \in S}) \in Nat
        BY <1>0, CountStep
    <2>2. /\ Begun(c, p) = Cardinality({q \in 1 .. p : q \in Begins(c)})
          /\ CallsOf(c, n, p) = Cardinality({q \in 1 .. p : q \in SysOf(c, n)})
        BY CountsAre, Zenon
    <2>3. QED
        BY <2>1, <2>2, Zenon
<1>2. Begun(c, 0) = 0 /\ CallsOf(c, n, 0) = 0
    <2>1. /\ Begun(c, 0) = Cardinality({q \in 1 .. 0 : q \in Begins(c)})
          /\ CallsOf(c, n, 0) = Cardinality({q \in 1 .. 0 : q \in SysOf(c, n)})
        BY <1>0, CountsAre, Zenon
    <2>2. QED
        BY <2>1, CountNone, Zenon
<1>3. ASSUME p < Len(c)
      PROVE  /\ Begun(c, p + 1) = Begun(c, p) + IF c[p + 1].op = "begin" THEN 1 ELSE 0
             /\ CallsOf(c, n, p + 1) = CallsOf(c, n, p)
                   + IF c[p + 1].op = "sys" /\ Begun(c, p + 1) = n THEN 1 ELSE 0
    <2>1. p + 1 \in 0 .. Len(c) /\ p + 1 \in DOMAIN c
        BY <1>0, <1>3
    <2>2. /\ Begun(c, p + 1) = Cardinality({q \in 1 .. p + 1 : q \in Begins(c)})
          /\ CallsOf(c, n, p + 1) = Cardinality({q \in 1 .. p + 1 : q \in SysOf(c, n)})
        BY <2>1, CountsAre
    <2>3. /\ Begun(c, p) = Cardinality({q \in 1 .. p : q \in Begins(c)})
          /\ CallsOf(c, n, p) = Cardinality({q \in 1 .. p : q \in SysOf(c, n)})
        BY CountsAre
    <2>4. Begun(c, p + 1) = Begun(c, p) + IF p + 1 \in Begins(c) THEN 1 ELSE 0
        BY <1>0, <2>2, <2>3, CountStep
    <2>5. CallsOf(c, n, p + 1) = CallsOf(c, n, p) + IF p + 1 \in SysOf(c, n) THEN 1 ELSE 0
        BY <1>0, <2>2, <2>3, CountStep
    <2>6. QED
        BY <2>1, <2>4, <2>5 DEF Begins, SysOf
<1>4. QED
    BY <1>1, <1>2, <1>3

\* They grow along the code.
LEMMA CountOrder ==
    ASSUME NEW c \in Seq(Instr), NEW p \in 0 .. Len(c), NEW r \in 0 .. Len(c), p <= r, NEW n
    PROVE  Begun(c, p) <= Begun(c, r) /\ CallsOf(c, n, p) <= CallsOf(c, n, r)
<1>1. p \in Nat /\ r \in Nat
    OBVIOUS
<1>2. \A S : Cardinality({q \in 1 .. p : q \in S}) <= Cardinality({q \in 1 .. r : q \in S})
    BY <1>1, CountGrows
<1>3. Begun(c, p) <= Begun(c, r)
    <2>1. /\ Begun(c, p) = Cardinality({q \in 1 .. p : q \in Begins(c)})
          /\ Begun(c, r) = Cardinality({q \in 1 .. r : q \in Begins(c)})
        BY CountsAre, Zenon
    <2>2. QED
        BY <1>2, <2>1, Zenon
<1>4. CallsOf(c, n, p) <= CallsOf(c, n, r)
    <2>1. /\ CallsOf(c, n, p) = Cardinality({q \in 1 .. p : q \in SysOf(c, n)})
          /\ CallsOf(c, n, r) = Cardinality({q \in 1 .. r : q \in SysOf(c, n)})
        BY CountsAre, Zenon
    <2>2. QED
        BY <1>2, <2>1, Zenon
<1>5. QED
    BY <1>3, <1>4

\* The next two positions behind one inside a transaction, and behind one
\* outside: a begin enters, an end leaves.
LEMMA InTxStep ==
    ASSUME NEW c \in Seq(Instr), Bracketed(c), NEW p \in 1 .. Len(c)
    PROVE  /\ InTx(c, p) => c[p].op # "begin"
           /\ c[p].op \in {"sys", "end"} => InTx(c, p)
           /\ c[p].op = "begin" => InTx(c, p + 1)
           /\ c[p].op = "end" => ~ InTx(c, p + 1)
           /\ c[p].op \in {"sys", "out"} => (InTx(c, p + 1) <=> InTx(c, p))
<1>0. p \in DOMAIN c /\ p \in Nat /\ Len(c) \in Nat /\ DOMAIN c = 1 .. Len(c)
    OBVIOUS
<1>1. ASSUME InTx(c, p) PROVE c[p].op # "begin"
    <2>1. PICK b \in 1 .. p - 1 : c[b].op = "begin" /\ CallsBetween(c, b, p)
        BY <1>1 DEF InTx
    <2>2. PICK e \in DOMAIN c : e > b /\ c[e].op = "end" /\ CallsBetween(c, b, e)
        BY <1>0, <2>1 DEF Bracketed
    <2>3. e \in Nat /\ e >= p
        BY <1>0, <2>1, <2>2 DEF CallsBetween
    <2>4. CASE e = p
        BY <2>2, <2>4
    <2>5. CASE e # p
        <3>1. p \in b + 1 .. e - 1
            BY <1>0, <2>1, <2>3, <2>5
        <3>2. QED
            BY <2>2, <3>1 DEF CallsBetween
    <2>6. QED
        BY <2>4, <2>5
<1>2. ASSUME c[p].op \in {"sys", "end"} PROVE InTx(c, p)
    <2>1. PICK b \in DOMAIN c : b < p /\ c[b].op = "begin" /\ CallsBetween(c, b, p)
        BY <1>0, <1>2 DEF Bracketed
    <2>2. b \in 1 .. p - 1
        BY <1>0, <2>1
    <2>3. QED
        BY <2>1, <2>2 DEF InTx
<1>3. ASSUME c[p].op = "begin" PROVE InTx(c, p + 1)
    <2>1. p \in 1 .. p + 1 - 1 /\ CallsBetween(c, p, p + 1)
        BY <1>0 DEF CallsBetween
    <2>2. QED
        BY <1>3, <2>1 DEF InTx
<1>4. ASSUME c[p].op = "end", InTx(c, p + 1) PROVE FALSE
    <2>1. PICK b \in 1 .. p + 1 - 1 : c[b].op = "begin" /\ CallsBetween(c, b, p + 1)
        BY <1>4 DEF InTx
    <2>2. b # p
        BY <1>4, <2>1
    <2>3. p \in b + 1 .. p + 1 - 1
        BY <1>0, <2>1, <2>2
    <2>4. QED
        BY <1>4, <2>1, <2>3 DEF CallsBetween
<1>5. ASSUME c[p].op \in {"sys", "out"} PROVE InTx(c, p + 1) <=> InTx(c, p)
    <2>1. ASSUME NEW b \in 1 .. p - 1
          PROVE  CallsBetween(c, b, p + 1) <=> CallsBetween(c, b, p)
        BY <1>0, <1>5 DEF CallsBetween
    <2>2. ASSUME InTx(c, p) PROVE InTx(c, p + 1)
        <3>1. PICK b \in 1 .. p - 1 : c[b].op = "begin" /\ CallsBetween(c, b, p)
            BY <2>2 DEF InTx
        <3>2. b \in 1 .. p + 1 - 1
            BY <1>0, <3>1
        <3>3. QED
            BY <2>1, <3>1, <3>2 DEF InTx
    <2>3. ASSUME InTx(c, p + 1) PROVE InTx(c, p)
        <3>1. PICK b \in 1 .. p + 1 - 1 : c[b].op = "begin" /\ CallsBetween(c, b, p + 1)
            BY <2>3 DEF InTx
        <3>2. b # p
            BY <1>5, <3>1
        <3>3. b \in 1 .. p - 1
            BY <1>0, <3>1, <3>2
        <3>4. QED
            BY <2>1, <3>1, <3>3 DEF InTx
    <2>4. QED
        BY <2>2, <2>3
<1>6. QED
    BY <1>1, <1>2, <1>3, <1>4, <1>5

\* A position inside a transaction that is behind an end is in a later one.
LEMMA BehindEnd ==
    ASSUME NEW c \in Seq(Instr), NEW e \in 1 .. Len(c), c[e].op = "end",
           NEW q \in 1 .. Len(c), InTx(c, q), e < q
    PROVE  Begun(c, q) > Begun(c, e)
<1>0. Len(c) \in Nat /\ DOMAIN c = 1 .. Len(c) /\ e \in Nat /\ q \in Nat
    OBVIOUS
<1>1. PICK b \in 1 .. q - 1 : c[b].op = "begin" /\ CallsBetween(c, b, q)
    BY DEF InTx
<1>2. b > e
    <2>1. ~ (e \in b + 1 .. q - 1)
        BY <1>1 DEF CallsBetween
    <2>2. b # e
        BY <1>1
    <2>3. QED
        BY <1>0, <2>1, <2>2
<1>3. PICK a \in 0 .. Len(c) : a + 1 = b /\ a < Len(c) /\ e <= a /\ b <= q
    <2>1. b - 1 \in 0 .. Len(c) /\ (b - 1) + 1 = b /\ b - 1 < Len(c) /\ e <= b - 1 /\ b <= q
        BY <1>0, <1>1, <1>2
    <2>2. QED
        BY <2>1
<1>4. Begun(c, b) = Begun(c, a) + 1
    BY <1>1, <1>3, CountFacts
<1>5. Begun(c, e) <= Begun(c, a)
    BY <1>0, <1>3, CountOrder
<1>6. Begun(c, b) <= Begun(c, q)
    BY <1>0, <1>1, <1>3, CountOrder
<1>7. Begun(c, e) \in Nat /\ Begun(c, a) \in Nat /\ Begun(c, q) \in Nat
    BY <1>0, <1>3, CountFacts
<1>8. QED
    BY <1>4, <1>5, <1>6, <1>7

\* The calls of a transaction are numbered in the order of the code.
LEMMA CallOrder ==
    ASSUME NEW c \in Seq(Instr), NEW n, NEW q \in 1 .. Len(c),
           c[q].op = "sys", Begun(c, q) = n, NEW p \in 0 .. Len(c), p < q
    PROVE  CallsOf(c, n, p) < CallsOf(c, n, q)
<1>0. Len(c) \in Nat /\ q \in Nat /\ p \in Nat
    OBVIOUS
<1>1. PICK a \in 0 .. Len(c) : a + 1 = q /\ a < Len(c) /\ p <= a
    <2>1. q - 1 \in 0 .. Len(c) /\ (q - 1) + 1 = q /\ q - 1 < Len(c) /\ p <= q - 1
        BY <1>0
    <2>2. QED
        BY <2>1
<1>2. CallsOf(c, n, q) = CallsOf(c, n, a) + 1
    BY <1>1, CountFacts
<1>3. CallsOf(c, n, p) <= CallsOf(c, n, a)
    BY <1>1, CountOrder
<1>4. CallsOf(c, n, p) \in Nat /\ CallsOf(c, n, a) \in Nat
    BY <1>1, CountFacts
<1>5. QED
    BY <1>2, <1>3, <1>4

-----------------------------------------------------------------------------
(***************************************************************************)
(* What every step may use.                                                *)
(***************************************************************************)
\* The code of the task is bracketed code.
LEMMA ProgramFacts ==
    ASSUME task \in Tasks
    PROVE  /\ Program \in Seq(Instr) /\ Bracketed(Program) /\ MaxCrashes \in Nat
           /\ Len(Program) \in Nat /\ DOMAIN Program = Positions
           /\ \A p \in Positions : /\ Op(p) \in {"begin", "end", "sys", "out"}
                                   /\ Ktx(p) \in 0 .. 2 /\ Program[p].list \in BOOLEAN /\ Returns(p) \in BOOLEAN
<1>1. Program \in Seq(Instr) /\ Bracketed(Program) /\ MaxCrashes \in Nat
    BY ReplayAssumption DEF ReplayAssumption, Program, MaxCrashes
<1>2. Len(Program) \in Nat /\ DOMAIN Program = Positions
    BY <1>1 DEF Positions
<1>3. ASSUME NEW p \in Positions
      PROVE  Op(p) \in {"begin", "end", "sys", "out"} /\ Ktx(p) \in 0 .. 2 /\ Program[p].list \in BOOLEAN /\ Returns(p) \in BOOLEAN
    <2>1. Program[p] \in Instr
        BY <1>1, <1>2, <1>3 DEF Positions
    <2>2. QED
        BY <2>1 DEF Instr, Op, Ktx, Returns
<1>4. QED
    BY <1>1, <1>2, <1>3

\* TxOf counts the transactions.
LEMMA TxIs == \A p : TxOf(p) = Begun(Program, p)
BY DEF TxOf, Begun, Op

\* Around the current position.
LEMMA PosFacts ==
    ASSUME BaseInv, pos \in Positions, NEW n
    PROVE  /\ pos \in Nat /\ pos >= 1 /\ pos <= Len(Program) /\ Len(Program) \in Nat
           /\ Inside => Op(pos) # "begin"
           /\ Op(pos) \in {"sys", "end"} => Inside
           /\ Op(pos) = "begin" => InTx(Program, pos + 1)
           /\ Op(pos) = "end" => ~ InTx(Program, pos + 1)
           /\ Op(pos) \in {"sys", "out"} => (InTx(Program, pos + 1) <=> Inside)
           /\ Begun(Program, pos) = Begun(Program, pos - 1) + IF Op(pos) = "begin" THEN 1 ELSE 0
           /\ Begun(Program, pos - 1) \in Nat /\ CallsOf(Program, n, pos - 1) \in Nat
           /\ CallsOf(Program, n, pos) = CallsOf(Program, n, pos - 1)
                 + IF Op(pos) = "sys" /\ Begun(Program, pos) = n THEN 1 ELSE 0
<1>0. Program \in Seq(Instr) /\ Bracketed(Program) /\ Len(Program) \in Nat
    BY ProgramFacts DEF BaseInv
<1>1. pos \in 1 .. Len(Program)
    BY DEF Positions
<1>2. /\ Inside => Op(pos) # "begin"
      /\ Op(pos) \in {"sys", "end"} => Inside
      /\ Op(pos) = "begin" => InTx(Program, pos + 1)
      /\ Op(pos) = "end" => ~ InTx(Program, pos + 1)
      /\ Op(pos) \in {"sys", "out"} => (InTx(Program, pos + 1) <=> Inside)
    BY <1>0, <1>1, InTxStep DEF Inside, Op
<1>3. PICK a \in 0 .. Len(Program) : a + 1 = pos /\ a = pos - 1 /\ a < Len(Program)
    <2>1. pos - 1 \in 0 .. Len(Program) /\ (pos - 1) + 1 = pos /\ pos - 1 < Len(Program)
        BY <1>0, <1>1
    <2>2. QED
        BY <2>1
<1>4. /\ Begun(Program, a) \in Nat /\ CallsOf(Program, n, a) \in Nat
      /\ Begun(Program, a + 1) = Begun(Program, a) + IF Program[a + 1].op = "begin" THEN 1 ELSE 0
      /\ CallsOf(Program, n, a + 1) = CallsOf(Program, n, a)
            + IF Program[a + 1].op = "sys" /\ Begun(Program, a + 1) = n THEN 1 ELSE 0
    <2>1. Program \in Seq(Instr) /\ a \in 0 .. Len(Program) /\ a < Len(Program)
        BY <1>0, <1>3
    <2>2. QED
        BY <2>1, CountFacts, Zenon
<1>5. QED
    BY <1>0, <1>1, <1>2, <1>3, <1>4 DEF Op

\* The end of the transaction that begins at the current position.
LEMMA EndFacts ==
    ASSUME BaseInv, pos \in Positions, Op(pos) = "begin"
    PROVE  /\ EndOf(pos) \in Positions /\ EndOf(pos) > pos /\ Op(EndOf(pos)) = "end"
           /\ ~ InTx(Program, EndOf(pos) + 1)
           /\ Begun(Program, EndOf(pos)) = Begun(Program, pos)
<1>0. Program \in Seq(Instr) /\ Bracketed(Program) /\ Len(Program) \in Nat /\ DOMAIN Program = Positions
    BY ProgramFacts DEF BaseInv
<1>1. PICK f \in Positions : f > pos /\ Op(f) = "end" /\ CallsBetween(Program, pos, f)
    BY <1>0 DEF Bracketed, Op
<1>2. /\ f \in Positions /\ f > pos /\ Op(f) = "end"
      /\ \A q \in pos .. f - 1 : Op(q) # "end"
    <2> SUFFICES ASSUME NEW q \in pos .. f - 1 PROVE Op(q) # "end"
        BY <1>1
    <2>1. CASE q = pos
        BY <2>1
    <2>2. CASE q # pos
        <3>1. q \in pos + 1 .. f - 1
            BY <1>1, <2>2 DEF Positions
        <3>2. QED
            BY <1>1, <3>1 DEF CallsBetween, Op
    <2>3. QED
        BY <2>1, <2>2
<1>3. PICK e : e = EndOf(pos)
    OBVIOUS
<1>4. e \in Positions /\ e > pos /\ Op(e) = "end" /\ \A q \in pos .. e - 1 : Op(q) # "end"
    BY <1>2, <1>3 DEF EndOf
<1>5. e = f
    <2>1. e \in Nat /\ f \in Nat /\ pos \in Nat
        BY <1>1, <1>4 DEF Positions
    <2>2. ~ (f \in pos .. e - 1) /\ ~ (e \in pos .. f - 1)
        BY <1>2, <1>4
    <2>3. QED
        BY <1>1, <1>4, <2>1, <2>2
<1>6. e \in 1 .. Len(Program) /\ pos \in 1 .. Len(Program)
    BY <1>4 DEF Positions
<1>7. ~ InTx(Program, e + 1)
    BY <1>0, <1>4, <1>6, InTxStep DEF Op
<1>8. Begun(Program, e) = Begun(Program, pos)
    <2>1. {q \in 1 .. e : Program[q].op = "begin"} = {q \in 1 .. pos : Program[q].op = "begin"}
        <3>1. \A q \in 1 .. e : q \in 1 .. pos \/ q \in pos + 1 .. e - 1 \/ q = e
            BY <1>4, <1>6
        <3>2. \A q \in pos + 1 .. e - 1 : Program[q].op # "begin"
            BY <1>1, <1>5 DEF CallsBetween
        <3>3. Program[e].op # "begin"
            BY <1>4 DEF Op
        <3>4. 1 .. pos \subseteq 1 .. e
            BY <1>4, <1>6
        <3>5. QED
            BY <3>1, <3>2, <3>3, <3>4
    <2>2. QED
        BY <2>1 DEF Begun
<1>9. QED
    BY <1>3, <1>4, <1>7, <1>8

\* A transaction has no calls before it begins.
LEMMA NoCallsYet ==
    ASSUME NEW c \in Seq(Instr), NEW p \in 0 .. Len(c), NEW n \in Nat, Begun(c, p) < n
    PROVE  CallsOf(c, n, p) = 0
<1>1. \A q \in 1 .. p : Begun(c, q) # n
    <2> SUFFICES ASSUME NEW q \in 1 .. p PROVE Begun(c, q) # n
        OBVIOUS
    <2>1. q \in 0 .. Len(c) /\ q <= p
        OBVIOUS
    <2>2. Begun(c, q) <= Begun(c, p) /\ Begun(c, q) \in Nat /\ Begun(c, p) \in Nat
        BY <2>1, CountOrder, CountFacts
    <2>3. QED
        BY <2>2
<1>2. {q \in 1 .. p : c[q].op = "sys" /\ Begun(c, q) = n} = {}
    BY <1>1
<1>3. QED
    BY <1>2, FS_EmptySet DEF CallsOf

\* Nothing is in a transaction before the code starts.
LEMMA AtStart == ~ InTx(Program, 1)
BY DEF InTx

-----------------------------------------------------------------------------
(***************************************************************************)
(* Which call is the current one.                                          *)
(***************************************************************************)
\* A call of a transaction: its place in the code, and what the counts say.
LEMMA CallFacts ==
    ASSUME task \in Tasks, NEW p \in Syscalls
    PROVE  /\ p \in Positions /\ p \in 1 .. Len(Program) /\ Op(p) = "sys" /\ Program[p].op = "sys"
           /\ InTx(Program, p) /\ Ktx(p) \in 0 .. 2 /\ Program[p].list \in BOOLEAN
           /\ Begun(Program, p) \in Nat /\ CallNo(Program, p) \in Nat /\ CallNo(Program, p) >= 1
           /\ CallNo(Program, p) = CallsOf(Program, Begun(Program, p), p)
<1>1. p \in Positions /\ p \in 1 .. Len(Program) /\ Op(p) = "sys" /\ Program[p].op = "sys"
    BY DEF Syscalls, Positions, Op
<1>2. Program \in Seq(Instr) /\ Bracketed(Program) /\ Len(Program) \in Nat
    BY ProgramFacts
<1>3. Ktx(p) \in 0 .. 2 /\ Program[p].list \in BOOLEAN
    BY <1>1, ProgramFacts
<1>4. InTx(Program, p)
    BY <1>1, <1>2, InTxStep
<1>5. p \in 0 .. Len(Program) /\ 0 \in 0 .. Len(Program) /\ 0 < p
    BY <1>1, <1>2
<1>6. Begun(Program, p) \in Nat /\ \A n : CallsOf(Program, n, p) \in Nat /\ CallsOf(Program, n, 0) = 0
    BY <1>2, <1>5, CountFacts
<1>7. CallsOf(Program, Begun(Program, p), 0) < CallsOf(Program, Begun(Program, p), p)
    BY <1>1, <1>2, <1>5, CallOrder
<1>8. QED
    BY <1>1, <1>3, <1>4, <1>6, <1>7 DEF CallNo

\* No two calls have the same transaction and the same number in it.
LEMMA CallsDiffer ==
    ASSUME task \in Tasks, NEW p \in Syscalls, NEW q \in Syscalls,
           Begun(Program, p) = Begun(Program, q), CallNo(Program, p) = CallNo(Program, q)
    PROVE  p = q
<1>1. Program \in Seq(Instr) /\ Len(Program) \in Nat
    BY ProgramFacts
<1>2. \A r \in {p, q} : /\ r \in 1 .. Len(Program) /\ r \in 0 .. Len(Program) /\ Program[r].op = "sys"
                        /\ CallNo(Program, r) \in Nat
                        /\ CallNo(Program, r) = CallsOf(Program, Begun(Program, r), r)
    BY <1>1, CallFacts
<1>3. PICK n : n = Begun(Program, p)
    OBVIOUS
<1>4. CallsOf(Program, n, p) = CallsOf(Program, n, q) /\ CallsOf(Program, n, p) \in Nat
    BY <1>2, <1>3
<1>5. ASSUME p < q PROVE FALSE
    <2>1. CallsOf(Program, n, p) < CallsOf(Program, n, q)
        BY <1>1, <1>2, <1>3, <1>5, CallOrder
    <2>2. QED
        BY <1>4, <2>1
<1>6. ASSUME q < p PROVE FALSE
    <2>1. CallsOf(Program, n, q) < CallsOf(Program, n, p)
        BY <1>1, <1>2, <1>3, <1>6, CallOrder
    <2>2. QED
        BY <1>4, <2>1
<1>7. p \in Nat /\ q \in Nat
    BY <1>2
<1>8. QED
    BY <1>5, <1>6, <1>7

\* The system call the task is in: it is in the transaction that has not
\* committed, behind rptr calls.
LEMMA ThisCall ==
    ASSUME BaseInv, pos \in Positions, Op(pos) = "sys", pc \notin Jit, pc \notin {"uptr", "uend"}
    PROVE  /\ pos \in Syscalls /\ Inside /\ ~ ucom /\ uptr = utail
           /\ Begun(Program, pos) = utail + 1 /\ CallNo(Program, pos) = rptr + 1
           /\ Recorded = rtail
<1>1. pos \in Syscalls
    BY DEF Syscalls
<1>2. Inside /\ Begun(Program, pos) = Begun(Program, pos - 1)
    BY PosFacts
<1>3. /\ ~ ucom /\ uptr = utail /\ Begun(Program, pos - 1) = utail + 1
      /\ rptr = CallsOf(Program, utail + 1, pos - 1)
    BY <1>2 DEF BaseInv, PlaceInv
<1>4. CallsOf(Program, utail + 1, pos) = rptr + 1
    BY <1>2, <1>3, PosFacts
<1>5. QED
    BY <1>1, <1>2, <1>3, <1>4 DEF CallNo, Recorded

\* While a call is under way that is not on record, it is the current one and
\* no other is.
LEMMA ThisIsCurrent ==
    ASSUME BaseInv, pc \in {"kernel", "kptr", "entry", "bump", "panic"}, IsSys
    PROVE  /\ pos \in Syscalls /\ Inside /\ ~ ucom /\ Recorded = rtail /\ rtail = rptr
           /\ Current(pos) /\ \A p \in Syscalls : Current(p) => p = pos
<1>1. pos \in Positions /\ Op(pos) = "sys" /\ pc \notin Jit /\ pc \notin {"uptr", "uend"}
    BY DEF BaseInv, PlaceInv, Calling, IsSys, Jit
<1>2. rtail = rptr
    BY DEF BaseInv, PlaceInv, Calling
<1>3. pos \in Syscalls /\ Inside /\ ~ ucom /\ Recorded = rtail /\ Current(pos)
    BY <1>1, <1>2, ThisCall DEF Current
<1>4. ASSUME NEW p \in Syscalls, Current(p) PROVE p = pos
    BY <1>3, <1>4, CallsDiffer DEF BaseInv, Current
<1>5. QED
    BY <1>2, <1>3, <1>4

\* Whatever is copied into the replay cache or out of it lies inside.
LEMMA EntriesInside ==
    ASSUME BaseInv
    PROVE  /\ Writing => rtail + 1 \in DOMAIN entries
           /\ Reading => rptr + 1 \in DOMAIN entries
<1>0. /\ DOMAIN entries = 1 .. ReplaySize /\ rptr \in Nat /\ rtail \in Nat /\ ReplaySize \in Nat
    BY ReplayAssumption DEF BaseInv, Types, ReplayAssumption
<1>1. ASSUME Writing PROVE rtail + 1 \in DOMAIN entries
    <2>1. rtail < ReplaySize
        BY <1>1 DEF BaseInv, PlaceInv, EntryFits
    <2>2. QED
        BY <1>0, <2>1
<1>2. ASSUME Reading PROVE rptr + 1 \in DOMAIN entries
    <2>1. /\ pos \in Syscalls /\ Begun(Program, pos) = utail + 1
          /\ CallNo(Program, pos) = rptr + 1 /\ Recorded = rtail
        BY <1>2, ThisCall DEF Reading, At, Jit
    <2>2. rptr + 1 <= rtail /\ Returns(pos)
        BY <1>0, <1>2 DEF Reading, HasEntry
    <2>3. rptr + 1 <= ReplaySize
        BY <2>1, <2>2 DEF BaseInv, FitInv
    <2>4. QED
        BY <1>0, <2>3
<1>3. QED
    BY <1>1, <1>2

-----------------------------------------------------------------------------
(***************************************************************************)
(* The steps keep types, places, the kernel TxCache and what fits.         *)
(***************************************************************************)
\* Every step keeps the types.
LEMMA TypeStep == BaseInv /\ [Next]_vars => Types'
<1> SUFFICES ASSUME BaseInv, [Next]_vars PROVE Types'
    OBVIOUS
<1>0. Types /\ PlaceInv /\ KernelInv /\ task' = task
    BY DEF BaseInv, Next, vars
<1>p. /\ Len(Program) \in Nat /\ MaxCrashes \in Nat
      /\ \A p \in Positions : Ktx(p) \in 0 .. 2
    BY ProgramFacts DEF BaseInv
<1>q. /\ Program' = Program /\ MaxCrashes' = MaxCrashes /\ Positions' = Positions /\ KernelSlots' = KernelSlots
      /\ ReplaySize \in Nat
    BY <1>0, ReplayAssumption DEF Program, MaxCrashes, Positions, KernelSlots, ReplayAssumption
<1>r. /\ pc \in {"begin", "uptr", "uend", "kernel", "kptr", "bump", "lreset", "commit"} =>
            pos \in Positions /\ pos \in Nat /\ pos + 1 \in 1 .. Len(Program) + 1 /\ Ktx(pos) \in 0 .. 2
      /\ pc = "kernel" => ktail <= 2 * crashes + knum - 1
      /\ pc = "kptr" => knum <= Ktx(pos)
    BY <1>0, <1>p DEF PlaceInv, KernelInv, EntryFits, Calling, Positions
<1> USE DEF userCache, kernelCache, replayCache, locals, history
<1>1. ASSUME BypassTx PROVE Types'
    BY <1>0, <1>p, <1>q, <1>r, <1>1, EndFacts DEF BypassTx, Types, At, Positions, PCs
<1>2. ASSUME UserTxStart PROVE Types'
    BY <1>0, <1>p, <1>q, <1>r, <1>2 DEF UserTxStart, Types, At, Positions, PCs, HasEntry, EntryFits
<1>3. ASSUME BeginTx PROVE Types'
    BY <1>0, <1>p, <1>q, <1>r, <1>3 DEF BeginTx, Types, At, Positions, PCs, HasEntry, EntryFits
<1>4. ASSUME CommitTx PROVE Types'
    BY <1>0, <1>p, <1>q, <1>r, <1>4 DEF CommitTx, Types, At, Positions, PCs, HasEntry, EntryFits
<1>5. ASSUME AdvanceUserPtr PROVE Types'
    BY <1>0, <1>p, <1>q, <1>r, <1>5 DEF AdvanceUserPtr, Types, At, Positions, PCs, HasEntry, EntryFits
<1>6. ASSUME UserTxEnd PROVE Types'
    BY <1>0, <1>p, <1>q, <1>r, <1>6 DEF UserTxEnd, Types, At, Positions, PCs, HasEntry, EntryFits
<1>7. ASSUME BypassSyscall PROVE Types'
    <2>1. Returns(pos) => entries[rptr + 1] \in Value \union {NoValue}
        BY <1>0, <1>7, EntriesInside DEF BypassSyscall, Reading, Types
    <2>2. pos \in Positions /\ pos' \in 1 .. Len(Program) + 1 /\ rptr' \in Nat
        BY <1>0, <1>p, <1>7 DEF BypassSyscall, At, Positions, Types
    <2>3. view' \in [Positions -> Value \union {NoValue}]
        BY <1>0, <1>7, <2>1, <2>2 DEF BypassSyscall, Types
    <2>4. QED
        BY <1>0, <1>q, <1>7, <2>2, <2>3 DEF BypassSyscall, Types
<1>8. ASSUME EnterSyscall PROVE Types'
    BY <1>0, <1>p, <1>q, <1>r, <1>8 DEF EnterSyscall, Types, At, Positions, PCs, HasEntry, EntryFits
<1>9. ASSUME EnterOutside PROVE Types'
    BY <1>0, <1>p, <1>q, <1>r, <1>9 DEF EnterOutside, Types, At, Positions, PCs, HasEntry, EntryFits
<1>10. ASSUME BypassKernelTx PROVE Types'
    <2>1. kptr + 1 \in KernelSlots
        BY <1>0, <1>p, <1>10 DEF BypassKernelTx, Types, KernelSlots
    <2>2. ret' \in Value \union {NoValue}
        BY <1>0, <1>10, <2>1 DEF BypassKernelTx, Types
    <2>3. knum' \in 1 .. 3 /\ kptr' \in Nat
        BY <1>0, <1>p, <1>r, <1>10 DEF BypassKernelTx, Types
    <2>4. QED
        BY <1>0, <1>q, <1>10, <2>2, <2>3 DEF BypassKernelTx, Types
<1>11. ASSUME NEW v \in Value, RunKernelTx(v) PROVE Types'
    <2>1. ktail + 1 \in KernelSlots /\ pos \in Positions /\ knum \in 1 .. 2
        BY <1>0, <1>p, <1>r, <1>11 DEF RunKernelTx, Types, KernelSlots
    <2>2. kruns' \in [Positions -> [1 .. 2 -> Nat]]
        BY <1>0, <1>11, <2>1, SMTT(20) DEF RunKernelTx, Types
    <2>3. kcache' \in [KernelSlots -> Value \union {NoValue}]
        BY <1>0, <1>11, <2>1 DEF RunKernelTx, Types
    <2>4. QED
        BY <1>0, <1>q, <1>11, <2>1, <2>2, <2>3 DEF RunKernelTx, Types, PCs
<1>12. ASSUME AdvanceKernelPtr PROVE Types'
    <2>1. kptr' \in Nat /\ knum' \in 1 .. 3
        BY <1>0, <1>p, <1>r, <1>12 DEF AdvanceKernelPtr, Types, KernelSlots
    <2>2. QED
        BY <1>0, <1>q, <1>12, <2>1 DEF AdvanceKernelPtr, Types, PCs
<1>13. ASSUME ListOp PROVE Types'
    <2>1. pc' \in PCs /\ listDone' \in BOOLEAN /\ pos \in Positions
        BY <1>0, <1>r, <1>13 DEF ListOp, Types, PCs
    <2>2. lruns' \in [Positions -> Nat]
        BY <1>0, <1>13, <2>1, SMTT(20) DEF ListOp, Types
    <2>3. QED
        BY <1>0, <1>q, <1>13, <2>1, <2>2 DEF ListOp, Types
<1>14. ASSUME WriteEntry PROVE Types'
    BY <1>0, <1>p, <1>q, <1>r, <1>14 DEF WriteEntry, Types, At, Positions, PCs, HasEntry, EntryFits
<1>15. ASSUME ReplayCacheFull PROVE Types'
    BY <1>0, <1>p, <1>q, <1>r, <1>15 DEF ReplayCacheFull, Types, At, Positions, PCs, HasEntry, EntryFits
<1>16. ASSUME BumpEntryTail PROVE Types'
    <2>1. rtail' \in Nat /\ pc' \in PCs /\ pos \in Positions
        BY <1>0, <1>r, <1>16 DEF BumpEntryTail, Types, PCs
    <2>2. first' \in [Positions -> Value \union {NoValue}]
        BY <1>0, <1>16, <2>1 DEF BumpEntryTail, Types
    <2>3. QED
        BY <1>0, <1>q, <1>16, <2>1, <2>2 DEF BumpEntryTail, Types
<1>17. ASSUME ResetKernelCache PROVE Types'
    BY <1>0, <1>p, <1>q, <1>r, <1>17 DEF ResetKernelCache, Types, At, Positions, PCs, HasEntry, EntryFits
<1>18. ASSUME ResetListTx PROVE Types'
    <2>1. pc' \in PCs /\ pos' \in 1 .. Len(Program) + 1 /\ listDone' \in BOOLEAN
        BY <1>0, <1>p, <1>r, <1>18 DEF ResetListTx, Types, PCs, Positions
    <2>2. QED
        BY <1>0, <1>q, <1>18, <2>1 DEF ResetListTx, Types
<1>19. ASSUME CommitEntry PROVE Types'
    <2>1. rptr' \in Nat /\ pc' \in PCs /\ pos \in Positions /\ pos' \in 1 .. Len(Program) + 1
        BY <1>0, <1>r, <1>19 DEF CommitEntry, Types, PCs
    <2>2. view' \in [Positions -> Value \union {NoValue}]
        BY <1>0, <1>19, <2>1 DEF CommitEntry, Types
    <2>3. QED
        BY <1>0, <1>q, <1>19, <2>1, <2>2 DEF CommitEntry, Types
<1>20. ASSUME Crash PROVE Types'
    <2>1. pos' \in 1 .. Len(Program) + 1 /\ view' \in [Positions -> Value \union {NoValue}]
        BY <1>p, <1>20 DEF Crash, NoView
    <2>2. crashes' \in 0 .. MaxCrashes
        BY <1>0, <1>p, <1>20 DEF Crash, Types
    <2>3. QED
        BY <1>0, <1>q, <1>20, <2>1, <2>2 DEF Crash, Types, PCs
<1>21. ASSUME JitCheckReplay PROVE Types'
    BY <1>0, <1>p, <1>q, <1>r, <1>21 DEF JitCheckReplay, Types, PCs
<1>22. ASSUME JitResetKernelCache PROVE Types'
    BY <1>0, <1>p, <1>q, <1>r, <1>22 DEF JitResetKernelCache, Types, At, Positions, PCs, HasEntry, EntryFits
<1>23. ASSUME JitResetListTx PROVE Types'
    BY <1>0, <1>p, <1>q, <1>r, <1>23 DEF JitResetListTx, Types, At, Positions, PCs, HasEntry, EntryFits
<1>24. ASSUME UserRecovery PROVE Types'
    BY <1>0, <1>p, <1>q, <1>r, <1>24 DEF UserRecovery, Types, PCs
<1>25. ASSUME UserRestart PROVE Types'
    BY <1>0, <1>p, <1>q, <1>r, <1>25 DEF UserRestart, Types, At, Positions, PCs, HasEntry, EntryFits
<1>u. CASE UNCHANGED vars
    BY <1>0, <1>q, <1>u DEF vars, Types
<1>z. QED
    BY <1>u, <1>1, <1>2, <1>3, <1>4, <1>5, <1>6, <1>7, <1>8, <1>9, <1>10, <1>11, <1>12, <1>13, <1>14, <1>15, <1>16, <1>17, <1>18, <1>19, <1>20, <1>21, <1>22, <1>23, <1>24, <1>25 DEF Next, Step

\* Every step keeps where the task is.
LEMMA PlaceStep == BaseInv /\ [Next]_vars => PlaceInv'
<1> SUFFICES ASSUME BaseInv, [Next]_vars PROVE PlaceInv'
    OBVIOUS
<1>0. Types /\ PlaceInv /\ task' = task
    BY DEF BaseInv, Next, vars
<1>p. Program \in Seq(Instr) /\ Len(Program) \in Nat
    BY ProgramFacts DEF BaseInv
<1>q. /\ Program' = Program /\ Positions' = Positions /\ (Inside' <=> InTx(Program, pos'))
      /\ (Inside <=> InTx(Program, pos)) /\ Op(pos)' = Program[pos'].op /\ Op(pos) = Program[pos].op
      /\ (IsSys' <=> Program[pos'].op = "sys") /\ \A p : (TxOf(p) = Begun(Program, p))
    BY <1>0, TxIs DEF Program, Positions, Inside, Op, IsSys
<1>w. (Writing <=> pc = "bump" /\ Program[pos].res) /\ (Writing' <=> pc' = "bump" /\ Program[pos'].res) /\ Returns(pos) = Program[pos].res
    BY <1>q DEF Writing, Returns
<1>s. ~ InTx(Program, 1) /\ Begun(Program, 0) = 0
    BY <1>p, AtStart, CountFacts, 0 \in 0 .. Len(Program)
<1>t. /\ uptr \in Nat /\ utail \in Nat /\ rptr \in Nat /\ rtail \in Nat /\ ReplaySize \in Nat
      /\ ucom \in BOOLEAN /\ pos \in Nat
    BY <1>0, ReplayAssumption DEF Types, ReplayAssumption
<1> USE DEF userCache, kernelCache, replayCache, locals, history
<1>1. ASSUME BypassTx PROVE PlaceInv'
    <2>1. pos \in Positions /\ Op(pos) = "begin" /\ ~ Inside /\ Begun(Program, pos - 1) = uptr
        BY <1>0, <1>1, PosFacts DEF BypassTx, At, PlaceInv, Jit
    <2>2. PICK e \in Nat : e = EndOf(pos)
        BY <2>1, EndFacts DEF Positions
    <2>3. pos' = e + 1 /\ pos' - 1 = e /\ ~ InTx(Program, e + 1) /\ Begun(Program, e) = uptr + 1
        BY <1>t, <1>1, <2>1, <2>2, EndFacts, PosFacts, SMTT(20) DEF BypassTx
    <2>4. /\ pc = "run" /\ pc' = "run" /\ uptr' = uptr + 1 /\ utail' = utail /\ uptr < utail
          /\ ucom' = ucom /\ rtail' = rtail /\ ~ Inside' /\ Begun(Program', pos' - 1) = uptr'
        BY <1>q, <1>w, <1>1, <2>3 DEF BypassTx, At
    <2>5. ucom' => rtail' = 0
        BY <1>0, <2>4 DEF PlaceInv
    <2>6. QED
        BY <1>t, <1>w, <2>4, <2>5 DEF PlaceInv, Jit, Calling
<1>2. ASSUME UserTxStart PROVE PlaceInv'
    <2>1. pos \in Positions /\ Op(pos) = "begin" /\ ~ Inside /\ pc = "run" /\ uptr = utail
        BY <1>0, <1>t, <1>2, PosFacts DEF UserTxStart, At, PlaceInv, Jit
    <2>9. QED
        BY <1>0, <1>q, <1>w, <1>t, <1>2, <2>1 DEF UserTxStart, PlaceInv, Jit, Calling
<1>3. ASSUME BeginTx PROVE PlaceInv'
    <2>1. pos \in Positions
        BY <1>0, <1>3 DEF BeginTx, At, PlaceInv, Calling
    <2>2. pos' = pos + 1 /\ pos' - 1 = pos
        BY <1>t, <1>3, <2>1 DEF BeginTx, Positions
    <2>3. Begun(Program, pos - 1) = utail /\ ~ Inside
        BY <1>0, <1>3, <2>1, PosFacts DEF BeginTx, PlaceInv, Jit
    <2>4. CallsOf(Program, utail + 1, pos - 1) = 0
        BY <1>p, <1>t, <2>1, <2>3, NoCallsYet DEF Positions
    <2>9. QED
        BY <1>0, <1>q, <1>w, <1>t, <1>3, <2>1, <2>2, PosFacts, <2>3, <2>4 DEF BeginTx, PlaceInv, Jit, Calling, HasEntry, IsSys, At
<1>4. ASSUME CommitTx PROVE PlaceInv'
    <2>1. pos \in Positions /\ Op(pos) = "end" /\ Inside /\ pc = "run"
        BY <1>0, <1>4, PosFacts DEF CommitTx, At
    <2>2. Begun(Program, pos) = utail + 1 /\ uptr = utail
        BY <1>0, <2>1, PosFacts DEF PlaceInv, Jit
    <2>9. QED
        BY <1>0, <1>q, <1>w, <1>t, <1>4, <2>1, <2>2 DEF CommitTx, PlaceInv, Jit, Calling
<1>5. ASSUME AdvanceUserPtr PROVE PlaceInv'
    BY <1>0, <1>q, <1>w, <1>t, <1>5 DEF AdvanceUserPtr, PlaceInv, Jit, Calling, HasEntry, IsSys, At
<1>6. ASSUME UserTxEnd PROVE PlaceInv'
    <2>1. pos \in Positions
        BY <1>0, <1>6 DEF UserTxEnd, At, PlaceInv, Calling
    <2>2. pos' = pos + 1 /\ pos' - 1 = pos
        BY <1>t, <1>6, <2>1 DEF UserTxEnd, Positions
    <2>9. QED
        BY <1>0, <1>q, <1>w, <1>t, <1>6, <2>1, <2>2, PosFacts DEF UserTxEnd, PlaceInv, Jit, Calling, HasEntry, IsSys, At
<1>7. ASSUME BypassSyscall PROVE PlaceInv'
    <2>1. pos \in Positions
        BY <1>0, <1>7 DEF BypassSyscall, At, PlaceInv, Calling
    <2>2. pos' = pos + 1 /\ pos' - 1 = pos
        BY <1>t, <1>7, <2>1 DEF BypassSyscall, Positions
    <2>9. QED
        BY <1>0, <1>q, <1>w, <1>t, <1>7, <2>1, <2>2, PosFacts DEF BypassSyscall, PlaceInv, Jit, Calling, HasEntry, IsSys, At
<1>8. ASSUME EnterSyscall PROVE PlaceInv'
    <2>1. pos \in Positions /\ Op(pos) = "sys" /\ Inside /\ pc = "run" /\ rtail = rptr
        BY <1>0, <1>t, <1>8, PosFacts DEF EnterSyscall, At, PlaceInv, Jit, HasEntry
    <2>9. QED
        BY <1>0, <1>q, <1>w, <1>t, <1>8, <2>1 DEF EnterSyscall, PlaceInv, Jit, Calling, IsSys
<1>9. ASSUME EnterOutside PROVE PlaceInv'
    BY <1>0, <1>q, <1>w, <1>t, <1>9 DEF EnterOutside, PlaceInv, Jit, Calling, HasEntry, IsSys, At
<1>10. ASSUME BypassKernelTx PROVE PlaceInv'
    BY <1>0, <1>q, <1>w, <1>t, <1>10 DEF BypassKernelTx, PlaceInv, Jit, Calling, HasEntry, IsSys, At
<1>11. ASSUME NEW v \in Value, RunKernelTx(v) PROVE PlaceInv'
    BY <1>0, <1>q, <1>w, <1>t, <1>11 DEF RunKernelTx, PlaceInv, Jit, Calling, HasEntry, IsSys, At
<1>12. ASSUME AdvanceKernelPtr PROVE PlaceInv'
    BY <1>0, <1>q, <1>w, <1>t, <1>12 DEF AdvanceKernelPtr, PlaceInv, Jit, Calling, HasEntry, IsSys, At
<1>13. ASSUME ListOp PROVE PlaceInv'
    BY <1>0, <1>q, <1>w, <1>t, <1>13 DEF ListOp, PlaceInv, Jit, Calling, HasEntry, IsSys, At
<1>14. ASSUME WriteEntry PROVE PlaceInv'
    BY <1>0, <1>q, <1>w, <1>t, <1>14 DEF WriteEntry, PlaceInv, Jit, Calling, IsSys, EntryFits
<1>15. ASSUME ReplayCacheFull PROVE PlaceInv'
    BY <1>0, <1>q, <1>w, <1>t, <1>15 DEF ReplayCacheFull, PlaceInv, Jit, Calling, HasEntry, IsSys, At
<1>16. ASSUME BumpEntryTail PROVE PlaceInv'
    <2>1. pos \in Positions /\ Op(pos) = "sys" /\ Inside /\ rtail = rptr
        BY <1>0, <1>t, <1>16, PosFacts DEF BumpEntryTail, PlaceInv, Calling, IsSys
    <2>9. QED
        BY <1>0, <1>q, <1>w, <1>t, <1>16, <2>1 DEF BumpEntryTail, PlaceInv, Jit, Calling, IsSys
<1>17. ASSUME ResetKernelCache PROVE PlaceInv'
    BY <1>0, <1>q, <1>w, <1>t, <1>17 DEF ResetKernelCache, PlaceInv, Jit, Calling, HasEntry, IsSys, At
<1>18. ASSUME ResetListTx PROVE PlaceInv'
    <2>1. pos \in Positions /\ Op(pos) \in {"sys", "out"} /\ pc = "lreset"
        BY <1>0, <1>18 DEF ResetListTx, PlaceInv, Calling
    <2>2. CASE Op(pos) = "sys"
        BY <1>0, <1>q, <1>w, <1>t, <1>18, <2>1, <2>2 DEF ResetListTx, PlaceInv, Jit, Calling, IsSys
    <2>3. CASE Op(pos) = "out"
        <3>1. pos' = pos + 1 /\ pos' - 1 = pos
            BY <1>t, <1>18, <2>1, <2>3 DEF ResetListTx, Positions
        <3>2. QED
            BY <1>0, <1>q, <1>w, <1>t, <1>18, <2>1, <2>3, <3>1, PosFacts DEF ResetListTx, PlaceInv, Jit, Calling
    <2>9. QED
        BY <2>1, <2>2, <2>3
<1>19. ASSUME CommitEntry PROVE PlaceInv'
    <2>1. pos \in Positions
        BY <1>0, <1>19 DEF CommitEntry, At, PlaceInv, Calling
    <2>2. pos' = pos + 1 /\ pos' - 1 = pos
        BY <1>t, <1>19, <2>1 DEF CommitEntry, Positions
    <2>9. QED
        BY <1>0, <1>q, <1>w, <1>t, <1>19, <2>1, <2>2, PosFacts DEF CommitEntry, PlaceInv, Jit, Calling, HasEntry, IsSys, At
<1>20. ASSUME Crash PROVE PlaceInv'
    BY <1>0, <1>q, <1>w, <1>t, <1>20 DEF Crash, PlaceInv, Jit, Calling, HasEntry, IsSys, At
<1>21. ASSUME JitCheckReplay PROVE PlaceInv'
    BY <1>0, <1>q, <1>w, <1>t, <1>21 DEF JitCheckReplay, PlaceInv, Jit, Calling, HasEntry, IsSys, At
<1>22. ASSUME JitResetKernelCache PROVE PlaceInv'
    BY <1>0, <1>q, <1>w, <1>t, <1>22 DEF JitResetKernelCache, PlaceInv, Jit, Calling, HasEntry, IsSys, At
<1>23. ASSUME JitResetListTx PROVE PlaceInv'
    BY <1>0, <1>q, <1>w, <1>t, <1>23 DEF JitResetListTx, PlaceInv, Jit, Calling, HasEntry, IsSys, At
<1>24. ASSUME UserRecovery PROVE PlaceInv'
    BY <1>0, <1>q, <1>w, <1>t, <1>24 DEF UserRecovery, PlaceInv, Jit, Calling, HasEntry, IsSys, At
<1>25. ASSUME UserRestart PROVE PlaceInv'
    BY <1>0, <1>q, <1>w, <1>s, <1>t, <1>25 DEF UserRestart, PlaceInv, Jit, Calling
<1>u. CASE UNCHANGED vars
    <2>1. /\ pc' = pc /\ pos' = pos /\ task' = task /\ uptr' = uptr /\ utail' = utail /\ ucom' = ucom
          /\ rptr' = rptr /\ rtail' = rtail
        BY <1>u DEF vars
    <2>2. QED
        BY <1>0, <2>1 DEF PlaceInv, Program, Positions, Inside, Op, HasEntry, EntryFits, IsSys, Writing, Returns
<1>z. QED
    BY <1>u, <1>1, <1>2, <1>3, <1>4, <1>5, <1>6, <1>7, <1>8, <1>9, <1>10, <1>11, <1>12, <1>13, <1>14, <1>15, <1>16, <1>17, <1>18, <1>19, <1>20, <1>21, <1>22, <1>23, <1>24, <1>25 DEF Next, Step

\* Every step keeps the state of the kernel TxCache.
LEMMA KernelStep == BaseInv /\ [Next]_vars => KernelInv'
<1> SUFFICES ASSUME BaseInv, [Next]_vars PROVE KernelInv'
    OBVIOUS
<1>0. KernelInv /\ task' = task
    BY DEF BaseInv, Next, vars
<1>q. /\ Program' = Program /\ Op(pos)' = Program[pos'].op /\ Op(pos) = Program[pos].op
      /\ Ktx(pos)' = Program[pos'].ktx /\ Ktx(pos) = Program[pos].ktx
      /\ (IsSys' <=> Program[pos'].op = "sys") /\ (IsSys <=> Program[pos].op = "sys")
    BY <1>0 DEF Program, Op, Ktx, IsSys
<1>r. /\ pos \in Positions => Ktx(pos) \in 0 .. 2
      /\ pc \in Calling => pos \in Positions /\ Op(pos) \in {"sys", "out"}
      /\ pc \in {"entry", "bump", "commit", "panic"} => IsSys
    BY ProgramFacts DEF BaseInv, PlaceInv, Calling
<1>t. ktail \in Nat /\ kptr \in Nat /\ knum \in 1 .. 3 /\ crashes \in Nat /\ listDone \in BOOLEAN
    BY ProgramFacts DEF BaseInv, Types, KernelSlots
<1> USE DEF userCache, kernelCache, replayCache, locals, history
<1>1. ASSUME BypassTx PROVE KernelInv'
    BY <1>0, <1>q, <1>r, <1>t, <1>1 DEF BypassTx, KernelInv, Calling, At
<1>2. ASSUME UserTxStart PROVE KernelInv'
    BY <1>0, <1>q, <1>r, <1>t, <1>2 DEF UserTxStart, KernelInv, Calling, At
<1>3. ASSUME BeginTx PROVE KernelInv'
    BY <1>0, <1>q, <1>r, <1>t, <1>3 DEF BeginTx, KernelInv, Calling, At
<1>4. ASSUME CommitTx PROVE KernelInv'
    BY <1>0, <1>q, <1>r, <1>t, <1>4 DEF CommitTx, KernelInv, Calling, At
<1>5. ASSUME AdvanceUserPtr PROVE KernelInv'
    BY <1>0, <1>q, <1>r, <1>t, <1>5 DEF AdvanceUserPtr, KernelInv, Calling, At
<1>6. ASSUME UserTxEnd PROVE KernelInv'
    BY <1>0, <1>q, <1>r, <1>t, <1>6 DEF UserTxEnd, KernelInv, Calling, At
<1>7. ASSUME BypassSyscall PROVE KernelInv'
    BY <1>0, <1>q, <1>r, <1>t, <1>7 DEF BypassSyscall, KernelInv, Calling, At
<1>8. ASSUME EnterSyscall PROVE KernelInv'
    BY <1>0, <1>q, <1>r, <1>t, <1>8 DEF EnterSyscall, KernelInv, Calling, At
<1>9. ASSUME EnterOutside PROVE KernelInv'
    <2>0. pc = "run" /\ pos \in Positions /\ Op(pos) = "out" /\ pos' = pos
        BY <1>9 DEF EnterOutside, At
    <2>a. Ktx(pos) \in 0 .. 2 /\ ~ IsSys'
        BY <1>q, <1>r, <2>0
    <2>1. ktail <= 2 * crashes /\ 0 <= Ktx(pos)
        BY <1>0, <2>0, <2>a DEF KernelInv
    <2>2. pc' = "kernel" /\ knum' = 1 /\ ktail' = ktail /\ crashes' = crashes /\ Ktx(pos)' = Ktx(pos)
        BY <1>q, <1>9 DEF EnterOutside
    <2>3. QED
        BY <1>q, <1>r, <1>t, <1>9, <2>a, <2>1, <2>2 DEF KernelInv
<1>10. ASSUME BypassKernelTx PROVE KernelInv'
    BY <1>0, <1>q, <1>r, <1>t, <1>10 DEF BypassKernelTx, KernelInv, Calling, At
<1>11. ASSUME NEW v \in Value, RunKernelTx(v) PROVE KernelInv'
    BY <1>0, <1>q, <1>r, <1>t, <1>11 DEF RunKernelTx, KernelInv, Calling, At
<1>12. ASSUME AdvanceKernelPtr PROVE KernelInv'
    BY <1>0, <1>q, <1>r, <1>t, <1>12 DEF AdvanceKernelPtr, KernelInv, Calling, At
<1>13. ASSUME ListOp PROVE KernelInv'
    BY <1>0, <1>q, <1>r, <1>t, <1>13 DEF ListOp, KernelInv, Calling, At
<1>14. ASSUME WriteEntry PROVE KernelInv'
    BY <1>0, <1>q, <1>r, <1>t, <1>14 DEF WriteEntry, KernelInv, Calling, At
<1>15. ASSUME ReplayCacheFull PROVE KernelInv'
    BY <1>0, <1>q, <1>r, <1>t, <1>15 DEF ReplayCacheFull, KernelInv, Calling, At
<1>16. ASSUME BumpEntryTail PROVE KernelInv'
    BY <1>0, <1>q, <1>r, <1>t, <1>16 DEF BumpEntryTail, KernelInv, Calling, At
<1>17. ASSUME ResetKernelCache PROVE KernelInv'
    BY <1>0, <1>q, <1>r, <1>t, <1>17 DEF ResetKernelCache, KernelInv, Calling, At
<1>18. ASSUME ResetListTx PROVE KernelInv'
    BY <1>0, <1>q, <1>r, <1>t, <1>18 DEF ResetListTx, KernelInv, Calling, At
<1>19. ASSUME CommitEntry PROVE KernelInv'
    BY <1>0, <1>q, <1>r, <1>t, <1>19 DEF CommitEntry, KernelInv, Calling, At
<1>20. ASSUME Crash PROVE KernelInv'
    BY <1>0, <1>q, <1>r, <1>t, <1>20 DEF Crash, KernelInv, Calling, At
<1>21. ASSUME JitCheckReplay PROVE KernelInv'
    BY <1>0, <1>q, <1>r, <1>t, <1>21 DEF JitCheckReplay, KernelInv, Calling, At
<1>22. ASSUME JitResetKernelCache PROVE KernelInv'
    BY <1>0, <1>q, <1>r, <1>t, <1>22 DEF JitResetKernelCache, KernelInv, Calling, At
<1>23. ASSUME JitResetListTx PROVE KernelInv'
    BY <1>0, <1>q, <1>r, <1>t, <1>23 DEF JitResetListTx, KernelInv, Calling, At
<1>24. ASSUME UserRecovery PROVE KernelInv'
    BY <1>0, <1>q, <1>r, <1>t, <1>24 DEF UserRecovery, KernelInv, Calling, At
<1>25. ASSUME UserRestart PROVE KernelInv'
    BY <1>0, <1>q, <1>r, <1>t, <1>25 DEF UserRestart, KernelInv, Calling, At
<1>u. CASE UNCHANGED vars
    <2>1. /\ pc' = pc /\ pos' = pos /\ ktail' = ktail /\ kptr' = kptr /\ knum' = knum
          /\ crashes' = crashes /\ listDone' = listDone
        BY <1>u DEF vars
    <2>2. QED
        BY <1>0, <1>q, <2>1 DEF KernelInv
<1>z. QED
    BY <1>u, <1>1, <1>2, <1>3, <1>4, <1>5, <1>6, <1>7, <1>8, <1>9, <1>10, <1>11, <1>12, <1>13, <1>14, <1>15, <1>16, <1>17, <1>18, <1>19, <1>20, <1>21, <1>22, <1>23, <1>24, <1>25 DEF Next, Step

\* Every step keeps the results on record inside the replay cache: the tail
\* grows behind a call that has a result only where the result fits.
LEMMA FitStep == BaseInv /\ [Next]_vars => FitInv'
<1> SUFFICES ASSUME BaseInv, [Next]_vars, NEW p \in Syscalls', Returns(p)',
                    (Begun(Program, p) = utail + 1 /\ CallNo(Program, p) <= Recorded)'
             PROVE  CallNo(Program, p)' <= ReplaySize
    BY DEF FitInv
<1>0. FitInv /\ PlaceInv /\ task' = task /\ task \in Tasks
    BY DEF BaseInv, Next, vars
<1>q. Program' = Program /\ Syscalls' = Syscalls /\ (Returns(p)' <=> Returns(p))
    BY <1>0 DEF Program, Positions, Syscalls, Op, Returns
<1>g. /\ p \in Syscalls /\ Returns(p) /\ Begun(Program, p) = utail' + 1
      /\ CallNo(Program, p) <= Recorded' /\ CallNo(Program, p)' = CallNo(Program, p)
    BY <1>q
<1>c. CallNo(Program, p) \in Nat /\ ReplaySize \in Nat
    BY <1>0, <1>g, CallFacts, ReplayAssumption DEF ReplayAssumption
<1>t. rtail \in Nat /\ rptr \in Nat /\ utail \in Nat
    BY DEF BaseInv, Types
<1>k. ASSUME utail' = utail, Recorded' = Recorded PROVE CallNo(Program, p) <= ReplaySize
    BY <1>0, <1>g, <1>k DEF FitInv
<1>n. ASSUME Recorded' = 0 PROVE CallNo(Program, p) <= ReplaySize
    BY <1>c, <1>g, <1>n
<1> USE DEF userCache, kernelCache, replayCache, locals, history
<1>3. ASSUME BeginTx PROVE CallNo(Program, p) <= ReplaySize
    BY <1>0, <1>3, <1>k DEF BeginTx, Recorded, PlaceInv
<1>4. ASSUME CommitTx PROVE CallNo(Program, p) <= ReplaySize
    BY <1>4, <1>n DEF CommitTx, Recorded
<1>6. ASSUME UserTxEnd PROVE CallNo(Program, p) <= ReplaySize
    BY <1>6, <1>n DEF UserTxEnd, Recorded
<1>16. ASSUME BumpEntryTail PROVE CallNo(Program, p) <= ReplaySize
    <2>1. pc = "bump" /\ IsSys /\ rtail' = rtail + 1 /\ utail' = utail /\ ucom' = ucom
        BY <1>0, <1>16 DEF BumpEntryTail, PlaceInv, Calling
    <2>2. /\ pos \in Syscalls /\ ~ ucom /\ Recorded = rtail /\ Current(pos)
          /\ \A x \in Syscalls : Current(x) => x = pos
        BY <2>1, ThisIsCurrent
    <2>3. Recorded' = rtail + 1
        BY <2>1, <2>2 DEF Recorded
    <2>4. CASE CallNo(Program, p) <= rtail
        BY <1>0, <1>g, <2>1, <2>2, <2>4 DEF FitInv
    <2>5. CASE CallNo(Program, p) = rtail + 1
        <3>1. p = pos
            BY <1>g, <2>1, <2>2, <2>5 DEF Current
        <3>2. rtail < ReplaySize
            BY <1>0, <1>g, <2>1, <3>1 DEF PlaceInv, Writing, EntryFits
        <3>3. QED
            BY <1>c, <1>t, <2>5, <3>2
    <2>6. QED
        BY <1>c, <1>g, <1>t, <2>3, <2>4, <2>5
<1>24. ASSUME UserRecovery PROVE CallNo(Program, p) <= ReplaySize
    <2>1. utail' = utail /\ ucom' = ucom /\ rtail' = IF ucom THEN 0 ELSE rtail
        BY <1>24 DEF UserRecovery
    <2>2. QED
        BY <1>k, <2>1 DEF Recorded
<1>o. ASSUME UNCHANGED <<utail, ucom, rtail>> PROVE CallNo(Program, p) <= ReplaySize
    BY <1>k, <1>o DEF Recorded
<1>s. \/ BeginTx \/ CommitTx \/ UserTxEnd \/ BumpEntryTail \/ UserRecovery
      \/ UNCHANGED <<utail, ucom, rtail>>
    <2>1. ASSUME \/ BypassTx \/ UserTxStart \/ AdvanceUserPtr \/ BypassSyscall \/ EnterSyscall
                 \/ EnterOutside \/ BypassKernelTx \/ (\E v \in Value : RunKernelTx(v))
          PROVE  UNCHANGED <<utail, ucom, rtail>>
        BY <2>1 DEF BypassTx, UserTxStart, AdvanceUserPtr, BypassSyscall, EnterSyscall, EnterOutside,
                    BypassKernelTx, RunKernelTx
    <2>2. ASSUME \/ AdvanceKernelPtr \/ ListOp \/ WriteEntry \/ ReplayCacheFull \/ ResetKernelCache
                 \/ ResetListTx \/ CommitEntry
          PROVE  UNCHANGED <<utail, ucom, rtail>>
        BY <2>2 DEF AdvanceKernelPtr, ListOp, WriteEntry, ReplayCacheFull, ResetKernelCache, ResetListTx, CommitEntry
    <2>3. ASSUME \/ Crash \/ JitCheckReplay \/ JitResetKernelCache \/ JitResetListTx \/ UserRestart
                 \/ UNCHANGED vars
          PROVE  UNCHANGED <<utail, ucom, rtail>>
        BY <2>3 DEF Crash, JitCheckReplay, JitResetKernelCache, JitResetListTx, UserRestart, vars
    <2>4. QED
        BY <2>1, <2>2, <2>3 DEF Next, Step
<1>z. QED
    BY <1>g, <1>s, <1>o, <1>3, <1>4, <1>6, <1>16, <1>24

\* The task starts in a good place.
LEMMA BaseInit == Init => BaseInv
<1> SUFFICES ASSUME Init PROVE BaseInv
    OBVIOUS
<1>1. task \in Tasks /\ Len(Program) \in Nat /\ MaxCrashes \in Nat /\ Program \in Seq(Instr)
    BY ProgramFacts DEF Init
<1>2. Types
    <2>1. /\ kcache \in [KernelSlots -> Value \union {NoValue}] /\ view \in [Positions -> Value \union {NoValue}]
          /\ entries \in [1 .. ReplaySize -> Value \union {NoValue}]
          /\ first \in [Positions -> Value \union {NoValue}]
        BY DEF Init, NoView
    <2>2. lruns \in [Positions -> Nat] /\ kruns \in [Positions -> [1 .. 2 -> Nat]]
        BY DEF Init
    <2>3. rptr \in Nat /\ rtail \in Nat /\ crashes \in 0 .. MaxCrashes
        BY <1>1, ReplayAssumption DEF Init, ReplayAssumption
    <2>4. pos \in 1 .. Len(Program) + 1 /\ pc \in PCs
        BY <1>1 DEF Init, PCs
    <2>0. /\ uptr = 0 /\ utail = 0 /\ ucom = FALSE /\ kptr = 0 /\ ktail = 0
          /\ listDone = FALSE /\ recovery = FALSE /\ knum = 1 /\ ret = NoValue
        BY DEF Init
    <2>5. /\ uptr \in Nat /\ utail \in Nat /\ kptr \in Nat /\ knum \in 1 .. 3
        BY <2>0, SMT
    <2>a. ktail \in KernelSlots \union {0} /\ ret \in Value \union {NoValue}
        BY <2>0, Zenon
    <2>b. ucom \in BOOLEAN /\ listDone \in BOOLEAN /\ recovery \in BOOLEAN
        BY <2>0, Zenon
    <2>6. QED
        BY <2>1, <2>2, <2>3, <2>4, <2>5, <2>a, <2>b DEF Types
<1>3. PlaceInv
    <2>1. Begun(Program, 0) = 0 /\ ~ Inside
        BY <1>1, AtStart, CountFacts, 0 \in 0 .. Len(Program) DEF Init, Inside
    <2>2. QED
        BY <2>1 DEF Init, PlaceInv, Jit, Calling, Writing
<1>4. KernelInv
    BY DEF Init, KernelInv, Calling
<1>5. FitInv
    <2>1. ASSUME NEW p \in Syscalls PROVE CallNo(Program, p) <= 0 => CallNo(Program, p) <= ReplaySize
        BY <1>1, CallFacts
    <2>2. Recorded = 0
        BY DEF Init, Recorded
    <2>3. QED
        BY <2>1, <2>2 DEF FitInv
<1>6. QED
    BY <1>1, <1>2, <1>3, <1>4, <1>5 DEF BaseInv

\* Every step keeps them.
LEMMA BaseStep == BaseInv /\ [Next]_vars => BaseInv'
<1>1. BaseInv /\ [Next]_vars => task' \in Tasks
    BY DEF BaseInv, Next, vars
<1>2. QED
    BY <1>1, TypeStep, PlaceStep, KernelStep, FitStep DEF BaseInv

\* TypeOK holds for every task, with and without results and however often the
\* power fails: what add_entry_start and get_entry copy lies inside the array
\* of SyscallReplayCache even when add_empty_entry_start has moved the tail out
\* of it, and the tail of the kernel TxCache stays inside its slots.
THEOREM TypesHold == Spec => []TypeOK
<1>1. Spec => []BaseInv
    BY BaseInit, BaseStep, PTL DEF Spec
<1>2. BaseInv => TypeOK
    BY EntriesInside DEF BaseInv, TypeOK
<1>3. QED
    BY <1>1, <1>2, PTL

-----------------------------------------------------------------------------
\* In a call that takes no SyscallToken no call is the current one, because
\* no call of a transaction follows; outside a transaction there are none left.
LEMMA OutsideCall ==
    ASSUME BaseInv, OutsideLast(Program), pc \in Calling, Op(pos) = "out"
    PROVE  /\ \A p \in Syscalls : ~ Current(p)
           /\ ~ Inside => NoMoreCalls
           /\ Inside => ~ ucom /\ Begun(Program, pos) = utail + 1
<1>0. Program \in Seq(Instr) /\ Len(Program) \in Nat /\ DOMAIN Program = Positions /\ task \in Tasks
    BY ProgramFacts DEF BaseInv
<1>1. pos \in Positions /\ pc \notin Jit /\ pc \notin {"uptr", "uend"}
    BY DEF BaseInv, PlaceInv, Calling, Jit
<1>t. uptr \in Nat /\ utail \in Nat /\ rtail \in Nat
    BY DEF BaseInv, Types
<1>2. pos \in 1 .. Len(Program) /\ pos - 1 \in 0 .. Len(Program) /\ Begun(Program, pos) = Begun(Program, pos - 1)
    BY <1>0, <1>1, PosFacts DEF Positions
<1>3. ASSUME NEW p \in Syscalls
      PROVE  /\ p > pos => Inside /\ Begun(Program, pos) # Begun(Program, p)
             /\ p < pos => /\ Begun(Program, p) <= Begun(Program, pos - 1)
                           /\ \A n : CallsOf(Program, n, p) <= CallsOf(Program, n, pos - 1)
             /\ p # pos
    <2>1. p \in Positions /\ Op(p) = "sys" /\ p \in 1 .. Len(Program) /\ p \in 0 .. Len(Program)
        BY <1>0, CallFacts
    <2>2. p # pos
        BY <2>1
    <2>3. ASSUME p > pos PROVE Inside /\ Begun(Program, pos) # Begun(Program, p)
        BY <1>0, <1>1, <2>1, <2>3 DEF OutsideLast, Op, Inside
    <2>4. ASSUME p < pos
          PROVE  /\ Begun(Program, p) <= Begun(Program, pos - 1)
                 /\ \A n : CallsOf(Program, n, p) <= CallsOf(Program, n, pos - 1)
        <3>1. p <= pos - 1
            BY <1>2, <2>1, <2>4
        <3>2. QED
            BY <1>0, <1>2, <2>1, <3>1, CountOrder
    <2>5. QED
        BY <2>2, <2>3, <2>4
<1>4. ASSUME ~ Inside PROVE NoMoreCalls
    <2>1. Begun(Program, pos - 1) <= utail /\ Begun(Program, pos - 1) \in Nat
        BY <1>1, <1>4, <1>t, PosFacts DEF BaseInv, PlaceInv
    <2>2. ASSUME NEW p \in Syscalls PROVE Begun(Program, p) <= utail
        <3>1. p < pos /\ Begun(Program, p) \in Nat
            BY <1>0, <1>2, <1>3, <1>4, CallFacts
        <3>2. QED
            BY <1>3, <1>t, <2>1, <3>1
    <2>3. QED
        BY <2>2 DEF NoMoreCalls
<1>5. ASSUME Inside
      PROVE  /\ ~ ucom /\ Begun(Program, pos) = utail + 1
             /\ rptr = CallsOf(Program, utail + 1, pos - 1) /\ rptr <= rtail
    BY <1>1, <1>2, <1>5 DEF BaseInv, PlaceInv
<1>6. ASSUME NEW p \in Syscalls, Current(p) PROVE FALSE
    <2>0. Begun(Program, p) = utail + 1 /\ CallNo(Program, p) = Recorded + 1 /\ Begun(Program, p) \in Nat
        BY <1>0, <1>6, CallFacts DEF Current
    <2>1. Inside
        BY <1>4, <1>t, <2>0 DEF NoMoreCalls
    <2>2. p < pos
        BY <1>0, <1>2, <1>3, <1>5, <2>0, <2>1, CallFacts
    <2>3. CallNo(Program, p) <= rptr
        BY <1>0, <1>3, <1>5, <2>0, <2>1, <2>2, CallFacts
    <2>4. Recorded = rtail
        BY <1>5, <2>1 DEF Recorded
    <2>5. rptr \in Nat /\ CallNo(Program, p) \in Nat
        BY <1>0, CallFacts DEF BaseInv, Types
    <2>6. QED
        BY <1>5, <1>t, <2>0, <2>1, <2>3, <2>4, <2>5
<1>7. QED
    BY <1>4, <1>5, <1>6

-----------------------------------------------------------------------------
(***************************************************************************)
(* The first run, and what is left of a call.                              *)
(***************************************************************************)
\* Until the power fails nothing is replayed.
LEMMA FirstRunStep == BaseInv /\ FirstRun /\ [Next]_vars => FirstRun'
<1> SUFFICES ASSUME BaseInv, FirstRun, [Next]_vars, crashes' = 0, pc' \notin {"uptr", "uend"}
             PROVE  /\ pc' \notin Jit
                    /\ IF Inside' THEN HasEntry' => pc' \in {"kreset", "lreset", "commit"} /\ IsSys'
                       ELSE rtail' = 0
    BY DEF FirstRun, Jit
<1>0. PlaceInv /\ FirstRun /\ task' = task
    BY DEF BaseInv, Next, vars
<1>g. crashes' = 0 /\ pc' \notin {"uptr", "uend"}
    OBVIOUS
<1>q. /\ Program' = Program /\ Positions' = Positions /\ (Inside' <=> InTx(Program, pos'))
      /\ (Inside <=> InTx(Program, pos)) /\ Op(pos)' = Program[pos'].op /\ Op(pos) = Program[pos].op
      /\ (IsSys' <=> Program[pos'].op = "sys")
    BY <1>0 DEF Program, Positions, Inside, Op, IsSys
<1>t. rptr \in Nat /\ rtail \in Nat /\ crashes \in Nat
    BY ProgramFacts DEF BaseInv, Types
<1> DEFINE Goal == /\ pc' \notin Jit
                   /\ IF Inside' THEN HasEntry' => pc' \in {"kreset", "lreset", "commit"} /\ IsSys'
                      ELSE rtail' = 0
<1> USE DEF userCache, kernelCache, replayCache, locals, history
<1>1. ASSUME BypassTx PROVE Goal
    <2>1. pos \in Positions /\ Op(pos) = "begin" /\ ~ Inside
        BY <1>0, <1>1, PosFacts DEF BypassTx, At
    <2>2. PICK e : e = EndOf(pos) /\ ~ InTx(Program, e + 1)
        BY <2>1, EndFacts
    <2>3. QED
        BY <1>0, <1>g, <1>q, <1>t, <1>1, <2>1, <2>2 DEF BypassTx, At, FirstRun, Jit
<1>2. ASSUME UserTxStart PROVE Goal
    <2>1. pos \in Positions /\ Op(pos) = "begin" /\ ~ Inside /\ pc = "run"
        BY <1>2, PosFacts DEF UserTxStart, At
    <2>2. QED
        BY <1>0, <1>g, <1>q, <1>2, <2>1 DEF UserTxStart, FirstRun, Jit
<1>3. ASSUME BeginTx PROVE Goal
    <2>1. pos \in Positions /\ pos' = pos + 1
        BY <1>0, <1>3 DEF BeginTx, At, PlaceInv, Calling
    <2>9. QED
        BY <1>0, <1>g, <1>q, <1>t, <1>3, <2>1, PosFacts DEF BeginTx, PlaceInv, FirstRun, Jit, Calling, HasEntry, IsSys, At
<1>4. ASSUME CommitTx PROVE Goal
    BY <1>0, <1>g, <1>q, <1>t, <1>4 DEF CommitTx, PlaceInv, FirstRun, Jit, Calling, HasEntry, IsSys, At
<1>5. ASSUME AdvanceUserPtr PROVE Goal
    BY <1>0, <1>g, <1>q, <1>t, <1>5 DEF AdvanceUserPtr, PlaceInv, FirstRun, Jit, Calling, HasEntry, IsSys, At
<1>6. ASSUME UserTxEnd PROVE Goal
    <2>1. pos \in Positions /\ pos' = pos + 1
        BY <1>0, <1>6 DEF UserTxEnd, At, PlaceInv, Calling
    <2>9. QED
        BY <1>0, <1>g, <1>q, <1>t, <1>6, <2>1, PosFacts DEF UserTxEnd, PlaceInv, FirstRun, Jit, Calling, HasEntry, IsSys, At
<1>7. ASSUME BypassSyscall PROVE Goal
    <2>1. pos \in Positions /\ pos' = pos + 1
        BY <1>0, <1>7 DEF BypassSyscall, At, PlaceInv, Calling
    <2>9. QED
        BY <1>0, <1>g, <1>q, <1>t, <1>7, <2>1, PosFacts DEF BypassSyscall, PlaceInv, FirstRun, Jit, Calling, HasEntry, IsSys, At
<1>8. ASSUME EnterSyscall PROVE Goal
    BY <1>0, <1>g, <1>q, <1>t, <1>8 DEF EnterSyscall, PlaceInv, FirstRun, Jit, Calling, HasEntry, IsSys, At
<1>9. ASSUME EnterOutside PROVE Goal
    BY <1>0, <1>g, <1>q, <1>t, <1>9 DEF EnterOutside, PlaceInv, FirstRun, Jit, Calling, HasEntry, IsSys, At
<1>10. ASSUME BypassKernelTx PROVE Goal
    BY <1>0, <1>g, <1>q, <1>t, <1>10 DEF BypassKernelTx, PlaceInv, FirstRun, Jit, Calling, HasEntry, IsSys, At
<1>11. ASSUME NEW v \in Value, RunKernelTx(v) PROVE Goal
    BY <1>0, <1>g, <1>q, <1>t, <1>11 DEF RunKernelTx, PlaceInv, FirstRun, Jit, Calling, HasEntry, IsSys, At
<1>12. ASSUME AdvanceKernelPtr PROVE Goal
    BY <1>0, <1>g, <1>q, <1>t, <1>12 DEF AdvanceKernelPtr, PlaceInv, FirstRun, Jit, Calling, HasEntry, IsSys, At
<1>13. ASSUME ListOp PROVE Goal
    BY <1>0, <1>g, <1>q, <1>t, <1>13 DEF ListOp, PlaceInv, FirstRun, Jit, Calling, HasEntry, IsSys, At
<1>14. ASSUME WriteEntry PROVE Goal
    BY <1>0, <1>g, <1>q, <1>t, <1>14 DEF WriteEntry, PlaceInv, FirstRun, Jit, Calling, HasEntry, IsSys, At
<1>15. ASSUME ReplayCacheFull PROVE Goal
    BY <1>0, <1>g, <1>q, <1>t, <1>15 DEF ReplayCacheFull, PlaceInv, FirstRun, Jit, Calling, HasEntry, IsSys, At
<1>16. ASSUME BumpEntryTail PROVE Goal
    <2>1. pos \in Positions /\ Op(pos) = "sys" /\ Inside
        BY <1>0, <1>16, PosFacts DEF BumpEntryTail, PlaceInv, Calling, IsSys
    <2>2. QED
        BY <1>0, <1>g, <1>q, <1>16, <2>1 DEF BumpEntryTail, Jit
<1>17. ASSUME ResetKernelCache PROVE Goal
    BY <1>0, <1>g, <1>q, <1>t, <1>17 DEF ResetKernelCache, PlaceInv, FirstRun, Jit, Calling, HasEntry, IsSys, At
<1>18. ASSUME ResetListTx PROVE Goal
    <2>1. pos \in Positions /\ Op(pos) \in {"sys", "out"} /\ pc = "lreset"
        BY <1>0, <1>18 DEF ResetListTx, PlaceInv, Calling
    <2>2. CASE Op(pos) = "sys"
        BY <1>0, <1>g, <1>q, <1>t, <1>18, <2>1, <2>2, PosFacts DEF ResetListTx, FirstRun, Jit, IsSys
    <2>3. CASE Op(pos) = "out"
        BY <1>0, <1>g, <1>q, <1>t, <1>18, <2>1, <2>3, PosFacts DEF ResetListTx, FirstRun, Jit, IsSys, HasEntry
    <2>4. QED
        BY <2>1, <2>2, <2>3
<1>19. ASSUME CommitEntry PROVE Goal
    <2>1. pos \in Positions /\ pos' = pos + 1
        BY <1>0, <1>19 DEF CommitEntry, At, PlaceInv, Calling
    <2>9. QED
        BY <1>0, <1>g, <1>q, <1>t, <1>19, <2>1, PosFacts DEF CommitEntry, PlaceInv, FirstRun, Jit, Calling, HasEntry, IsSys, At
<1>20. ASSUME Crash PROVE Goal
    BY <1>0, <1>g, <1>q, <1>t, <1>20 DEF Crash, PlaceInv, FirstRun, Jit, Calling, HasEntry, IsSys, At
<1>21. ASSUME JitCheckReplay PROVE Goal
    BY <1>0, <1>g, <1>q, <1>t, <1>21 DEF JitCheckReplay, PlaceInv, FirstRun, Jit, Calling, HasEntry, IsSys, At
<1>22. ASSUME JitResetKernelCache PROVE Goal
    BY <1>0, <1>g, <1>q, <1>t, <1>22 DEF JitResetKernelCache, PlaceInv, FirstRun, Jit, Calling, HasEntry, IsSys, At
<1>23. ASSUME JitResetListTx PROVE Goal
    BY <1>0, <1>g, <1>q, <1>t, <1>23 DEF JitResetListTx, PlaceInv, FirstRun, Jit, Calling, HasEntry, IsSys, At
<1>24. ASSUME UserRecovery PROVE Goal
    BY <1>0, <1>g, <1>q, <1>t, <1>24 DEF UserRecovery, PlaceInv, FirstRun, Jit, Calling, HasEntry, IsSys, At
<1>25. ASSUME UserRestart PROVE Goal
    BY <1>0, <1>g, <1>q, <1>t, <1>25 DEF UserRestart, PlaceInv, FirstRun, Jit, Calling, HasEntry, IsSys, At
<1>u. CASE UNCHANGED vars
    <2>1. pc' = pc /\ pos' = pos /\ rptr' = rptr /\ rtail' = rtail /\ crashes' = crashes
        BY <1>u DEF vars
    <2>2. QED
        BY <1>0, <1>g, <1>q, <2>1 DEF FirstRun, HasEntry, IsSys
<1>z. QED
    BY <1>u, <1>1, <1>2, <1>3, <1>4, <1>5, <1>6, <1>7, <1>8, <1>9, <1>10, <1>11, <1>12, <1>13, <1>14, <1>15, <1>16, <1>17, <1>18, <1>19, <1>20, <1>21, <1>22, <1>23, <1>24, <1>25 DEF Next, Step

\* What is left keeps its owner in a step that neither commits a transaction
\* nor changes the record, and passes no owner.
LEMMA KeepLeft ==
    ASSUME LeftInv, task' = task, utail' = utail, rtail' = rtail, ucom' => ucom, Left' => Left,
           Stale => Stale' \/ ~ Left',
           \A q \in Positions : Owner(q) /\ pc' \notin Jit /\ Inside' => pos' <= q
    PROVE  LeftInv'
<1>1. SUFFICES ASSUME Left', ~ Stale'
               PROVE  NoMoreCalls' \/ (~ ucom' /\ \E q \in Positions' : Owner(q)')
    BY DEF LeftInv
<1>2. NoMoreCalls \/ (~ ucom /\ \E q \in Positions : Owner(q))
    BY <1>1 DEF LeftInv
<1>3. Program' = Program /\ Positions' = Positions /\ Syscalls' = Syscalls /\ \A p : Op(p)' = Op(p)
    BY DEF Program, Positions, Syscalls, Op
<1>4. CASE NoMoreCalls
    BY <1>3, <1>4 DEF NoMoreCalls
<1>5. CASE ~ ucom /\ \E q \in Positions : Owner(q)
    <2>1. PICK q \in Positions : Owner(q)
        BY <1>5
    <2>2. Owner(q)'
        BY <1>3, <2>1 DEF Owner
    <2>3. QED
        BY <1>3, <1>5, <2>2
<1>6. QED
    BY <1>2, <1>4, <1>5

\* When there are no more calls in transactions, none comes back.
LEMMA NoneLeft ==
    ASSUME BaseInv, task' = task, utail' \in Nat, utail' >= utail, Left' => NoMoreCalls
    PROVE  LeftInv'
<1>1. Program' = Program /\ Syscalls' = Syscalls
    BY DEF Program, Positions, Syscalls, Op
<1>2. ASSUME NoMoreCalls PROVE NoMoreCalls'
    <2>1. ASSUME NEW p \in Syscalls PROVE Begun(Program, p) <= utail'
        <3>1. Begun(Program, p) <= utail /\ Begun(Program, p) \in Nat /\ utail \in Nat
            BY <1>2, CallFacts DEF NoMoreCalls, BaseInv, Types
        <3>2. QED
            BY <3>1
    <2>2. QED
        BY <1>1, <2>1 DEF NoMoreCalls
<1>3. QED
    BY <1>2 DEF LeftInv

\* What a call under way leaves, should the power fail, is its own.
LEMMA OwnLeft ==
    ASSUME BaseInv, OutsideLast(Program), pc \in {"kernel", "kptr", "entry", "bump", "panic"},
           task' = task, utail' = utail, rtail' = rtail, ucom' = ucom, pos' = pos
    PROVE  LeftInv'
<1>0. Program' = Program /\ Positions' = Positions /\ \A p : Op(p)' = Op(p)
    BY DEF Program, Positions, Op
<1>1. pos \in Positions /\ Op(pos) \in {"sys", "out"} /\ pc \in Calling
    BY DEF BaseInv, PlaceInv, Calling
<1>p. pos \in Nat
    BY <1>1, PosFacts
<1>2. CASE ~ Inside /\ Op(pos) = "out"
    <2>1. NoMoreCalls /\ utail' \in Nat /\ utail' >= utail
        BY <1>1, <1>2, OutsideCall, SMTT(20) DEF BaseInv, Types
    <2>2. QED
        BY <2>1, NoneLeft
<1>3. CASE Inside /\ Op(pos) = "out"
    <2>1. ~ ucom /\ Begun(Program, pos) = utail + 1
        BY <1>1, <1>3, OutsideCall
    <2>2. Owner(pos)'
        BY <1>0, <1>1, <1>3, <1>p, <2>1 DEF Owner, Inside
    <2>3. QED
        BY <1>0, <1>1, <2>1, <2>2 DEF LeftInv
<1>4. CASE Op(pos) = "sys"
    <2>1. Inside /\ ~ ucom /\ Begun(Program, pos) = utail + 1 /\ CallNo(Program, pos) = rtail + 1
        BY <1>4, ThisIsCurrent DEF Current, IsSys
    <2>2. Owner(pos)'
        BY <1>0, <1>1, <1>4, <1>p, <2>1 DEF Owner, Inside
    <2>3. QED
        BY <1>0, <1>1, <2>1, <2>2 DEF LeftInv
<1>5. QED
    BY <1>1, <1>2, <1>3, <1>4

\* Behind a call of a transaction at q the transaction cannot have its end.
LEMMA NotBehindEnd ==
    ASSUME BaseInv, pos \in Positions, Op(pos) = "end", pc = "run", NEW q \in Positions, Owner(q)
    PROVE  FALSE
<1>0. Program \in Seq(Instr) /\ Len(Program) \in Nat
    BY ProgramFacts DEF BaseInv
<1>1. Inside /\ Begun(Program, pos) = utail + 1
    BY PosFacts DEF BaseInv, PlaceInv, Jit
<1>2. pos <= q /\ Op(q) # "end" /\ InTx(Program, q) /\ Begun(Program, q) = utail + 1
    BY <1>1 DEF Owner, Jit
<1>3. pos \in 1 .. Len(Program) /\ q \in 1 .. Len(Program) /\ pos < q
    BY <1>0, <1>2 DEF Positions
<1>4. Begun(Program, q) > Begun(Program, pos)
    BY <1>0, <1>2, <1>3, BehindEnd DEF Op
<1>5. QED
    BY <1>1, <1>2, <1>4 DEF BaseInv, Types

\* Every step keeps what is left with its owner.
LEMMA LeftStep == BaseInv /\ OutsideLast(Program) /\ LeftInv /\ [Next]_vars => LeftInv'
<1> SUFFICES ASSUME BaseInv, OutsideLast(Program), LeftInv, [Next]_vars PROVE LeftInv'
    OBVIOUS
<1>0. PlaceInv /\ KernelInv /\ LeftInv /\ task' = task
    BY DEF BaseInv, Next, vars
<1>p. Program \in Seq(Instr) /\ Len(Program) \in Nat
    BY ProgramFacts DEF BaseInv
<1>q. /\ Program' = Program /\ Positions' = Positions /\ (Inside' <=> InTx(Program, pos'))
      /\ (Inside <=> InTx(Program, pos)) /\ Op(pos)' = Program[pos'].op /\ Op(pos) = Program[pos].op
      /\ (IsSys' <=> Program[pos'].op = "sys")
    BY <1>0 DEF Program, Positions, Inside, Op, IsSys
<1>s. ~ InTx(Program, 1)
    BY AtStart
<1>t. /\ uptr \in Nat /\ utail \in Nat /\ rptr \in Nat /\ rtail \in Nat
      /\ ucom \in BOOLEAN /\ pos \in Nat
    BY DEF BaseInv, Types
<1> USE DEF userCache, kernelCache, replayCache, locals, history
<1>1. ASSUME BypassTx PROVE LeftInv'
    <2>1. pos \in Positions /\ Op(pos) = "begin"
        BY <1>1 DEF BypassTx, At
    <2>2. PICK e : e = EndOf(pos) /\ ~ InTx(Program, e + 1)
        BY <2>1, EndFacts
    <2>a. Stale => Stale' \/ ~ Left'
        BY <1>0, <1>q, <1>t, <1>1 DEF BypassTx, Left, Stale, At, IsSys, HasEntry
    <2>b. \A q \in Positions : Owner(q) /\ pc' \notin Jit /\ Inside' => pos' <= q
        BY <1>q, <1>1, <2>2 DEF BypassTx
    <2>c. QED
        BY <1>0, <1>1, <2>a, <2>b, KeepLeft DEF BypassTx, Left
<1>2. ASSUME UserTxStart PROVE LeftInv'
    <2>a. Stale => Stale' \/ ~ Left'
        BY <1>0, <1>q, <1>t, <1>2 DEF UserTxStart, Left, Stale, At, IsSys, HasEntry
    <2>b. \A q \in Positions : Owner(q) /\ pc' \notin Jit /\ Inside' => pos' <= q
        BY <1>q, <1>2 DEF UserTxStart, Owner, Jit, At
    <2>c. QED
        BY <1>0, <1>2, <2>a, <2>b, KeepLeft DEF UserTxStart, Left
<1>3. ASSUME BeginTx PROVE LeftInv'
    <2>1. pos \in Positions /\ Op(pos) = "begin" /\ Begun(Program, pos - 1) = utail
        BY <1>0, <1>3, PosFacts DEF BeginTx, PlaceInv, Jit
    <2>a. Stale => Stale' \/ ~ Left'
        BY <1>0, <1>q, <1>t, <1>3 DEF BeginTx, Left, Stale, At, IsSys, HasEntry
    <2>b. \A q \in Positions : Owner(q) /\ pc' \notin Jit /\ Inside' => pos' <= q
        <3> SUFFICES ASSUME NEW q \in Positions, Owner(q) PROVE pos' <= q
            OBVIOUS
        <3>1. Begun(Program, q) = utail + 1 /\ q \in 0 .. Len(Program) /\ q # pos
            BY <1>p, <2>1 DEF Owner, Positions
        <3>2. ASSUME q < pos PROVE FALSE
            <4>1. q <= pos - 1 /\ pos - 1 \in 0 .. Len(Program)
                BY <1>p, <2>1, <3>1, <3>2 DEF Positions
            <4>2. Begun(Program, q) <= Begun(Program, pos - 1)
                BY <1>p, <3>1, <4>1, CountOrder
            <4>3. QED
                BY <1>t, <2>1, <3>1, <4>2
        <3>3. QED
            BY <1>p, <1>3, <2>1, <3>1, <3>2 DEF BeginTx, Positions
    <2>c. QED
        BY <1>0, <1>3, <2>a, <2>b, KeepLeft DEF BeginTx, Left
<1>4. ASSUME CommitTx PROVE LeftInv'
    <2>1. pos \in Positions /\ Op(pos) = "end" /\ pc = "run"
        BY <1>4 DEF CommitTx, At
    <2>2. Left => NoMoreCalls
        BY <1>0, <2>1, NotBehindEnd DEF LeftInv, Stale
    <2>3. QED
        BY <1>0, <1>t, <1>4, <2>2, NoneLeft DEF CommitTx, Left
<1>5. ASSUME AdvanceUserPtr PROVE LeftInv'
    <2>a. Stale => Stale' \/ ~ Left'
        BY <1>0, <1>q, <1>t, <1>5 DEF AdvanceUserPtr, Left, Stale, At, IsSys, HasEntry
    <2>b. \A q \in Positions : Owner(q) /\ pc' \notin Jit /\ Inside' => pos' <= q
        BY <1>q, <1>5 DEF AdvanceUserPtr, Owner, Jit, At
    <2>c. QED
        BY <1>0, <1>5, <2>a, <2>b, KeepLeft DEF AdvanceUserPtr, Left
<1>6. ASSUME UserTxEnd PROVE LeftInv'
    <2>1. ucom /\ ~ Stale
        BY <1>0, <1>6 DEF UserTxEnd, PlaceInv, Stale
    <2>2. QED
        BY <1>0, <1>t, <1>6, <2>1, NoneLeft DEF UserTxEnd, LeftInv, Left
<1>7. ASSUME BypassSyscall PROVE LeftInv'
    <2>1. /\ pos \in Positions /\ Op(pos) = "sys" /\ Inside /\ pc = "run"
          /\ CallNo(Program, pos) = rptr + 1 /\ rptr < rtail
        BY <1>7, ThisCall DEF BypassSyscall, At, Jit, HasEntry
    <2>a. Stale => Stale' \/ ~ Left'
        BY <1>0, <1>q, <1>t, <1>7 DEF BypassSyscall, Left, Stale, At, IsSys, HasEntry
    <2>b. \A q \in Positions : Owner(q) /\ pc' \notin Jit /\ Inside' => pos' <= q
        <3> SUFFICES ASSUME NEW q \in Positions, Owner(q) PROVE pos' <= q
            OBVIOUS
        <3>1. pos <= q /\ (Op(q) = "sys" => CallNo(Program, q) = rtail + 1)
            BY <2>1 DEF Owner, Jit
        <3>2. q # pos
            BY <1>t, <2>1, <3>1
        <3>3. QED
            BY <1>p, <1>7, <2>1, <3>1, <3>2 DEF BypassSyscall, Positions
    <2>c. QED
        BY <1>0, <1>7, <2>a, <2>b, KeepLeft DEF BypassSyscall, Left
<1>8. ASSUME EnterSyscall PROVE LeftInv'
    <2>a. Stale => Stale' \/ ~ Left'
        BY <1>0, <1>q, <1>t, <1>8 DEF EnterSyscall, Left, Stale, At, IsSys, HasEntry
    <2>b. \A q \in Positions : Owner(q) /\ pc' \notin Jit /\ Inside' => pos' <= q
        BY <1>q, <1>8 DEF EnterSyscall, Owner, Jit, At
    <2>c. QED
        BY <1>0, <1>8, <2>a, <2>b, KeepLeft DEF EnterSyscall, Left
<1>9. ASSUME EnterOutside PROVE LeftInv'
    <2>a. Stale => Stale' \/ ~ Left'
        BY <1>0, <1>q, <1>t, <1>9 DEF EnterOutside, Left, Stale, At, IsSys, HasEntry
    <2>b. \A q \in Positions : Owner(q) /\ pc' \notin Jit /\ Inside' => pos' <= q
        BY <1>q, <1>9 DEF EnterOutside, Owner, Jit, At
    <2>c. QED
        BY <1>0, <1>9, <2>a, <2>b, KeepLeft DEF EnterOutside, Left
<1>10. ASSUME BypassKernelTx PROVE LeftInv'
    <2>a. Stale => Stale' \/ ~ Left'
        BY <1>0, <1>q, <1>t, <1>10 DEF BypassKernelTx, Left, Stale, At, IsSys, HasEntry
    <2>b. \A q \in Positions : Owner(q) /\ pc' \notin Jit /\ Inside' => pos' <= q
        BY <1>q, <1>10 DEF BypassKernelTx, Owner, Jit, At
    <2>c. QED
        BY <1>0, <1>10, <2>a, <2>b, KeepLeft DEF BypassKernelTx, Left
<1>11. ASSUME NEW v \in Value, RunKernelTx(v) PROVE LeftInv'
    BY <1>0, <1>11, OwnLeft DEF RunKernelTx
<1>12. ASSUME AdvanceKernelPtr PROVE LeftInv'
    <2>a. Stale => Stale' \/ ~ Left'
        BY <1>0, <1>q, <1>t, <1>12 DEF AdvanceKernelPtr, Left, Stale, At, IsSys, HasEntry
    <2>b. \A q \in Positions : Owner(q) /\ pc' \notin Jit /\ Inside' => pos' <= q
        BY <1>q, <1>12 DEF AdvanceKernelPtr, Owner, Jit, At
    <2>c. QED
        BY <1>0, <1>12, <2>a, <2>b, KeepLeft DEF AdvanceKernelPtr, Left
<1>13. ASSUME ListOp PROVE LeftInv'
    BY <1>0, <1>13, OwnLeft DEF ListOp
<1>14. ASSUME WriteEntry PROVE LeftInv'
    <2>a. Stale => Stale' \/ ~ Left'
        BY <1>0, <1>q, <1>t, <1>14 DEF WriteEntry, Left, Stale, At, IsSys, HasEntry
    <2>b. \A q \in Positions : Owner(q) /\ pc' \notin Jit /\ Inside' => pos' <= q
        BY <1>q, <1>14 DEF WriteEntry, Owner, Jit, At
    <2>c. QED
        BY <1>0, <1>14, <2>a, <2>b, KeepLeft DEF WriteEntry, Left
<1>15. ASSUME ReplayCacheFull PROVE LeftInv'
    <2>a. Stale => Stale' \/ ~ Left'
        BY <1>0, <1>q, <1>t, <1>15 DEF ReplayCacheFull, Left, Stale, At, IsSys, HasEntry
    <2>b. \A q \in Positions : Owner(q) /\ pc' \notin Jit /\ Inside' => pos' <= q
        BY <1>q, <1>15 DEF ReplayCacheFull, Owner, Jit, At
    <2>c. QED
        BY <1>0, <1>15, <2>a, <2>b, KeepLeft DEF ReplayCacheFull, Left
<1>16. ASSUME BumpEntryTail PROVE LeftInv'
    <2>1. Stale'
        BY <1>0, <1>q, <1>16 DEF BumpEntryTail, Stale, PlaceInv, Calling, IsSys
    <2>2. QED
        BY <2>1 DEF LeftInv
<1>17. ASSUME ResetKernelCache PROVE LeftInv'
    <2>a. Stale => Stale' \/ ~ Left'
        BY <1>0, <1>q, <1>t, <1>17 DEF ResetKernelCache, Left, Stale, At, IsSys, HasEntry
    <2>b. \A q \in Positions : Owner(q) /\ pc' \notin Jit /\ Inside' => pos' <= q
        BY <1>q, <1>17 DEF ResetKernelCache, Owner, Jit, At
    <2>c. QED
        BY <1>0, <1>17, <2>a, <2>b, KeepLeft DEF ResetKernelCache, Left
<1>18. ASSUME ResetListTx PROVE LeftInv'
    <2>1. ~ Left'
        BY <1>0, <1>18 DEF ResetListTx, KernelInv, Left
    <2>2. QED
        BY <2>1 DEF LeftInv
<1>19. ASSUME CommitEntry PROVE LeftInv'
    <2>1. ~ Left'
        BY <1>0, <1>19 DEF CommitEntry, KernelInv, Left
    <2>2. QED
        BY <2>1 DEF LeftInv
<1>20. ASSUME Crash PROVE LeftInv'
    <2>a. Stale => Stale' \/ ~ Left'
        BY <1>0, <1>q, <1>t, <1>20 DEF Crash, Left, Stale, At, IsSys, HasEntry, PlaceInv, Calling
    <2>b. \A q \in Positions : Owner(q) /\ pc' \notin Jit /\ Inside' => pos' <= q
        BY <1>q, <1>20 DEF Crash, Owner, Jit, At
    <2>c. QED
        BY <1>0, <1>20, <2>a, <2>b, KeepLeft DEF Crash, Left
<1>21. ASSUME JitCheckReplay PROVE LeftInv'
    <2>a. Stale => Stale' \/ ~ Left'
        BY <1>0, <1>q, <1>t, <1>21 DEF JitCheckReplay, Left, Stale, At, IsSys, HasEntry, PlaceInv, Calling
    <2>b. \A q \in Positions : Owner(q) /\ pc' \notin Jit /\ Inside' => pos' <= q
        BY <1>q, <1>21 DEF JitCheckReplay, Owner, Jit, At
    <2>c. QED
        BY <1>0, <1>21, <2>a, <2>b, KeepLeft DEF JitCheckReplay, Left
<1>22. ASSUME JitResetKernelCache PROVE LeftInv'
    <2>1. Stale'
        BY <1>0, <1>q, <1>22 DEF JitResetKernelCache, Stale, PlaceInv, Calling, IsSys
    <2>2. QED
        BY <2>1 DEF LeftInv
<1>23. ASSUME JitResetListTx PROVE LeftInv'
    <2>1. ~ Left'
        BY <1>0, <1>23 DEF JitResetListTx, KernelInv, Left
    <2>2. QED
        BY <2>1 DEF LeftInv
<1>24. ASSUME UserRecovery PROVE LeftInv'
    <2>1. ~ Stale
        BY <1>24 DEF UserRecovery, Stale
    <2>2. CASE ucom
        BY <1>0, <1>t, <1>24, <2>1, <2>2, NoneLeft DEF UserRecovery, LeftInv, Left
    <2>3. CASE ~ ucom
        BY <1>0, <1>t, <1>24, <2>1, <2>3, KeepLeft DEF UserRecovery, Left, Jit
    <2>4. QED
        BY <1>t, <2>2, <2>3
<1>25. ASSUME UserRestart PROVE LeftInv'
    <2>a. Stale => Stale' \/ ~ Left'
        BY <1>0, <1>q, <1>t, <1>25 DEF UserRestart, Left, Stale, At, IsSys, HasEntry
    <2>b. \A q \in Positions : Owner(q) /\ pc' \notin Jit /\ Inside' => pos' <= q
        BY <1>0, <1>q, <1>s, <1>25 DEF UserRestart, PlaceInv, Jit
    <2>c. QED
        BY <1>0, <1>25, <2>a, <2>b, KeepLeft DEF UserRestart, Left
<1>u. CASE UNCHANGED vars
    <2>1. /\ pc' = pc /\ pos' = pos /\ rptr' = rptr /\ rtail' = rtail /\ utail' = utail /\ ucom' = ucom
          /\ ktail' = ktail /\ listDone' = listDone
        BY <1>u DEF vars
    <2>2. (Left' <=> Left) /\ (Stale' <=> Stale)
        BY <1>q, <2>1 DEF Left, Stale, HasEntry, IsSys
    <2>3. QED
        BY <1>0, <1>q, <2>1, <2>2, KeepLeft DEF Owner
<1>z. QED
    BY <1>u, <1>1, <1>2, <1>3, <1>4, <1>5, <1>6, <1>7, <1>8, <1>9, <1>10, <1>11, <1>12, <1>13, <1>14, <1>15, <1>16, <1>17, <1>18, <1>19, <1>20, <1>21, <1>22, <1>23, <1>24, <1>25 DEF Next, Step

-----------------------------------------------------------------------------
(***************************************************************************)
(* How far each call is.                                                   *)
(***************************************************************************)
\* Numbers that the places of a call compare.
LEMMA RecordType ==
    ASSUME BaseInv
    PROVE  /\ utail \in Nat /\ Recorded \in Nat /\ rtail \in Nat /\ rptr \in Nat /\ ktail \in Nat
           /\ ucom \in BOOLEAN /\ listDone \in BOOLEAN
           /\ kruns \in [Positions -> [1 .. 2 -> Nat]] /\ lruns \in [Positions -> Nat]
<1>1. MaxCrashes \in Nat
    BY ProgramFacts DEF BaseInv
<1>2. QED
    BY <1>1 DEF BaseInv, Types, Recorded, KernelSlots

\* A call that nothing is left of has not been started.
LEMMA NothingLeft ==
    ASSUME NEW p \in Syscalls, ktail = 0, listDone = FALSE
    PROVE  (Ktx(p) \in 0 .. 2 => (SoFar(p) <=> Untouched(p))) /\ ~ Left
BY DEF SoFar, Untouched, Left

\* A step that neither commits a transaction nor changes the record keeps a
\* call that is not the current one where it is.
LEMMA KeepCall ==
    ASSUME BaseInv, NEW p \in Syscalls, CallOK(p), task' = task, utail' = utail, Recorded' = Recorded,
           Current(p) \/ (kruns'[p] = kruns[p] /\ lruns'[p] = lruns[p] /\ first'[p] = first[p]),
           OnRecord(p) => entries'[CallNo(Program, p)] = entries[CallNo(Program, p)],
           Current(p) => CurrentOK(p)'
    PROVE  CallOK(p)'
<1>1. Program' = Program /\ Ktx(p)' = Ktx(p) /\ Returns(p)' = Returns(p)
    BY DEF Program, Ktx, Returns
<1>2. /\ Begun(Program, p) \in Nat /\ CallNo(Program, p) \in Nat
      /\ utail \in Nat /\ Recorded \in Nat
    BY CallFacts, RecordType DEF BaseInv
<1>3. (Committed(p)' <=> Committed(p)) /\ (OnRecord(p)' <=> OnRecord(p)) /\ (Current(p)' <=> Current(p)) /\ (Ahead(p)' <=> Ahead(p))
    BY <1>1 DEF Committed, OnRecord, Current, Ahead
<1>4. CASE Current(p)
    <2>1. ~ Committed(p) /\ ~ OnRecord(p) /\ ~ Ahead(p)
        BY <1>2, <1>4 DEF Committed, OnRecord, Current, Ahead
    <2>2. QED
        BY <1>3, <1>4, <2>1 DEF CallOK
<1>5. CASE ~ Current(p)
    <2>1. (Done(p)' <=> Done(p)) /\ (Untouched(p)' <=> Untouched(p))
        BY <1>1, <1>5 DEF Done, Untouched
    <2>2. OnRecord(p) /\ Returns(p) => (first[p] = entries[CallNo(Program, p)])'
        BY <1>1, <1>5 DEF CallOK
    <2>3. QED
        BY <1>1, <1>3, <1>5, <2>1, <2>2 DEF CallOK
<1>6. QED
    BY <1>4, <1>5

\* Where the history and the record stay as they are, all calls do.
LEMMA KeepCalls ==
    ASSUME BaseInv, \A p \in Syscalls : CallOK(p), task' = task, utail' = utail, Recorded' = Recorded,
           kruns' = kruns, lruns' = lruns, first' = first, entries' = entries,
           ktail' = ktail, listDone' = listDone, ucom' => ucom, Stale' <=> Stale
    PROVE  \A p \in Syscalls : CallOK(p)'
<1> SUFFICES ASSUME NEW p \in Syscalls PROVE CallOK(p)'
    OBVIOUS
<1>1. Program' = Program /\ Ktx(p)' = Ktx(p)
    BY DEF Program, Ktx
<1>2. Current(p) => CurrentOK(p)'
    <2>1. (SoFar(p)' <=> SoFar(p)) /\ (Untouched(p)' <=> Untouched(p)) /\ (Left' <=> Left)
        BY <1>1 DEF SoFar, Untouched, Left
    <2>2. QED
        BY <2>1 DEF CallOK, CurrentOK
<1>3. QED
    BY <1>2, KeepCall

\* A call is nowhere else.
LEMMA CallPlaces ==
    ASSUME BaseInv, NEW p \in Syscalls
    PROVE  Committed(p) \/ OnRecord(p) \/ Current(p) \/ Ahead(p)
<1>1. /\ Begun(Program, p) \in Nat /\ CallNo(Program, p) \in Nat
      /\ utail \in Nat /\ Recorded \in Nat
    BY CallFacts, RecordType DEF BaseInv
<1>2. QED
    BY <1>1 DEF Committed, OnRecord, Current, Ahead

\* Every step keeps every call as far as its place says.
LEMMA CallsStep ==
    ASSUME BaseInv, OutsideLast(Program), OneCallEach(Program) \/ MaxCrashes <= 1,
           FirstRun, LeftInv, RecordInv, [Next]_vars
    PROVE  \A p \in Syscalls : CallOK(p)'
<1>0. PlaceInv /\ KernelInv /\ FirstRun /\ LeftInv /\ task' = task /\ \A p \in Syscalls : CallOK(p)
    BY DEF BaseInv, RecordInv, Next, vars
<1>g. OneCallEach(Program) \/ MaxCrashes <= 1
    OBVIOUS
<1>p. Program \in Seq(Instr) /\ Len(Program) \in Nat
    BY ProgramFacts DEF BaseInv
<1>q. /\ Program' = Program /\ Positions' = Positions /\ DOMAIN Program = Positions
      /\ \A p : (Op(p)' = Op(p) /\ Op(p) = Program[p].op /\ Ktx(p)' = Ktx(p))
      /\ (IsSys' <=> Program[pos'].op = "sys")
    BY <1>0, ProgramFacts DEF BaseInv, Program, Positions, Op, Ktx, IsSys
<1>r. pc = "bump" /\ Returns(pos) => entries[rtail + 1] = ret
    BY DEF RecordInv, Writing
<1>v. \A p : Returns(p)' = Returns(p)
    BY <1>q DEF Returns
<1>t. /\ utail \in Nat /\ Recorded \in Nat /\ rptr \in Nat /\ rtail \in Nat /\ ktail \in Nat
      /\ ucom \in BOOLEAN /\ listDone \in BOOLEAN /\ pos \in Nat /\ knum \in 1 .. 3 /\ kptr \in Nat
      /\ kruns \in [Positions -> [1 .. 2 -> Nat]] /\ lruns \in [Positions -> Nat]
      /\ crashes \in Nat /\ MaxCrashes \in Nat
    BY RecordType, ProgramFacts DEF BaseInv, Types
<1> USE DEF userCache, kernelCache, replayCache, locals, history
<1>1. ASSUME BypassTx PROVE \A p \in Syscalls : CallOK(p)'
    <2>1. Recorded' = Recorded
        BY <1>0, <1>1 DEF BypassTx, Recorded
    <2>2. Stale' <=> Stale
        BY <1>0, <1>q, <1>1 DEF BypassTx, Stale, At, IsSys, HasEntry
    <2>3. QED
        BY <1>0, <1>1, <2>1, <2>2, KeepCalls DEF BypassTx
<1>2. ASSUME UserTxStart PROVE \A p \in Syscalls : CallOK(p)'
    <2>1. Recorded' = Recorded
        BY <1>0, <1>2 DEF UserTxStart, Recorded
    <2>2. Stale' <=> Stale
        BY <1>0, <1>q, <1>2 DEF UserTxStart, Stale, At, IsSys, HasEntry
    <2>3. QED
        BY <1>0, <1>2, <2>1, <2>2, KeepCalls DEF UserTxStart
<1>3. ASSUME BeginTx PROVE \A p \in Syscalls : CallOK(p)'
    <2>1. Recorded' = Recorded
        BY <1>0, <1>3 DEF BeginTx, Recorded, PlaceInv
    <2>2. Stale' <=> Stale
        BY <1>0, <1>q, <1>3 DEF BeginTx, Stale, At, IsSys, HasEntry
    <2>3. QED
        BY <1>0, <1>3, <2>1, <2>2, KeepCalls DEF BeginTx
<1>4. ASSUME CommitTx PROVE \A p \in Syscalls : CallOK(p)'
    <2> SUFFICES ASSUME NEW p \in Syscalls PROVE CallOK(p)'
        OBVIOUS
    <2>0. /\ CallOK(p) /\ Ktx(p)' = Ktx(p) /\ Ktx(p) \in 0 .. 2 /\ CallNo(Program, p) \in Nat /\ CallNo(Program, p) >= 1
          /\ Begun(Program, p) \in Nat /\ p \in 1 .. Len(Program) /\ p \in 0 .. Len(Program) /\ Op(p) = "sys"
          /\ InTx(Program, p) /\ CallNo(Program, p) = CallsOf(Program, Begun(Program, p), p)
        BY <1>0, <1>p, <1>q, CallFacts DEF BaseInv, Ktx
    <2>1. /\ pos \in Positions /\ Op(pos) = "end" /\ pc = "run" /\ Inside
          /\ Begun(Program, pos) = utail + 1
        BY <1>0, <1>4, PosFacts DEF CommitTx, At, PlaceInv, Jit
    <2>2. ~ ucom /\ rptr = CallsOf(Program, utail + 1, pos - 1) /\ rptr <= rtail
        BY <1>0, <2>1 DEF PlaceInv, Jit
    <2>3. utail' = utail + 1 /\ Recorded = rtail /\ Recorded' = 0 /\ ucom' = TRUE
        BY <1>4, <2>2 DEF CommitTx, Recorded
    <2>4. (Done(p)' <=> Done(p)) /\ (Untouched(p)' <=> Untouched(p)) /\ (SoFar(p)' <=> SoFar(p)) /\ (Left' <=> Left)
        BY <1>q, <1>4, <2>0 DEF CommitTx, Done, Untouched, SoFar, Left
    <2>5. ASSUME Committed(p)' PROVE Done(p)'
        <3>1. Begun(Program, p) <= utail + 1
            BY <1>q, <2>3, <2>5 DEF Committed
        <3>2. CASE Begun(Program, p) <= utail
            BY <2>0, <2>4, <3>2 DEF CallOK, Committed
        <3>3. CASE Begun(Program, p) = utail + 1
            <4>1. pos \in 1 .. Len(Program) /\ pos - 1 \in 0 .. Len(Program)
                BY <1>p, <2>1 DEF Positions
            <4>2. ASSUME pos < p PROVE FALSE
                <5>1. Begun(Program, p) > Begun(Program, pos)
                    BY <1>p, <1>q, <2>0, <2>1, <4>1, <4>2, BehindEnd
                <5>2. QED
                    BY <1>t, <2>1, <3>3, <5>1
            <4>3. p <= pos - 1
                BY <1>p, <2>0, <2>1, <4>1, <4>2
            <4>4. CallNo(Program, p) <= rptr
                BY <1>p, <2>0, <2>2, <3>3, <4>1, <4>3, CountOrder
            <4>5. OnRecord(p)
                BY <1>t, <2>0, <2>2, <2>3, <3>3, <4>4 DEF OnRecord
            <4>6. QED
                BY <2>0, <2>4, <4>5 DEF CallOK
        <3>4. QED
            BY <1>t, <2>0, <3>1, <3>2, <3>3
    <2>6. ~ OnRecord(p)'
        BY <1>q, <2>0, <2>3 DEF OnRecord
    <2>7. ASSUME Begun(Program, p) > utail + 1 PROVE Untouched(p)
        BY <2>0, <2>7 DEF CallOK, Ahead
    <2>8. ASSUME Current(p)' PROVE CurrentOK(p)'
        <3>1. Begun(Program, p) = utail + 2
            BY <1>q, <1>t, <2>3, <2>8 DEF Current
        <3>2. Untouched(p)
            BY <1>t, <2>7, <3>1
        <3>3. ~ NoMoreCalls
            BY <1>t, <3>1 DEF NoMoreCalls
        <3>4. ~ Left
            BY <1>0, <2>1, <3>3, NotBehindEnd DEF LeftInv, Stale
        <3>5. ktail = 0 /\ listDone = FALSE
            BY <1>t, <3>4 DEF Left
        <3>6. SoFar(p) /\ ~ Stale'
            BY <1>4, <2>0, <3>2, <3>5, NothingLeft DEF CommitTx, Stale
        <3>7. QED
            BY <2>4, <3>4, <3>6 DEF CurrentOK
    <2>9. ASSUME Ahead(p)' PROVE Untouched(p)'
        <3>1. Begun(Program, p) > utail + 1
            BY <1>q, <1>t, <2>0, <2>3, <2>9 DEF Ahead
        <3>2. QED
            BY <2>4, <2>7, <3>1
    <2>10. QED
        BY <2>5, <2>6, <2>8, <2>9 DEF CallOK
<1>5. ASSUME AdvanceUserPtr PROVE \A p \in Syscalls : CallOK(p)'
    <2>1. Recorded' = Recorded
        BY <1>0, <1>5 DEF AdvanceUserPtr, Recorded
    <2>2. Stale' <=> Stale
        BY <1>0, <1>q, <1>5 DEF AdvanceUserPtr, Stale, At, IsSys, HasEntry
    <2>3. QED
        BY <1>0, <1>5, <2>1, <2>2, KeepCalls DEF AdvanceUserPtr
<1>6. ASSUME UserTxEnd PROVE \A p \in Syscalls : CallOK(p)'
    <2>1. Recorded' = Recorded
        BY <1>0, <1>6 DEF UserTxEnd, Recorded, PlaceInv
    <2>2. Stale' <=> Stale
        BY <1>0, <1>q, <1>6 DEF UserTxEnd, Stale, At, IsSys, HasEntry
    <2>3. QED
        BY <1>0, <1>6, <2>1, <2>2, KeepCalls DEF UserTxEnd
<1>7. ASSUME BypassSyscall PROVE \A p \in Syscalls : CallOK(p)'
    <2>1. Recorded' = Recorded
        BY <1>0, <1>7 DEF BypassSyscall, Recorded
    <2>2. Stale' <=> Stale
        BY <1>0, <1>q, <1>7 DEF BypassSyscall, Stale, At, IsSys, HasEntry
    <2>3. QED
        BY <1>0, <1>7, <2>1, <2>2, KeepCalls DEF BypassSyscall
<1>8. ASSUME EnterSyscall PROVE \A p \in Syscalls : CallOK(p)'
    <2>1. Recorded' = Recorded
        BY <1>0, <1>8 DEF EnterSyscall, Recorded
    <2>2. Stale' <=> Stale
        BY <1>0, <1>q, <1>8 DEF EnterSyscall, Stale, At, IsSys, HasEntry
    <2>3. QED
        BY <1>0, <1>8, <2>1, <2>2, KeepCalls DEF EnterSyscall
<1>9. ASSUME EnterOutside PROVE \A p \in Syscalls : CallOK(p)'
    <2>1. Recorded' = Recorded
        BY <1>0, <1>9 DEF EnterOutside, Recorded
    <2>2. Stale' <=> Stale
        BY <1>0, <1>q, <1>9 DEF EnterOutside, Stale, At, IsSys, HasEntry
    <2>3. QED
        BY <1>0, <1>9, <2>1, <2>2, KeepCalls DEF EnterOutside
<1>10. ASSUME BypassKernelTx PROVE \A p \in Syscalls : CallOK(p)'
    <2>1. Recorded' = Recorded
        BY <1>0, <1>10 DEF BypassKernelTx, Recorded
    <2>2. Stale' <=> Stale
        BY <1>0, <1>q, <1>10 DEF BypassKernelTx, Stale, At, IsSys, HasEntry
    <2>3. QED
        BY <1>0, <1>10, <2>1, <2>2, KeepCalls DEF BypassKernelTx
<1>11. ASSUME NEW v \in Value, RunKernelTx(v) PROVE \A p \in Syscalls : CallOK(p)'
    <2> SUFFICES ASSUME NEW p \in Syscalls PROVE CallOK(p)'
        OBVIOUS
    <2>0. p \in Positions /\ Op(p) = "sys" /\ CallOK(p) /\ Ktx(p)' = Ktx(p) /\ Ktx(p) \in 0 .. 2
        BY <1>0, <1>q, CallFacts DEF BaseInv, Ktx
    <2>1. Recorded' = Recorded /\ ~ Stale /\ ~ Stale' /\ pos \in Positions /\ Op(pos) \in {"sys", "out"}
        BY <1>0, <1>11 DEF RunKernelTx, Recorded, Stale, PlaceInv, Calling
    <2>2. CASE Op(pos) = "sys"
        <3>1. Current(pos) /\ (Current(p) => p = pos) /\ ~ ucom
            BY <1>11, <2>2, ThisIsCurrent DEF RunKernelTx, IsSys
        <3>2. CASE p = pos
            <4>1. SoFar(pos)
                BY <2>0, <2>1, <3>1, <3>2 DEF CallOK, CurrentOK
            <4>2. ktail = knum - 1 /\ ktail' = knum /\ knum \in 1 .. 3 /\ knum <= Ktx(pos)
                BY <1>0, <1>t, <1>11, <2>2 DEF RunKernelTx, KernelInv, Calling, IsSys
            <4>3. knum \in 1 .. 2 /\ kruns' = [kruns EXCEPT ![pos][knum] = @ + 1]
                BY <1>11, <2>0, <3>2, <4>2 DEF RunKernelTx
            <4>4. /\ \A j \in 1 .. 2 : j # knum => kruns'[pos][j] = kruns[pos][j]
                  /\ kruns'[pos][knum] = kruns[pos][knum] + 1
                BY <1>t, <2>1, <4>3
            <4>5. \A j \in 1 .. Ktx(pos) : kruns'[pos][j] = IF j <= ktail' THEN 1 ELSE 0
                <5> SUFFICES ASSUME NEW j \in 1 .. Ktx(pos)
                             PROVE  kruns'[pos][j] = IF j <= ktail' THEN 1 ELSE 0
                    OBVIOUS
                <5>1. kruns[pos][j] = (IF j <= ktail THEN 1 ELSE 0) /\ j \in 1 .. 2
                    BY <2>0, <3>2, <4>1 DEF SoFar
                <5>2. CASE j = knum
                    BY <4>2, <4>4, <5>1, <5>2
                <5>3. CASE j # knum
                    BY <4>2, <4>4, <5>1, <5>3
                <5>4. QED
                    BY <5>2, <5>3
            <4>6. SoFar(pos)'
                BY <1>0, <1>q, <1>11, <2>0, <3>2, <4>1, <4>2, <4>5 DEF RunKernelTx, SoFar
            <4>7. CurrentOK(p)'
                BY <1>11, <2>1, <3>1, <3>2, <4>6 DEF RunKernelTx, CurrentOK
            <4>8. QED
                BY <1>0, <1>11, <2>0, <2>1, <3>1, <3>2, <4>7, KeepCall DEF RunKernelTx
        <3>3. CASE p # pos
            <4>1. kruns'[p] = kruns[p]
                BY <1>t, <1>11, <2>0, <3>3 DEF RunKernelTx
            <4>2. QED
                BY <1>0, <1>11, <2>0, <2>1, <3>1, <3>3, <4>1, KeepCall DEF RunKernelTx
        <3>4. QED
            BY <3>2, <3>3
    <2>3. CASE Op(pos) = "out"
        <3>1. ~ Current(p) /\ p # pos
            BY <1>11, <2>0, <2>3, OutsideCall DEF RunKernelTx, Calling
        <3>2. kruns'[p] = kruns[p]
            BY <1>t, <1>11, <2>0, <3>1 DEF RunKernelTx
        <3>3. QED
            BY <1>0, <1>11, <2>0, <2>1, <3>1, <3>2, KeepCall DEF RunKernelTx
    <2>4. QED
        BY <2>1, <2>2, <2>3
<1>12. ASSUME AdvanceKernelPtr PROVE \A p \in Syscalls : CallOK(p)'
    <2>1. Recorded' = Recorded
        BY <1>0, <1>12 DEF AdvanceKernelPtr, Recorded
    <2>2. Stale' <=> Stale
        BY <1>0, <1>q, <1>12 DEF AdvanceKernelPtr, Stale, At, IsSys, HasEntry
    <2>3. QED
        BY <1>0, <1>12, <2>1, <2>2, KeepCalls DEF AdvanceKernelPtr
<1>13. ASSUME ListOp PROVE \A p \in Syscalls : CallOK(p)'
    <2> SUFFICES ASSUME NEW p \in Syscalls PROVE CallOK(p)'
        OBVIOUS
    <2>0. p \in Positions /\ Op(p) = "sys" /\ CallOK(p) /\ Ktx(p)' = Ktx(p)
        BY <1>0, <1>q, CallFacts DEF BaseInv, Ktx
    <2>1. Recorded' = Recorded /\ ~ Stale /\ pos \in Positions /\ Op(pos) \in {"sys", "out"}
        BY <1>0, <1>13 DEF ListOp, Recorded, Stale, PlaceInv, Calling
    <2>2. CASE Op(pos) = "sys"
        <3>1. Current(pos) /\ (Current(p) => p = pos) /\ ~ ucom
            BY <1>13, <2>2, ThisIsCurrent DEF ListOp, IsSys
        <3>2. CASE p = pos
            <4>1. SoFar(pos)
                BY <2>0, <2>1, <3>1, <3>2 DEF CallOK, CurrentOK
            <4>2. ~ Stale' /\ ktail' = ktail /\ kruns' = kruns /\ ucom' = ucom /\ pos' = pos
                BY <1>13, <2>2 DEF ListOp, Stale
            <4>3. ASSUME Program[pos].list, ~ listDone PROVE SoFar(pos)'
                <5>1. listDone' = TRUE /\ lruns' = [lruns EXCEPT ![pos] = @ + 1] /\ pos' = pos
                    BY <1>13, <2>2, <4>3 DEF ListOp
                <5>2. lruns'[pos] = 1
                    BY <1>t, <2>1, <4>1, <4>3, <5>1 DEF SoFar
                <5>3. QED
                    BY <1>q, <2>0, <3>2, <4>1, <4>2, <4>3, <5>1, <5>2 DEF SoFar
            <4>4. ASSUME ~ (Program[pos].list /\ ~ listDone) PROVE SoFar(pos)'
                BY <1>q, <1>13, <2>0, <3>2, <4>1, <4>2, <4>4 DEF ListOp, SoFar
            <4>5. CurrentOK(p)'
                BY <3>1, <3>2, <4>2, <4>3, <4>4 DEF CurrentOK
            <4>6. QED
                BY <1>0, <1>13, <2>0, <2>1, <3>1, <3>2, <4>5, KeepCall DEF ListOp
        <3>3. CASE p # pos
            <4>1. lruns'[p] = lruns[p]
                BY <1>t, <1>13, <2>0, <3>3 DEF ListOp
            <4>2. QED
                BY <1>0, <1>13, <2>0, <2>1, <3>1, <3>3, <4>1, KeepCall DEF ListOp
        <3>4. QED
            BY <3>2, <3>3
    <2>3. CASE Op(pos) = "out"
        <3>1. ~ Current(p) /\ lruns' = lruns
            BY <1>13, <2>3, OutsideCall DEF ListOp, Calling
        <3>2. QED
            BY <1>0, <1>13, <2>0, <2>1, <3>1, KeepCall DEF ListOp
    <2>4. QED
        BY <2>1, <2>2, <2>3
<1>14. ASSUME WriteEntry PROVE \A p \in Syscalls : CallOK(p)'
    <2> SUFFICES ASSUME NEW p \in Syscalls PROVE CallOK(p)'
        OBVIOUS
    <2>0. CallOK(p) /\ Ktx(p)' = Ktx(p) /\ CallNo(Program, p) \in Nat
        BY <1>0, <1>q, CallFacts DEF BaseInv, Ktx
    <2>1. Recorded' = Recorded /\ ~ Stale /\ ~ Stale' /\ IsSys
        BY <1>0, <1>14 DEF WriteEntry, Recorded, Stale, PlaceInv, Calling
    <2>2. Recorded = rtail
        BY <1>14, <2>1, ThisIsCurrent DEF WriteEntry
    <2>3. OnRecord(p) => entries'[CallNo(Program, p)] = entries[CallNo(Program, p)]
        <3>1. OnRecord(p) => CallNo(Program, p) # rtail + 1
            BY <1>t, <2>0, <2>2 DEF OnRecord
        <3>2. entries \in [1 .. ReplaySize -> Value \union {NoValue}] /\ entries' = [entries EXCEPT ![rtail + 1] = ret]
            BY <1>14 DEF WriteEntry, BaseInv, Types
        <3>3. \A i : i # rtail + 1 => entries'[i] = entries[i]
            BY <3>2
        <3>4. QED
            BY <3>1, <3>3
    <2>4. Current(p) => CurrentOK(p)'
        <3>1. (SoFar(p)' <=> SoFar(p)) /\ (Left' <=> Left)
            BY <1>q, <1>14, <2>0 DEF WriteEntry, SoFar, Left
        <3>2. QED
            BY <1>14, <2>0, <2>1, <3>1 DEF WriteEntry, CallOK, CurrentOK
    <2>5. QED
        BY <1>0, <1>14, <2>0, <2>1, <2>3, <2>4, KeepCall DEF WriteEntry
<1>15. ASSUME ReplayCacheFull PROVE \A p \in Syscalls : CallOK(p)'
    <2>1. Recorded' = Recorded
        BY <1>0, <1>15 DEF ReplayCacheFull, Recorded
    <2>2. Stale' <=> Stale
        BY <1>0, <1>q, <1>15 DEF ReplayCacheFull, Stale, At, IsSys, HasEntry
    <2>3. QED
        BY <1>0, <1>15, <2>1, <2>2, KeepCalls DEF ReplayCacheFull
<1>16. ASSUME BumpEntryTail PROVE \A p \in Syscalls : CallOK(p)'
    <2> SUFFICES ASSUME NEW p \in Syscalls PROVE CallOK(p)'
        OBVIOUS
    <2>0. /\ CallOK(p) /\ Ktx(p)' = Ktx(p) /\ Ktx(p) \in 0 .. 2 /\ CallNo(Program, p) \in Nat
          /\ Begun(Program, p) \in Nat /\ p \in Positions
        BY <1>0, <1>q, CallFacts DEF BaseInv, Ktx
    <2>1. IsSys /\ ~ Stale /\ Stale'
        BY <1>0, <1>q, <1>16 DEF BumpEntryTail, PlaceInv, Calling, Stale, IsSys
    <2>2. pos \in Syscalls /\ ~ ucom /\ Recorded = rtail /\ Current(pos) /\ (Current(p) => p = pos)
        BY <1>16, <2>1, ThisIsCurrent DEF BumpEntryTail
    <2>3. Recorded' = Recorded + 1 /\ utail' = utail /\ ucom' = ucom
        BY <1>16, <2>2 DEF BumpEntryTail, Recorded
    <2>4. (Done(p)' <=> Done(p)) /\ (Untouched(p)' <=> Untouched(p))
        BY <1>q, <1>16, <2>0 DEF BumpEntryTail, Done, Untouched
    <2>5. first \in [Positions -> Value \union {NoValue}] /\ first' = [first EXCEPT ![pos] = IF Returns(pos) THEN ret ELSE @] /\ entries' = entries
        BY <1>16 DEF BumpEntryTail, BaseInv, Types
    <2>6. ASSUME OnRecord(p)' PROVE Done(p)' /\ (Returns(p) => first[p] = entries[CallNo(Program, p)])'
        <3>1. Begun(Program, p) = utail + 1 /\ CallNo(Program, p) <= Recorded + 1
            BY <1>q, <2>3, <2>6 DEF OnRecord
        <3>2. CASE CallNo(Program, p) = Recorded + 1
            <4>1. p = pos /\ SoFar(p)
                BY <2>0, <2>1, <2>2, <3>1, <3>2 DEF Current, CallOK, CurrentOK
            <4>2. ktail >= Ktx(p) /\ (Program[p].list => listDone)
                BY <1>0, <1>16, <2>1, <4>1 DEF BumpEntryTail, KernelInv, Calling
            <4>3. Done(p)
                BY <1>t, <2>0, <4>1, <4>2 DEF SoFar, Done
            <4>4. Returns(p) => first'[p] = ret /\ entries[rtail + 1] = ret
                BY <1>r, <1>16, <2>0, <2>5, <4>1 DEF BumpEntryTail
            <4>5. QED
                BY <1>q, <1>v, <2>2, <2>4, <2>5, <3>2, <4>3, <4>4
        <3>3. CASE CallNo(Program, p) # Recorded + 1
            <4>1. OnRecord(p) /\ p # pos
                BY <1>t, <2>0, <2>2, <3>1, <3>3 DEF OnRecord, Current
            <4>2. first'[p] = first[p]
                BY <2>0, <2>5, <4>1
            <4>3. QED
                BY <1>q, <1>v, <2>0, <2>4, <2>5, <4>1, <4>2 DEF CallOK
        <3>4. QED
            BY <3>2, <3>3
    <2>7. Committed(p)' => Done(p)'
        BY <1>q, <2>0, <2>3, <2>4 DEF Committed, CallOK
    <2>8. Current(p)' => Ahead(p)
        BY <1>q, <1>t, <2>0, <2>3 DEF Current, Ahead
    <2>9. Ahead(p)' => Ahead(p)
        BY <1>q, <1>t, <2>0, <2>3 DEF Ahead
    <2>10. Ahead(p) => Untouched(p)'
        BY <2>0, <2>4 DEF CallOK
    <2>11. QED
        BY <2>1, <2>2, <2>3, <2>6, <2>7, <2>8, <2>9, <2>10 DEF CallOK, CurrentOK
<1>17. ASSUME ResetKernelCache PROVE \A p \in Syscalls : CallOK(p)'
    <2> SUFFICES ASSUME NEW p \in Syscalls PROVE CallOK(p)'
        OBVIOUS
    <2>0. CallOK(p) /\ Ktx(p)' = Ktx(p) /\ Ktx(p) \in 0 .. 2
        BY <1>0, <1>q, CallFacts DEF BaseInv, Ktx
    <2>1. Recorded' = Recorded
        BY <1>17 DEF ResetKernelCache, Recorded
    <2>2. Current(p) => CurrentOK(p)'
        <3>1. CASE Op(pos) = "out"
            BY <1>17, <3>1, OutsideCall DEF ResetKernelCache, Calling
        <3>2. CASE Op(pos) = "sys"
            <4>1. Stale /\ Stale'
                BY <1>q, <1>17, <3>2 DEF ResetKernelCache, Stale, IsSys
            <4>2. (Untouched(p)' <=> Untouched(p)) /\ (Left' => Left)
                BY <1>q, <1>17, <2>0 DEF ResetKernelCache, Untouched, Left
            <4>3. QED
                BY <1>17, <2>0, <4>1, <4>2 DEF ResetKernelCache, CallOK, CurrentOK
        <3>3. QED
            BY <1>0, <1>17, <3>1, <3>2 DEF ResetKernelCache, PlaceInv, Calling
    <2>3. QED
        BY <1>0, <1>17, <2>0, <2>1, <2>2, KeepCall DEF ResetKernelCache
<1>18. ASSUME ResetListTx PROVE \A p \in Syscalls : CallOK(p)'
    <2> SUFFICES ASSUME NEW p \in Syscalls PROVE CallOK(p)'
        OBVIOUS
    <2>0. CallOK(p) /\ Ktx(p)' = Ktx(p) /\ Ktx(p) \in 0 .. 2
        BY <1>0, <1>q, CallFacts DEF BaseInv, Ktx
    <2>1. Recorded' = Recorded
        BY <1>18 DEF ResetListTx, Recorded
    <2>2. Current(p) => CurrentOK(p)'
        <3>0. ktail = 0 /\ listDone' = FALSE /\ ktail' = 0
            BY <1>0, <1>18 DEF ResetListTx, KernelInv
        <3>1. CASE Op(pos) = "out"
            BY <1>18, <3>1, OutsideCall DEF ResetListTx, Calling
        <3>2. CASE Op(pos) = "sys"
            <4>1. Stale /\ ~ Stale'
                BY <1>q, <1>18, <3>2 DEF ResetListTx, Stale, IsSys
            <4>2. Untouched(p) => SoFar(p)'
                BY <1>q, <1>18, <2>0, <3>0 DEF ResetListTx, Untouched, SoFar
            <4>3. ~ Left'
                BY <3>0 DEF Left
            <4>4. QED
                BY <2>0, <4>1, <4>2, <4>3 DEF CallOK, CurrentOK
        <3>3. QED
            BY <1>0, <1>18, <3>1, <3>2 DEF ResetListTx, PlaceInv, Calling
    <2>3. QED
        BY <1>0, <1>18, <2>0, <2>1, <2>2, KeepCall DEF ResetListTx
<1>19. ASSUME CommitEntry PROVE \A p \in Syscalls : CallOK(p)'
    <2>1. Recorded' = Recorded
        BY <1>0, <1>19 DEF CommitEntry, Recorded
    <2>2. Stale' <=> Stale
        BY <1>0, <1>q, <1>19 DEF CommitEntry, Stale, At, IsSys, HasEntry
    <2>3. QED
        BY <1>0, <1>19, <2>1, <2>2, KeepCalls DEF CommitEntry
<1>20. ASSUME Crash PROVE \A p \in Syscalls : CallOK(p)'
    <2> SUFFICES ASSUME NEW p \in Syscalls PROVE CallOK(p)'
        OBVIOUS
    <2>0. CallOK(p) /\ Ktx(p)' = Ktx(p) /\ Ktx(p) \in 0 .. 2
        BY <1>0, <1>q, CallFacts DEF BaseInv, Ktx
    <2>1. Recorded' = Recorded
        BY <1>20 DEF Crash, Recorded
    <2>2. Current(p) => CurrentOK(p)'
        <3>1. SUFFICES ASSUME Current(p) PROVE CurrentOK(p)'
            OBVIOUS
        <3>2. CurrentOK(p)
            BY <2>0, <3>1 DEF CallOK
        <3>3. /\ Stale' <=> HasEntry
              /\ Stale => HasEntry
            BY <1>0, <1>t, <1>q, <1>20 DEF Crash, Stale, HasEntry, IsSys, PlaceInv, Calling
        <3>4. (SoFar(p)' <=> SoFar(p)) /\ (Untouched(p)' <=> Untouched(p)) /\ (Left' <=> Left)
            BY <1>q, <1>20, <2>0 DEF Crash, SoFar, Untouched, Left
        <3>5. CASE Stale \/ ~ HasEntry
            BY <1>20, <3>2, <3>3, <3>4, <3>5 DEF Crash, CurrentOK
        <3>6. CASE ~ Stale /\ HasEntry
            <4>1. ~ Left
                <5>1. CASE ucom
                    BY <3>2, <5>1 DEF CurrentOK
                <5>2. CASE ~ ucom
                    <6>1. Recorded = rtail /\ CallNo(Program, p) >= 2
                        BY <1>t, <3>1, <3>6, <5>2 DEF Recorded, Current, HasEntry
                    <6>2. ~ OneCallEach(Program)
                        BY <1>q, <6>1, CallFacts DEF OneCallEach, BaseInv
                    <6>3. crashes = 0
                        BY <1>g, <1>t, <1>20, <6>2 DEF Crash
                    <6>4. pc = "commit"
                        BY <1>0, <1>t, <3>6, <5>2, <6>3 DEF FirstRun, PlaceInv, Stale, HasEntry
                    <6>5. QED
                        BY <1>0, <6>4 DEF KernelInv, Left
                <5>3. QED
                    BY <1>t, <5>1, <5>2
            <4>2. ktail = 0 /\ listDone = FALSE
                BY <1>t, <4>1 DEF Left
            <4>3. Untouched(p)
                BY <2>0, <3>2, <3>6, <4>2, NothingLeft DEF CurrentOK
            <4>4. QED
                BY <3>3, <3>4, <3>6, <4>1, <4>3 DEF CurrentOK
        <3>7. QED
            BY <3>5, <3>6
    <2>3. QED
        BY <1>0, <1>20, <2>0, <2>1, <2>2, KeepCall DEF Crash
<1>21. ASSUME JitCheckReplay PROVE \A p \in Syscalls : CallOK(p)'
    <2>1. Recorded' = Recorded
        BY <1>0, <1>21 DEF JitCheckReplay, Recorded
    <2>2. Stale' <=> Stale
        BY <1>0, <1>q, <1>21 DEF JitCheckReplay, Stale, At, IsSys, HasEntry
    <2>3. QED
        BY <1>0, <1>21, <2>1, <2>2, KeepCalls DEF JitCheckReplay
<1>22. ASSUME JitResetKernelCache PROVE \A p \in Syscalls : CallOK(p)'
    <2> SUFFICES ASSUME NEW p \in Syscalls PROVE CallOK(p)'
        OBVIOUS
    <2>0. CallOK(p) /\ Ktx(p)' = Ktx(p) /\ Ktx(p) \in 0 .. 2
        BY <1>0, <1>q, CallFacts DEF BaseInv, Ktx
    <2>1. Recorded' = Recorded
        BY <1>22 DEF JitResetKernelCache, Recorded
    <2>2. Current(p) => CurrentOK(p)'
        <3>1. Stale /\ Stale'
            BY <1>22 DEF JitResetKernelCache, Stale
        <3>2. (Untouched(p)' <=> Untouched(p)) /\ (Left' => Left)
            BY <1>q, <1>22, <2>0 DEF JitResetKernelCache, Untouched, Left
        <3>3. QED
            BY <1>22, <2>0, <3>1, <3>2 DEF JitResetKernelCache, CallOK, CurrentOK
    <2>3. QED
        BY <1>0, <1>22, <2>0, <2>1, <2>2, KeepCall DEF JitResetKernelCache
<1>23. ASSUME JitResetListTx PROVE \A p \in Syscalls : CallOK(p)'
    <2> SUFFICES ASSUME NEW p \in Syscalls PROVE CallOK(p)'
        OBVIOUS
    <2>0. CallOK(p) /\ Ktx(p)' = Ktx(p) /\ Ktx(p) \in 0 .. 2
        BY <1>0, <1>q, CallFacts DEF BaseInv, Ktx
    <2>1. Recorded' = Recorded
        BY <1>23 DEF JitResetListTx, Recorded
    <2>2. Current(p) => CurrentOK(p)'
        <3>0. ktail = 0 /\ listDone' = FALSE /\ ktail' = 0
            BY <1>0, <1>23 DEF JitResetListTx, KernelInv
        <3>1. Stale /\ ~ Stale'
            BY <1>23 DEF JitResetListTx, Stale
        <3>2. Untouched(p) => SoFar(p)'
            BY <1>q, <1>23, <2>0, <3>0 DEF JitResetListTx, Untouched, SoFar
        <3>3. ~ Left'
            BY <3>0 DEF Left
        <3>4. QED
            BY <2>0, <3>1, <3>2, <3>3 DEF CallOK, CurrentOK
    <2>3. QED
        BY <1>0, <1>23, <2>0, <2>1, <2>2, KeepCall DEF JitResetListTx
<1>24. ASSUME UserRecovery PROVE \A p \in Syscalls : CallOK(p)'
    <2>1. Recorded' = Recorded
        BY <1>0, <1>24 DEF UserRecovery, Recorded
    <2>2. Stale' <=> Stale
        BY <1>0, <1>q, <1>24 DEF UserRecovery, Stale, At, IsSys, HasEntry
    <2>3. QED
        BY <1>0, <1>24, <2>1, <2>2, KeepCalls DEF UserRecovery
<1>25. ASSUME UserRestart PROVE \A p \in Syscalls : CallOK(p)'
    <2>1. Recorded' = Recorded
        BY <1>0, <1>25 DEF UserRestart, Recorded
    <2>2. Stale' <=> Stale
        BY <1>0, <1>q, <1>25 DEF UserRestart, Stale, At, IsSys, HasEntry
    <2>3. QED
        BY <1>0, <1>25, <2>1, <2>2, KeepCalls DEF UserRestart
<1>u. CASE UNCHANGED vars
    <2>1. /\ pc' = pc /\ pos' = pos /\ rptr' = rptr /\ rtail' = rtail /\ utail' = utail /\ ucom' = ucom
          /\ ktail' = ktail /\ listDone' = listDone /\ kruns' = kruns /\ lruns' = lruns
          /\ first' = first /\ entries' = entries
        BY <1>u DEF vars
    <2>2. Recorded' = Recorded /\ (Stale' <=> Stale)
        BY <1>0, <1>q, <2>1 DEF Recorded, Stale, HasEntry, IsSys
    <2>3. QED
        BY <1>0, <2>1, <2>2, KeepCalls
<1>z. QED
    BY <1>u, <1>1, <1>2, <1>3, <1>4, <1>5, <1>6, <1>7, <1>8, <1>9, <1>10, <1>11, <1>12, <1>13, <1>14, <1>15, <1>16, <1>17, <1>18, <1>19, <1>20, <1>21, <1>22, <1>23, <1>24, <1>25 DEF Next, Step

\* The result that is being recorded is the one the call returns.
LEMMA ReturnStep ==
    ASSUME BaseInv, RecordInv, [Next]_vars
    PROVE  /\ Writing' => entries'[rtail' + 1] = ret'
           /\ pc' \in {"kreset", "lreset", "commit"} /\ IsSys' /\ Returns(pos)' => first'[pos'] = ret'
<1> DEFINE Goal == /\ Writing' => entries'[rtail' + 1] = ret'
                   /\ pc' \in {"kreset", "lreset", "commit"} /\ IsSys' /\ Returns(pos)' => first'[pos'] = ret'
<1>0. /\ PlaceInv /\ task' = task
      /\ pc \in {"kreset", "lreset", "commit"} /\ IsSys /\ Returns(pos) => first[pos] = ret
      /\ Writing => entries[rtail + 1] = ret
    BY DEF BaseInv, RecordInv, Next, vars
<1>q. /\ (IsSys <=> Op(pos) = "sys") /\ (IsSys' <=> Program[pos'].op = "sys") /\ Op(pos) = Program[pos].op
      /\ (Writing <=> pc = "bump" /\ Program[pos].res) /\ (Writing' <=> pc' = "bump" /\ Program[pos'].res)
      /\ Returns(pos) = Program[pos].res /\ Returns(pos)' = Program[pos'].res
    BY <1>0 DEF Program, Op, IsSys, Writing, Returns
<1>t. /\ entries \in [1 .. ReplaySize -> Value \union {NoValue}] /\ first \in [Positions -> Value \union {NoValue}]
      /\ rtail \in Nat /\ ReplaySize \in Nat
    BY ReplayAssumption DEF BaseInv, Types, ReplayAssumption
<1> USE DEF userCache, kernelCache, replayCache, locals, history
<1>1. ASSUME BypassTx PROVE Goal
    BY <1>0, <1>q, <1>1 DEF BypassTx, At
<1>2. ASSUME UserTxStart PROVE Goal
    BY <1>0, <1>q, <1>2 DEF UserTxStart, At
<1>3. ASSUME BeginTx PROVE Goal
    BY <1>0, <1>q, <1>3 DEF BeginTx, At
<1>4. ASSUME CommitTx PROVE Goal
    BY <1>0, <1>q, <1>4 DEF CommitTx, At
<1>5. ASSUME AdvanceUserPtr PROVE Goal
    BY <1>0, <1>q, <1>5 DEF AdvanceUserPtr, At
<1>6. ASSUME UserTxEnd PROVE Goal
    BY <1>0, <1>q, <1>6 DEF UserTxEnd, At
<1>7. ASSUME BypassSyscall PROVE Goal
    BY <1>0, <1>q, <1>7 DEF BypassSyscall, At
<1>8. ASSUME EnterSyscall PROVE Goal
    BY <1>0, <1>q, <1>8 DEF EnterSyscall, At
<1>9. ASSUME EnterOutside PROVE Goal
    BY <1>0, <1>q, <1>9 DEF EnterOutside, At
<1>10. ASSUME BypassKernelTx PROVE Goal
    BY <1>0, <1>q, <1>10 DEF BypassKernelTx, At
<1>11. ASSUME NEW v \in Value, RunKernelTx(v) PROVE Goal
    BY <1>0, <1>q, <1>11 DEF RunKernelTx, At
<1>12. ASSUME AdvanceKernelPtr PROVE Goal
    BY <1>0, <1>q, <1>12 DEF AdvanceKernelPtr, At
<1>13. ASSUME ListOp PROVE Goal
    BY <1>0, <1>q, <1>13 DEF ListOp, At
<1>14. ASSUME WriteEntry PROVE Goal
    BY <1>t, <1>14 DEF WriteEntry, EntryFits
<1>15. ASSUME ReplayCacheFull PROVE Goal
    BY <1>0, <1>q, <1>15 DEF ReplayCacheFull, At
<1>16. ASSUME BumpEntryTail PROVE Goal
    <2>1. pos \in Positions
        BY <1>0, <1>16 DEF BumpEntryTail, PlaceInv, Calling
    <2>2. QED
        BY <1>q, <1>t, <1>16, <2>1 DEF BumpEntryTail
<1>17. ASSUME ResetKernelCache PROVE Goal
    BY <1>0, <1>q, <1>17 DEF ResetKernelCache, At
<1>18. ASSUME ResetListTx PROVE Goal
    BY <1>0, <1>q, <1>18 DEF ResetListTx, At
<1>19. ASSUME CommitEntry PROVE Goal
    BY <1>0, <1>q, <1>19 DEF CommitEntry, At
<1>20. ASSUME Crash PROVE Goal
    BY <1>0, <1>q, <1>20 DEF Crash, At
<1>21. ASSUME JitCheckReplay PROVE Goal
    BY <1>0, <1>q, <1>21 DEF JitCheckReplay, At
<1>22. ASSUME JitResetKernelCache PROVE Goal
    BY <1>0, <1>q, <1>22 DEF JitResetKernelCache, At
<1>23. ASSUME JitResetListTx PROVE Goal
    BY <1>0, <1>q, <1>23 DEF JitResetListTx, At
<1>24. ASSUME UserRecovery PROVE Goal
    BY <1>0, <1>q, <1>24 DEF UserRecovery, At
<1>25. ASSUME UserRestart PROVE Goal
    BY <1>0, <1>q, <1>25 DEF UserRestart, At
<1>u. CASE UNCHANGED vars
    <2>1. pc' = pc /\ pos' = pos /\ rtail' = rtail /\ ret' = ret /\ first' = first /\ entries' = entries
        BY <1>u DEF vars
    <2>2. QED
        BY <1>0, <1>q, <2>1
<1>z. QED
    BY <1>u, <1>1, <1>2, <1>3, <1>4, <1>5, <1>6, <1>7, <1>8, <1>9, <1>10, <1>11, <1>12, <1>13, <1>14, <1>15, <1>16, <1>17, <1>18, <1>19, <1>20, <1>21, <1>22, <1>23, <1>24, <1>25 DEF Next, Step

\* Every step keeps the results the task has seen equal to the first ones.
LEMMA ResultsStep ==
    ASSUME BaseInv, RecordInv, ReplayedResults, [Next]_vars
    PROVE  ReplayedResults'
<1>0. PlaceInv /\ ReplayedResults /\ task' = task
    BY DEF BaseInv, Next, vars
<1>p. Program \in Seq(Instr) /\ Len(Program) \in Nat
    BY ProgramFacts DEF BaseInv
<1>q. Program' = Program /\ Syscalls' = Syscalls /\ \A p : (Op(p)' = Op(p) /\ TxOf(p)' = TxOf(p) /\ Returns(p)' = Returns(p))
    BY <1>0 DEF Program, Positions, Syscalls, Op, TxOf, Returns
<1>t. /\ uptr \in Nat /\ utail \in Nat /\ rptr \in Nat /\ rtail \in Nat /\ pos \in Nat
      /\ view \in [Positions -> Value \union {NoValue}] /\ first \in [Positions -> Value \union {NoValue}]
    BY DEF BaseInv, Types
<1> USE DEF userCache, kernelCache, replayCache, locals, history
<1>1. ASSUME BypassTx PROVE ReplayedResults'
    <2>1. pos \in Positions /\ Op(pos) = "begin" /\ Begun(Program, pos) = uptr + 1
        BY <1>0, <1>1, PosFacts DEF BypassTx, At, PlaceInv, Jit
    <2>2. PICK e \in Nat : e = EndOf(pos) /\ Begun(Program, e) = uptr + 1 /\ e \in 0 .. Len(Program)
        BY <1>p, <2>1, EndFacts DEF Positions
    <2>3. ASSUME NEW p \in Syscalls, p < pos' PROVE ~ (TxOf(p) > uptr')
        <3>1. p <= e /\ p \in 0 .. Len(Program) /\ TxOf(p) = Begun(Program, p) /\ TxOf(p) \in Nat
            BY <1>p, <1>1, <2>2, <2>3, CallFacts, TxIs DEF BypassTx, BaseInv
        <3>2. Begun(Program, p) <= Begun(Program, e)
            BY <1>p, <2>2, <3>1, CountOrder
        <3>3. QED
            BY <1>t, <1>1, <2>2, <3>1, <3>2 DEF BypassTx
    <2>4. QED
        BY <1>q, <2>3 DEF ReplayedResults
<1>2. ASSUME UserTxStart PROVE ReplayedResults'
    <2>1. pos' = pos /\ uptr' = uptr /\ view' = view /\ first' = first
        BY <1>2 DEF UserTxStart
    <2>2. QED
        BY <1>0, <1>q, <2>1 DEF ReplayedResults
<1>3. ASSUME BeginTx PROVE ReplayedResults'
    <2>1. /\ pos \in Positions /\ Op(pos) # "sys" /\ pos' = pos + 1 /\ uptr' = uptr
          /\ view' = view /\ first' = first
        BY <1>0, <1>3 DEF BeginTx, At, PlaceInv, Calling
    <2>2. \A p \in Syscalls : p < pos' => p < pos
        BY <1>t, <2>1 DEF Syscalls, Positions
    <2>3. QED
        BY <1>0, <1>q, <2>1, <2>2 DEF ReplayedResults
<1>4. ASSUME CommitTx PROVE ReplayedResults'
    <2>1. pos' = pos /\ uptr' = uptr /\ view' = view /\ first' = first
        BY <1>4 DEF CommitTx
    <2>2. QED
        BY <1>0, <1>q, <2>1 DEF ReplayedResults
<1>5. ASSUME AdvanceUserPtr PROVE ReplayedResults'
    <2>1. pos' = pos /\ uptr' = utail /\ uptr < utail /\ view' = view /\ first' = first
        BY <1>0, <1>t, <1>5 DEF AdvanceUserPtr, PlaceInv
    <2>2. \A p \in Syscalls : TxOf(p) > uptr' => TxOf(p) > uptr
        <3>1. \A p \in Syscalls : TxOf(p) \in Nat
            BY CallFacts, TxIs DEF BaseInv
        <3>2. QED
            BY <1>t, <2>1, <3>1
    <2>3. QED
        BY <1>0, <1>q, <2>1, <2>2 DEF ReplayedResults
<1>6. ASSUME UserTxEnd PROVE ReplayedResults'
    <2>1. /\ pos \in Positions /\ Op(pos) # "sys" /\ pos' = pos + 1 /\ uptr' = uptr
          /\ view' = view /\ first' = first
        BY <1>0, <1>6 DEF UserTxEnd, At, PlaceInv, Calling
    <2>2. \A p \in Syscalls : p < pos' => p < pos
        BY <1>t, <2>1 DEF Syscalls, Positions
    <2>3. QED
        BY <1>0, <1>q, <2>1, <2>2 DEF ReplayedResults
<1>7. ASSUME BypassSyscall PROVE ReplayedResults'
    <2>1. pos \in Positions /\ Op(pos) = "sys" /\ pos' = pos + 1 /\ uptr' = uptr /\ first' = first
        BY <1>0, <1>7 DEF BypassSyscall, At, PlaceInv, Calling, IsSys
    <2>2. view' = [view EXCEPT ![pos] = IF Returns(pos) THEN entries[rptr + 1] ELSE @]
        BY <1>7 DEF BypassSyscall
    <2>3. Returns(pos) => first[pos] = entries[rptr + 1]
        <3>1. /\ pos \in Syscalls /\ Begun(Program, pos) = utail + 1
              /\ CallNo(Program, pos) = rptr + 1 /\ Recorded = rtail
            BY <1>7, <2>1, ThisCall DEF BypassSyscall, At, Jit
        <3>2. OnRecord(pos)
            BY <1>t, <1>7, <3>1 DEF BypassSyscall, HasEntry, OnRecord
        <3>3. QED
            <4>1. CallOK(pos)
                BY <3>1 DEF RecordInv
            <4>2. QED
                BY <3>1, <3>2, <4>1 DEF CallOK
    <2>4. ASSUME NEW p \in Syscalls, Returns(p), p < pos', TxOf(p) > uptr' PROVE view'[p] = first'[p]
        <3>1. p \in Positions /\ (p = pos \/ p < pos)
            BY <1>t, <2>1, <2>4 DEF Syscalls, Positions
        <3>2. CASE p = pos
            BY <1>t, <2>1, <2>2, <2>3, <2>4, <3>2
        <3>3. CASE p < pos
            <4>1. view[p] = first[p] /\ p # pos
                BY <1>0, <1>t, <2>1, <2>4, <3>1, <3>3 DEF ReplayedResults
            <4>2. QED
                BY <1>t, <2>1, <2>2, <3>1, <4>1
        <3>4. QED
            BY <3>1, <3>2, <3>3
    <2>5. QED
        BY <1>q, <2>4 DEF ReplayedResults
<1>8. ASSUME EnterSyscall PROVE ReplayedResults'
    <2>1. pos' = pos /\ uptr' = uptr /\ view' = view /\ first' = first
        BY <1>8 DEF EnterSyscall
    <2>2. QED
        BY <1>0, <1>q, <2>1 DEF ReplayedResults
<1>9. ASSUME EnterOutside PROVE ReplayedResults'
    <2>1. pos' = pos /\ uptr' = uptr /\ view' = view /\ first' = first
        BY <1>9 DEF EnterOutside
    <2>2. QED
        BY <1>0, <1>q, <2>1 DEF ReplayedResults
<1>10. ASSUME BypassKernelTx PROVE ReplayedResults'
    <2>1. pos' = pos /\ uptr' = uptr /\ view' = view /\ first' = first
        BY <1>10 DEF BypassKernelTx
    <2>2. QED
        BY <1>0, <1>q, <2>1 DEF ReplayedResults
<1>11. ASSUME NEW v \in Value, RunKernelTx(v) PROVE ReplayedResults'
    <2>1. pos' = pos /\ uptr' = uptr /\ view' = view /\ first' = first
        BY <1>11 DEF RunKernelTx
    <2>2. QED
        BY <1>0, <1>q, <2>1 DEF ReplayedResults
<1>12. ASSUME AdvanceKernelPtr PROVE ReplayedResults'
    <2>1. pos' = pos /\ uptr' = uptr /\ view' = view /\ first' = first
        BY <1>12 DEF AdvanceKernelPtr
    <2>2. QED
        BY <1>0, <1>q, <2>1 DEF ReplayedResults
<1>13. ASSUME ListOp PROVE ReplayedResults'
    <2>1. pos' = pos /\ uptr' = uptr /\ view' = view /\ first' = first
        BY <1>13 DEF ListOp
    <2>2. QED
        BY <1>0, <1>q, <2>1 DEF ReplayedResults
<1>14. ASSUME WriteEntry PROVE ReplayedResults'
    <2>1. pos' = pos /\ uptr' = uptr /\ view' = view /\ first' = first
        BY <1>14 DEF WriteEntry
    <2>2. QED
        BY <1>0, <1>q, <2>1 DEF ReplayedResults
<1>15. ASSUME ReplayCacheFull PROVE ReplayedResults'
    <2>1. pos' = pos /\ uptr' = uptr /\ view' = view /\ first' = first
        BY <1>15 DEF ReplayCacheFull
    <2>2. QED
        BY <1>0, <1>q, <2>1 DEF ReplayedResults
<1>16. ASSUME BumpEntryTail PROVE ReplayedResults'
    <2>1. pos' = pos /\ uptr' = uptr /\ view' = view /\ first' = [first EXCEPT ![pos] = IF Returns(pos) THEN ret ELSE @]
        BY <1>16 DEF BumpEntryTail
    <2>2. ASSUME NEW p \in Syscalls, p < pos' PROVE first'[p] = first[p]
        <3>1. p \in Positions /\ p # pos
            BY <1>t, <2>1, <2>2 DEF Syscalls, Positions
        <3>2. QED
            BY <1>t, <2>1, <3>1
    <2>3. QED
        BY <1>0, <1>q, <2>1, <2>2 DEF ReplayedResults
<1>17. ASSUME ResetKernelCache PROVE ReplayedResults'
    <2>1. pos' = pos /\ uptr' = uptr /\ view' = view /\ first' = first
        BY <1>17 DEF ResetKernelCache
    <2>2. QED
        BY <1>0, <1>q, <2>1 DEF ReplayedResults
<1>18. ASSUME ResetListTx PROVE ReplayedResults'
    <2>1. uptr' = uptr /\ view' = view /\ first' = first /\ pos \in Positions
        BY <1>0, <1>18 DEF ResetListTx, PlaceInv, Calling
    <2>2. \A p \in Syscalls : p < pos' => p < pos
        BY <1>t, <1>18, <2>1 DEF ResetListTx, Syscalls, Positions
    <2>3. QED
        BY <1>0, <1>q, <2>1, <2>2 DEF ReplayedResults
<1>19. ASSUME CommitEntry PROVE ReplayedResults'
    <2>1. pos \in Positions /\ Op(pos) = "sys" /\ pos' = pos + 1 /\ uptr' = uptr /\ first' = first
        BY <1>0, <1>19 DEF CommitEntry, At, PlaceInv, Calling, IsSys
    <2>2. view' = [view EXCEPT ![pos] = IF Returns(pos) THEN ret ELSE @]
        BY <1>19 DEF CommitEntry
    <2>3. Returns(pos) => first[pos] = ret
        BY <1>19, <2>1 DEF CommitEntry, RecordInv, IsSys
    <2>4. ASSUME NEW p \in Syscalls, Returns(p), p < pos', TxOf(p) > uptr' PROVE view'[p] = first'[p]
        <3>1. p \in Positions /\ (p = pos \/ p < pos)
            BY <1>t, <2>1, <2>4 DEF Syscalls, Positions
        <3>2. CASE p = pos
            BY <1>t, <2>1, <2>2, <2>3, <2>4, <3>2
        <3>3. CASE p < pos
            <4>1. view[p] = first[p] /\ p # pos
                BY <1>0, <1>t, <2>1, <2>4, <3>1, <3>3 DEF ReplayedResults
            <4>2. QED
                BY <1>t, <2>1, <2>2, <3>1, <4>1
        <3>4. QED
            BY <3>1, <3>2, <3>3
    <2>5. QED
        BY <1>q, <2>4 DEF ReplayedResults
<1>20. ASSUME Crash PROVE ReplayedResults'
    <2>1. pos' = 1
        BY <1>0, <1>20 DEF Crash, PlaceInv, Jit
    <2>2. \A p \in Syscalls : ~ (p < pos')
        BY <1>p, <2>1 DEF Syscalls, Positions
    <2>3. QED
        BY <1>q, <2>2 DEF ReplayedResults
<1>21. ASSUME JitCheckReplay PROVE ReplayedResults'
    <2>1. pos' = pos /\ uptr' = uptr /\ view' = view /\ first' = first
        BY <1>21 DEF JitCheckReplay
    <2>2. QED
        BY <1>0, <1>q, <2>1 DEF ReplayedResults
<1>22. ASSUME JitResetKernelCache PROVE ReplayedResults'
    <2>1. pos' = pos /\ uptr' = uptr /\ view' = view /\ first' = first
        BY <1>22 DEF JitResetKernelCache
    <2>2. QED
        BY <1>0, <1>q, <2>1 DEF ReplayedResults
<1>23. ASSUME JitResetListTx PROVE ReplayedResults'
    <2>1. pos' = pos /\ uptr' = uptr /\ view' = view /\ first' = first
        BY <1>23 DEF JitResetListTx
    <2>2. QED
        BY <1>0, <1>q, <2>1 DEF ReplayedResults
<1>24. ASSUME UserRecovery PROVE ReplayedResults'
    <2>1. pos' = pos /\ uptr' = uptr /\ view' = view /\ first' = first
        BY <1>24 DEF UserRecovery
    <2>2. QED
        BY <1>0, <1>q, <2>1 DEF ReplayedResults
<1>25. ASSUME UserRestart PROVE ReplayedResults'
    <2>1. pos' = 1
        BY <1>0, <1>25 DEF UserRestart, PlaceInv, Jit
    <2>2. \A p \in Syscalls : ~ (p < pos')
        BY <1>p, <2>1 DEF Syscalls, Positions
    <2>3. QED
        BY <1>q, <2>2 DEF ReplayedResults
<1>u. CASE UNCHANGED vars
    <2>1. pos' = pos /\ uptr' = uptr /\ view' = view /\ first' = first
        BY <1>u DEF vars
    <2>2. QED
        BY <1>0, <1>q, <2>1 DEF ReplayedResults
<1>z. QED
    BY <1>u, <1>1, <1>2, <1>3, <1>4, <1>5, <1>6, <1>7, <1>8, <1>9, <1>10, <1>11, <1>12, <1>13, <1>14, <1>15, <1>16, <1>17, <1>18, <1>19, <1>20, <1>21, <1>22, <1>23, <1>24, <1>25 DEF Next, Step

-----------------------------------------------------------------------------
(***************************************************************************)
(* The theorems.                                                           *)
(***************************************************************************)
\* Transactions are counted from one.
LEMMA TxFromOne ==
    ASSUME task \in Tasks, NEW p \in Syscalls
    PROVE  Begun(Program, p) >= 1
<1>0. Program \in Seq(Instr) /\ Len(Program) \in Nat /\ p \in 1 .. Len(Program) /\ InTx(Program, p)
    BY ProgramFacts, CallFacts
<1>1. PICK b \in 1 .. p - 1 : Program[b].op = "begin"
    BY <1>0 DEF InTx
<1>2. PICK a \in 0 .. Len(Program) : a + 1 = b /\ a < Len(Program)
    <2>1. b - 1 \in 0 .. Len(Program) /\ (b - 1) + 1 = b /\ b - 1 < Len(Program)
        BY <1>0, <1>1
    <2>2. QED
        BY <2>1
<1>3. Begun(Program, a) \in Nat /\ Begun(Program, b) = Begun(Program, a) + 1
    BY <1>0, <1>1, <1>2, CountFacts
<1>4. b \in 0 .. Len(Program) /\ p \in 0 .. Len(Program) /\ b <= p
    BY <1>0, <1>1
<1>5. Begun(Program, b) <= Begun(Program, p) /\ Begun(Program, p) \in Nat
    BY <1>0, <1>4, CountOrder, CountFacts
<1>6. QED
    BY <1>3, <1>5

\* At the start no call has been made.
LEMMA RInit == Init => RInv
<1> SUFFICES ASSUME Init PROVE RInv
    OBVIOUS
<1>0. BaseInv /\ task \in Tasks
    BY BaseInit DEF BaseInv
<1>1. FirstRun
    BY AtStart DEF Init, FirstRun, Inside, Jit
<1>2. LeftInv
    BY DEF Init, LeftInv, Left
<1>3. ASSUME NEW p \in Syscalls PROVE CallOK(p)
    <2>1. /\ p \in Positions /\ Ktx(p) \in 0 .. 2 /\ Begun(Program, p) \in Nat /\ Begun(Program, p) >= 1
          /\ CallNo(Program, p) \in Nat /\ CallNo(Program, p) >= 1
        BY <1>0, CallFacts, TxFromOne
    <2>2. utail = 0 /\ Recorded = 0 /\ ktail = 0 /\ listDone = FALSE /\ ucom = FALSE /\ ~ Stale
        BY DEF Init, Recorded, Stale
    <2>3. ~ Committed(p) /\ ~ OnRecord(p)
        BY <2>1, <2>2 DEF Committed, OnRecord
    <2>4. Untouched(p)
        BY <2>1 DEF Init, Untouched
    <2>5. SoFar(p)
        BY <2>1, <2>2, <2>4, NothingLeft
    <2>6. QED
        BY <2>2, <2>3, <2>4, <2>5 DEF CallOK, CurrentOK
<1>4. RecordInv
    BY <1>3 DEF Init, RecordInv, Writing
<1>5. ReplayedResults
    <2>1. \A p \in Syscalls : ~ (p < pos)
        BY <1>0, ProgramFacts DEF Init, Syscalls, Positions
    <2>2. QED
        BY <2>1 DEF ReplayedResults
<1>6. QED
    BY <1>0, <1>1, <1>2, <1>4, <1>5 DEF RInv

\* Every step of a replayable task keeps the invariant.
LEMMA RStep ==
    ASSUME Replayable
    PROVE  RInv /\ [Next]_vars => RInv'
<1> SUFFICES ASSUME RInv, [Next]_vars PROVE RInv'
    OBVIOUS
<1>0. BaseInv /\ FirstRun /\ LeftInv /\ RecordInv /\ ReplayedResults /\ task \in Tasks /\ task' = task
    BY DEF RInv, BaseInv, Next, vars
<1>1. OutsideLast(Program) /\ (OneCallEach(Program) \/ MaxCrashes <= 1)
    BY <1>0 DEF Replayable, Program, MaxCrashes
<1>2. BaseInv'
    BY <1>0, BaseStep
<1>3. FirstRun'
    BY <1>0, FirstRunStep
<1>4. LeftInv'
    BY <1>0, <1>1, LeftStep
<1>5. RecordInv'
    <2>1. Syscalls' = Syscalls
        BY <1>0 DEF Syscalls, Positions, Program, Op
    <2>2. \A p \in Syscalls : CallOK(p)'
        BY <1>0, <1>1, CallsStep
    <2>3. /\ Writing' => entries'[rtail' + 1] = ret'
          /\ pc' \in {"kreset", "lreset", "commit"} /\ IsSys' /\ Returns(pos)' => first'[pos'] = ret'
        BY <1>0, ReturnStep
    <2>4. QED
        BY <2>1, <2>2, <2>3 DEF RecordInv
<1>6. ReplayedResults'
    BY <1>0, ResultsStep
<1>7. QED
    BY <1>2, <1>3, <1>4, <1>5, <1>6 DEF RInv

\* The invariant says that every call has taken effect exactly once.
LEMMA OnceEach == RInv => SyscallsExactlyOnce
<1> SUFFICES ASSUME RInv, NEW p \in Syscalls
             PROVE  /\ \A k \in 1 .. Ktx(p) :
                          /\ kruns[p][k] <= 1
                          /\ TxOf(p) <= utail => kruns[p][k] = 1
                    /\ lruns[p] <= 1
                    /\ (TxOf(p) <= utail /\ Program[p].list) => lruns[p] = 1
    BY DEF SyscallsExactlyOnce
<1>0. BaseInv /\ CallOK(p)
    BY DEF RInv, RecordInv
<1>1. Committed(p) \/ OnRecord(p) \/ Current(p) \/ Ahead(p)
    BY <1>0, CallPlaces
<1>2. Done(p) \/ Untouched(p) \/ SoFar(p)
    BY <1>0, <1>1 DEF CallOK, CurrentOK
<1>3. \A k \in 1 .. Ktx(p) : kruns[p][k] <= 1
    BY <1>2 DEF Done, Untouched, SoFar
<1>4. lruns[p] <= 1
    BY <1>2 DEF Done, Untouched, SoFar
<1>5. TxOf(p) <= utail => Done(p)
    BY <1>0, TxIs DEF CallOK, Committed
<1>6. QED
    BY <1>3, <1>4, <1>5 DEF Done

\* The inductive invariant holds of every replayable task.
THEOREM Inductive == ASSUME Replayable PROVE Spec => []RInv
<1>1. RInv /\ [Next]_vars => RInv'
    BY RStep
<1>2. QED
    BY <1>1, RInit, PTL DEF Spec

\* A system call made in a user transaction takes effect exactly once, for
\* tasks of any length: with any number of power failures when a transaction
\* makes one call, with one power failure when it makes several, as long as no
\* call without a SyscallToken comes between a call and the start of its
\* transaction, or outside a transaction before it.
THEOREM CallsExactlyOnce == ASSUME Replayable PROVE Spec => []SyscallsExactlyOnce
BY Inductive, OnceEach, PTL

\* A replayed call returns what it returned the first time (get_entry).
THEOREM ResultsReplayed == ASSUME Replayable PROVE Spec => []ReplayedResults
<1>1. RInv => ReplayedResults
    BY DEF RInv
<1>2. QED
    BY <1>1, Inductive, PTL

=============================================================================
