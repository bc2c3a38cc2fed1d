---------------------------- MODULE Heap_proofs -----------------------------
(***************************************************************************)
(* Proofs about Heap: no memory and no task is handed out twice, and a     *)
(* program that is run again is given the answers it was given before,     *)
(* with any number of power failures at any store.                         *)
(***************************************************************************)
EXTENDS Heap, SequenceTheorems, TLAPS

IsSeq(s) == s \in Seq({s[i] : i \in DOMAIN s})

Answer  == SUBSET Seq(Nat)
GlobRec == [next : Nat, end : Nat]

Types ==
    /\ DOMAIN mem = Obj /\ \A e \in Exec : mem[e] \in HeapType
    /\ mem[Cnt] \in Nat /\ mem[Glob] \in GlobRec /\ mem[Flag] \in BOOLEAN
    /\ bootDone \in BOOLEAN
    /\ DOMAIN log = Exec /\ DOMAIN todo = Exec
    /\ open \in [Exec -> BOOLEAN] /\ alive \in [Exec -> BOOLEAN]
    /\ cache \in [Exec -> Seq(Answer)] /\ replay \in [Exec -> Seq(Answer)]
    /\ given \in [Exec -> Seq(Answer)] /\ seen \in [Exec -> Seq(Answer)]

(***************************************************************************)
(* What a failure would leave: the heaps B, the task count K and the rest  *)
(* G of the area.                                                          *)
(***************************************************************************)
Same(g, h) == g.start = h.start /\ g.end = h.end /\ g.func = h.func

Clean(e, B) == log[e] = <<>> /\ mem[e] = B[e]

Logged(e, B) ==
    /\ open[e] /\ log[e] # <<>> /\ log[e] \in Seq([obj : {e}, old : HeapType])
    /\ log[e][1].old = B[e]

(***************************************************************************)
(* The places of a call, by the steps that are left of it.                 *)
(***************************************************************************)
Ret(r) == <<Returns(r)>>

Off(e, B) ==
    /\ ~ alive[e] /\ todo[e] = <<>> /\ given[e] = <<>>
    /\ Clean(e, B) \/ (e # Boot /\ Logged(e, B))

Idle(e, B) == alive[e] /\ todo[e] = <<>> /\ Clean(e, B)

\* its transaction is under way
Working(e) == alive[e] /\ open[e] /\ ~ AtEnd(e) /\ Len(given[e]) = Len(Results(e))

\* a heap that has grown from h to g by the blocks of r
Grown(h, g, r) ==
    /\ g \in HeapType /\ Same(g, h) /\ h.next <= g.next /\ g.next <= g.end
    /\ r \in Answer /\ \A b \in r : Len(b) = 2 /\ h.next <= b[1] /\ b[2] <= g.next

\* the steps of an allocation: the heap becomes f, then g, and r is returned
Alloc5(r)          == <<Commits(r)>> \o Ret(r)
Alloc4(e, g, r)    == <<Set(e, g)>> \o Alloc5(r)
Alloc3(e, g, r)    == <<LogOf(e)>> \o Alloc4(e, g, r)
Alloc2(e, f, g, r) == <<Set(e, f)>> \o Alloc3(e, g, r)
Alloc1(e, f, g, r) == <<LogOf(e)>> \o Alloc2(e, f, g, r)

AllocatingAs(e, B, f, g, r) ==
    \/ todo[e] = Alloc1(e, f, g, r) /\ Clean(e, B)
    \/ todo[e] = Alloc2(e, f, g, r) /\ Logged(e, B)
    \/ todo[e] = Alloc3(e, g, r) /\ (Clean(e, B) \/ Logged(e, B))
    \/ todo[e] = Alloc4(e, g, r) /\ Logged(e, B)
    \/ todo[e] = Alloc5(r) /\ mem[e] = g /\ (Clean(e, B) \/ Logged(e, B))

Allocating(e, B, f, g, r) ==
    /\ Working(e) /\ Call(e).op # "create"
    /\ Grown(B[e], g, r) /\ f \in HeapType /\ Same(f, B[e])
    /\ AllocatingAs(e, B, f, g, r)

\* the heap of a task of f with a region of size k at the start of the area
\* that is left
Region(f, G, k) == [start |-> G.next, end |-> G.next + k, next |-> G.next, func |-> f]
Taken(G, k)     == [G EXCEPT !.next = @ + k]

\* the steps of the creation of task t, without a region if k is 0
Create11(t)         == <<Inserts(t)>> \o Ret(Handle(t))
Create10(t)         == <<Commits(Handle(t))>> \o Create11(t)
Create9(t, f, G, k) == <<Set(t, Region(f, G, k))>> \o Create10(t)
Create8(t, f, G, k) == <<Set(t, [Region(f, G, k) EXCEPT !.next = 0])>> \o Create9(t, f, G, k)
Create7(t, f, G, k) == <<Set(t, [Empty(f) EXCEPT !.start = G.next])>> \o Create8(t, f, G, k)
Create6(t, f, G, k) == <<Set(Glob, Taken(G, k))>> \o Create7(t, f, G, k)
Create5(t, f, G, k) == <<LogOf(Glob)>> \o Create6(t, f, G, k)
Create4(t, f, G, k) == IF k = 0 THEN Create10(t) ELSE Create5(t, f, G, k)
Create3(t, f, G, k) == <<Set(t, Empty(f))>> \o Create4(t, f, G, k)
Create2(t, f, G, k) == <<Set(Cnt, t + 1)>> \o Create3(t, f, G, k)
Create1(t, f, G, k) == <<LogOf(Cnt)>> \o Create2(t, f, G, k)
Refuse2             == <<Commits(None)>> \o Ret(None)
Refuse1             == <<LogOf(Cnt)>> \o Refuse2

Entry(o, v)   == [obj |-> o, old |-> v]
Log1(e, K)    == log[e] = <<Entry(Cnt, K)>>
Log2(e, K, G) == log[e] = <<Entry(Cnt, K), Entry(Glob, G)>>

Quiet(K, G) == mem[Cnt] = K /\ mem[Glob] = G

Refusing(e, K, G) ==
    /\ Quiet(K, G)
    /\ \/ todo[e] = Refuse1 /\ log[e] = <<>>
       \/ todo[e] = Refuse2 /\ Log1(e, K)

\* before the area is touched
Counting(e, K, G, f, k) ==
    /\ mem[Glob] = G
    /\ \/ todo[e] = Create1(K, f, G, k) /\ log[e] = <<>> /\ mem[Cnt] = K
       \/ todo[e] = Create2(K, f, G, k) /\ Log1(e, K) /\ mem[Cnt] = K
       \/ todo[e] = Create3(K, f, G, k) /\ Log1(e, K) /\ mem[Cnt] = K + 1
       \/ k # 0 /\ todo[e] = Create5(K, f, G, k) /\ Log1(e, K) /\ mem[Cnt] = K + 1
       \/ k = 0 /\ todo[e] = Create10(K) /\ Log1(e, K) /\ mem[Cnt] = K + 1 /\ mem[K] = Empty(f)

\* with a region
Carving(e, K, G, f, k) ==
    /\ k # 0 /\ Log2(e, K, G) /\ mem[Cnt] = K + 1
    /\ \/ todo[e] = Create6(K, f, G, k) /\ mem[Glob] = G
       \/ todo[e] = Create7(K, f, G, k) /\ mem[Glob] = Taken(G, k)
       \/ todo[e] = Create8(K, f, G, k) /\ mem[Glob] = Taken(G, k)
       \/ todo[e] = Create9(K, f, G, k) /\ mem[Glob] = Taken(G, k)
       \/ todo[e] = Create10(K) /\ mem[Glob] = Taken(G, k) /\ mem[K] = Region(f, G, k)

Creating(e, K, G, B, f, k) ==
    /\ Working(e) /\ Call(e).op = "create" /\ mem[e] = B[e]
    /\ \/ Refusing(e, K, G)
       \/ /\ K \in Tid /\ f \in DOMAIN Programs /\ k \in Nat /\ G.next + k <= G.end
          /\ Counting(e, K, G, f, k) \/ Carving(e, K, G, f, k)

\* the transaction is committed
Returning(e, B) ==
    /\ alive[e] /\ ~ AtEnd(e) /\ Clean(e, B)
    /\ Len(replay[e]) <= Len(given[e]) /\ Len(given[e]) < Len(Results(e))
    /\ LET r == Results(e)[Len(given[e]) + 1]
       IN  \/ todo[e] = Ret(r)
           \/ \E t \in Tid : r = Handle(t) /\ Call(e).op = "create" /\ todo[e] = Create11(t)

Place(e, K, G, B) ==
    \/ Off(e, B) \/ Idle(e, B) \/ Returning(e, B)
    \/ \E f, g, r : Allocating(e, B, f, g, r)
    \/ \E f, k : Creating(e, K, G, B, f, k)

(***************************************************************************)
(* What has been handed out.                                               *)
(***************************************************************************)
\* what an execution has been given is what is on record
Answers(e) ==
    /\ Len(given[e]) <= Len(seen[e]) /\ Len(seen[e]) <= Len(Results(e))
    /\ \A i \in 1 .. Len(given[e]) : given[e][i] = Results(e)[i]
    /\ \A i \in 1 .. Len(seen[e]) : seen[e][i] = Results(e)[i]
    /\ e = Boot => replay[e] = <<>>
    /\ e # Boot => Len(given[e]) <= Len(replay[e]) /\ Len(cache[e]) <= 1
    /\ Len(Results(e)) <= Len(Prog(e))

\* the blocks of e are in the part of its heap that is taken, side by side
OwnBlocks(e, B) ==
    /\ \A i \in 1 .. Len(Results(e)) : \A b \in Results(e)[i] :
          Len(b) = 2 => B[e].start <= b[1] /\ b[2] <= B[e].next
    /\ \A i, j \in 1 .. Len(Results(e)) : i # j =>
          \A b \in Results(e)[i], c \in Results(e)[j] : Len(b) = 2 /\ Len(c) = 2 => Disjoint(b, c)

\* handles are those of the first K tasks
OwnTasks(e, K) ==
    \A i \in 1 .. Len(Results(e)) :
        /\ Prog(e)[i].op = "create" => Results(e)[i] = None \/ \E t \in Tid : Results(e)[i] = Handle(t)
        /\ \A t \in Tid : Results(e)[i] = Handle(t) => t < K

OneHandle ==
    \A e, f \in Exec : \A i \in 1 .. Len(Results(e)), j \in 1 .. Len(Results(f)) : \A t \in Tid :
        Results(e)[i] = Handle(t) /\ Results(f)[j] = Handle(t) => e = f /\ i = j

HeapOK(h) == h.start <= h.next /\ h.next <= h.end

InArea(h, G) ==
    \/ h.start = 0 /\ h.end = 0
    \/ PmStart <= h.start /\ h.start <= h.end /\ h.end <= G.next

Apart(K, G, B) ==
    /\ PmStart <= G.next /\ G.next <= G.end /\ G.end = PmStart + PmSize /\ HeapOK(B[Boot])
    /\ \A t \in 0 .. K - 1 : HeapOK(B[t]) /\ InArea(B[t], G)
    /\ \A t, u \in 0 .. K - 1 : t # u => Disjoint(<<B[t].start, B[t].end>>, <<B[u].start, B[u].end>>)

(***************************************************************************)
(* The invariant.                                                          *)
(***************************************************************************)
Live(K) == (0 .. K - 1) \cup {Boot}

Untouched(e) ==
    /\ ~ alive[e] /\ todo[e] = <<>> /\ log[e] = <<>> /\ cache[e] = <<>>
    /\ replay[e] = <<>> /\ given[e] = <<>> /\ seen[e] = <<>>

Good(e, K, G, B) ==
    /\ Place(e, K, G, B) /\ Answers(e) /\ Same(mem[e], B[e])
    /\ OwnBlocks(e, B) /\ OwnTasks(e, K)

\* boot runs before the tasks, and one call at a time creates a task
Turns ==
    /\ bootDone => todo[Boot] = <<>>
    /\ ~ bootDone => \A t \in Tid : todo[t] = <<>>
    /\ \A x, y \in Exec : InCritical(x) /\ InCritical(y) => x = y

Counted(K, G, B) == Quiet(K, G) \/ \E e \in Live(K) : \E f, k : Creating(e, K, G, B, f, k)

Core(K, G, B) ==
    /\ K \in 0 .. TaskLimit /\ G \in GlobRec /\ B \in [Exec -> HeapType]
    /\ \A e \in Live(K) : Good(e, K, G, B)
    /\ \A t \in Tid : t >= K => Untouched(t)
    /\ ready \subseteq 0 .. K - 1
    /\ Counted(K, G, B)
    /\ Apart(K, G, B)

(***************************************************************************)
(* heap::init, the first time.                                             *)
(***************************************************************************)
BootHeap == [start |-> BootStart, end |-> BootStart + BootSize, next |-> BootStart, func |-> NoFunc]
Area     == [next |-> PmStart, end |-> PmStart + PmSize]

Init6    == <<Set(Flag, TRUE)>>
Init5    == <<Set(Glob, Area)>> \o Init6
Init4(g) == <<Set(Glob, g)>> \o Init5
Init3(g) == <<Set(Boot, BootHeap)>> \o Init4(g)
Init2(h, g) == <<Set(Boot, h)>> \o Init3(g)
Init1(f, h, g) == <<Set(Boot, f)>> \o Init2(h, g)

Initialising(f, h, g) ==
    /\ f \in HeapType /\ h \in HeapType /\ g \in GlobRec /\ f.func = NoFunc /\ h.func = NoFunc
    /\ \/ todo[Boot] = Init1(f, h, g)
       \/ todo[Boot] = Init2(h, g)
       \/ todo[Boot] = Init3(g)
       \/ todo[Boot] = Init4(g) /\ mem[Boot] = BootHeap
       \/ todo[Boot] = Init5 /\ mem[Boot] = BootHeap
       \/ todo[Boot] = Init6 /\ mem[Boot] = BootHeap /\ mem[Glob] = Area

\* nothing has been created or allocated
Fresh ==
    /\ ~ bootDone /\ mem[Cnt] = 0 /\ mem[Boot].func = NoFunc /\ ready = {}
    /\ \A t \in Tid : Untouched(t)
    /\ log[Boot] = <<>> /\ cache[Boot] = <<>> /\ replay[Boot] = <<>>
    /\ given[Boot] = <<>> /\ seen[Boot] = <<>>
    /\ IF alive[Boot] THEN \E f, h, g : Initialising(f, h, g) ELSE todo[Boot] = <<>>

Ready(K, G, B) == mem[Flag] /\ Core(K, G, B)

IInv ==
    /\ Types /\ Turns /\ OneHandle
    /\ (~ mem[Flag] /\ Fresh) \/ \E K, G, B : Ready(K, G, B)

(***************************************************************************)
(* Sequences.                                                              *)
(***************************************************************************)
\* A sequence over any set is one over its own elements.
LEMMA SeqIs == \A S : \A s \in Seq(S) : IsSeq(s) /\ \A i \in DOMAIN s : s[i] \in S
<1> SUFFICES ASSUME NEW S, NEW s \in Seq(S) PROVE IsSeq(s) /\ \A i \in DOMAIN s : s[i] \in S
  OBVIOUS
<1> DEFINE R == {s[i] : i \in DOMAIN s}
<1>1. Len(s) \in Nat /\ DOMAIN s = 1 .. Len(s) /\ \A i \in DOMAIN s : s[i] \in S
  BY LenProperties
<1>2. s \in [1 .. Len(s) -> R]
  BY <1>1, LenProperties
<1>3. s \in Seq(R)
  <2> DEFINE n == Len(s)
  <2>1. n \in Nat /\ s \in [1 .. n -> R]
    BY <1>1, <1>2
  <2> HIDE DEF n, R
  <2> QED BY <2>1
<1> QED BY <1>1, <1>3 DEF IsSeq

\* Two sequences are sequences over the elements of both.
LEMMA SeqJoin ==
  \A a, b : IsSeq(a) /\ IsSeq(b) => \E S : a \in Seq(S) /\ b \in Seq(S)
<1> SUFFICES ASSUME NEW a, NEW b, IsSeq(a), IsSeq(b) PROVE \E S : a \in Seq(S) /\ b \in Seq(S)
  OBVIOUS
<1> DEFINE A == {a[i] : i \in DOMAIN a}
           B == {b[i] : i \in DOMAIN b}
<1>1. a \in Seq(A) /\ b \in Seq(B)
  BY DEF IsSeq
<1> HIDE DEF A, B
<1>2. a \in Seq(A \cup B) /\ b \in Seq(A \cup B)
  BY <1>1, SeqMonotonic, A \subseteq A \cup B, B \subseteq A \cup B
<1> QED BY <1>2

\* Concatenation, from the front.
LEMMA Cat ==
  ASSUME NEW a, NEW b, IsSeq(a), IsSeq(b)
  PROVE  /\ IsSeq(a \o b) /\ <<>> \o b = b /\ a \o <<>> = a
         /\ a # <<>> => /\ a \o b # <<>> /\ Head(a \o b) = Head(a)
                        /\ Tail(a \o b) = Tail(a) \o b /\ IsSeq(Tail(a))
<1>1. PICK S : a \in Seq(S) /\ b \in Seq(S)
  BY SeqJoin
<1>2. IsSeq(a \o b) /\ <<>> \o b = b /\ a \o <<>> = a
  BY <1>1, ConcatProperties, ConcatEmptySeq, SeqIs
<1>3. ASSUME a # <<>>
      PROVE  /\ a \o b # <<>> /\ Head(a \o b) = Head(a)
             /\ Tail(a \o b) = Tail(a) \o b /\ IsSeq(Tail(a))
  <2>1. Len(a) \in Nat \ {0} /\ Len(b) \in Nat
    BY <1>1, <1>3, EmptySeq, LenProperties
  <2>2. a \o b \in Seq(S) /\ Len(a \o b) = Len(a) + Len(b)
    BY <1>1, ConcatProperties
  <2>3. a \o b # <<>>
    BY <2>1, <2>2, EmptySeq
  <2>4. Head(a \o b) = Head(a)
    BY <1>1, <2>1, <2>2
  <2>5. Tail(a) \in Seq(S) /\ Len(Tail(a)) = Len(a) - 1
        /\ \A i \in 1 .. Len(Tail(a)) : Tail(a)[i] = a[i + 1]
    BY <1>1, <1>3, HeadTailProperties
  <2>6. Tail(a \o b) \in Seq(S) /\ Len(Tail(a \o b)) = Len(a) + Len(b) - 1
        /\ \A i \in 1 .. Len(Tail(a \o b)) : Tail(a \o b)[i] = (a \o b)[i + 1]
    BY <2>2, <2>3, HeadTailProperties
  <2>7. Tail(a) \o b \in Seq(S) /\ Len(Tail(a) \o b) = Len(a) - 1 + Len(b)
        /\ \A i \in 1 .. Len(Tail(a)) + Len(b) : (Tail(a) \o b)[i] =
              IF i <= Len(Tail(a)) THEN Tail(a)[i] ELSE b[i - Len(Tail(a))]
    BY <1>1, <2>5, ConcatProperties
  <2>8. \A i \in 1 .. Len(a) + Len(b) : (a \o b)[i] = IF i <= Len(a) THEN a[i] ELSE b[i - Len(a)]
    BY <1>1, ConcatProperties
  <2>9. \A i \in 1 .. Len(a) + Len(b) - 1 : Tail(a \o b)[i] = (Tail(a) \o b)[i]
    BY <2>1, <2>5, <2>6, <2>7, <2>8
  <2>10. Tail(a \o b) = Tail(a) \o b
    BY <2>1, <2>6, <2>7, <2>9, SeqEqual
  <2> QED BY <2>3, <2>4, <2>5, <2>10, SeqIs
<1> QED BY <1>2, <1>3

Assoc(a, b, c) == (a \o b) \o c = a \o (b \o c)

\* Concatenation is associative.
LEMMA CatAssoc ==
  \A a, b, c : IsSeq(a) /\ IsSeq(b) /\ IsSeq(c) => (a \o b) \o c = a \o (b \o c)
<1> SUFFICES ASSUME NEW a, NEW b, NEW c, IsSeq(a), IsSeq(b), IsSeq(c)
             PROVE  (a \o b) \o c = a \o (b \o c)
  OBVIOUS
<1>1. PICK S : a \in Seq(S) /\ b \in Seq(S)
  BY SeqJoin
<1>2. PICK T : c \in Seq(T)
  BY DEF IsSeq
<1>3. a \in Seq(S \cup T) /\ b \in Seq(S \cup T) /\ c \in Seq(S \cup T)
  BY <1>1, <1>2, SeqMonotonic, S \subseteq S \cup T, T \subseteq S \cup T
<1> QED BY <1>3, ConcatAssociative

\* (the same, without the concatenations)
LEMMA Associates == \A a, b, c : IsSeq(a) /\ IsSeq(b) /\ IsSeq(c) => Assoc(a, b, c)
BY CatAssoc DEF Assoc

\* The sequences that are written out.
LEMMA Tuple0 == IsSeq(<<>>)
BY EmptySeq, SeqIs

\* (one step)
LEMMA Tuple1 == \A x : IsSeq(<<x>>) /\ <<x>> # <<>> /\ Head(<<x>>) = x /\ Tail(<<x>>) = <<>>
<1> SUFFICES ASSUME NEW x PROVE IsSeq(<<x>>) /\ <<x>> # <<>> /\ Head(<<x>>) = x /\ Tail(<<x>>) = <<>>
  OBVIOUS
<1>1. <<x>> \in Seq({x})
  OBVIOUS
<1>2. <<x>> # <<>> /\ Head(<<x>>) = x
  OBVIOUS
<1>3. Tail(<<x>>) = <<>>
  <2>1. Len(Tail(<<x>>)) = 0 /\ Tail(<<x>>) \in Seq({x})
    BY <1>1, <1>2, HeadTailProperties
  <2> QED BY <2>1, EmptySeq
<1>4. IsSeq(<<x>>)
  BY <1>1, SeqIs
<1> QED BY <1>2, <1>3, <1>4

\* A step in front of a sequence.
LEMMA Cons ==
  ASSUME NEW x, NEW s, IsSeq(s)
  PROVE  /\ IsSeq(<<x>> \o s) /\ <<x>> \o s # <<>>
         /\ Head(<<x>> \o s) = x /\ Tail(<<x>> \o s) = s
<1>1. IsSeq(<<x>>) /\ <<x>> # <<>> /\ Head(<<x>>) = x /\ Tail(<<x>>) = <<>>
  BY Tuple1
<1>2. /\ IsSeq(<<x>> \o s) /\ <<>> \o s = s /\ <<x>> \o s # <<>>
      /\ Head(<<x>> \o s) = Head(<<x>>) /\ Tail(<<x>> \o s) = Tail(<<x>>) \o s
  BY <1>1, Cat, Zenon
<1> QED BY <1>1, <1>2, Zenon

\* (two steps)
LEMMA Tuple2 ==
  \A x, y :
      /\ <<x, y>> = <<x>> \o <<y>> /\ IsSeq(<<x, y>>) /\ <<x, y>> # <<>>
      /\ Head(<<x, y>>) = x /\ Tail(<<x, y>>) = <<y>>
<1> SUFFICES ASSUME NEW x, NEW y
             PROVE  /\ <<x, y>> = <<x>> \o <<y>> /\ IsSeq(<<x, y>>) /\ <<x, y>> # <<>>
                    /\ Head(<<x, y>>) = x /\ Tail(<<x, y>>) = <<y>>
  OBVIOUS
<1>1. /\ <<x, y>> \in Seq({x, y}) /\ Len(<<x, y>>) = 2
      /\ <<x>> \o <<y>> \in Seq({x, y}) /\ Len(<<x>> \o <<y>>) = 2
  OBVIOUS
<1>2. (<<x>> \o <<y>>)[1] = x /\ (<<x>> \o <<y>>)[2] = y
  OBVIOUS
<1>4. \A i \in 1 .. 2 : <<x, y>>[i] = (<<x>> \o <<y>>)[i]
  BY <1>2
<1>5. <<x, y>> = <<x>> \o <<y>>
  BY <1>1, <1>4, SeqEqual
<1>6. IsSeq(<<y>>)
  BY Tuple1
<1>7. /\ IsSeq(<<x>> \o <<y>>) /\ <<x>> \o <<y>> # <<>>
      /\ Head(<<x>> \o <<y>>) = x /\ Tail(<<x>> \o <<y>>) = <<y>>
  BY <1>6, Cons, Zenon
<1> QED BY <1>5, <1>7, Zenon

\* (three steps)
LEMMA Tuple3 ==
  \A x, y, z :
      /\ <<x, y, z>> = <<x>> \o <<y, z>> /\ IsSeq(<<x, y, z>>) /\ <<x, y, z>> # <<>>
      /\ Head(<<x, y, z>>) = x /\ Tail(<<x, y, z>>) = <<y, z>>
<1> SUFFICES ASSUME NEW x, NEW y, NEW z
             PROVE  /\ <<x, y, z>> = <<x>> \o <<y, z>> /\ IsSeq(<<x, y, z>>) /\ <<x, y, z>> # <<>>
                    /\ Head(<<x, y, z>>) = x /\ Tail(<<x, y, z>>) = <<y, z>>
  OBVIOUS
<1>1. /\ <<x, y, z>> \in Seq({x, y, z}) /\ Len(<<x, y, z>>) = 3
      /\ <<x>> \o <<y, z>> \in Seq({x, y, z}) /\ Len(<<x>> \o <<y, z>>) = 3
  OBVIOUS
<1>2. (<<x>> \o <<y, z>>)[1] = x /\ (<<x>> \o <<y, z>>)[2] = y
  OBVIOUS
<1>3. (<<x>> \o <<y, z>>)[3] = z
  OBVIOUS
<1>4. \A i \in 1 .. 3 : <<x, y, z>>[i] = (<<x>> \o <<y, z>>)[i]
  BY <1>2, <1>3
<1>5. <<x, y, z>> = <<x>> \o <<y, z>>
  BY <1>1, <1>4, SeqEqual
<1>6. IsSeq(<<y, z>>)
  BY Tuple2
<1>7. /\ IsSeq(<<x>> \o <<y, z>>) /\ <<x>> \o <<y, z>> # <<>>
      /\ Head(<<x>> \o <<y, z>>) = x /\ Tail(<<x>> \o <<y, z>>) = <<y, z>>
  BY <1>6, Cons, Zenon
<1> QED BY <1>5, <1>7, Zenon

\* The last step of a sequence.
LEMMA LastOf == \A s, x : IsSeq(s) => (s \o <<x>>)[Len(s \o <<x>>)] = x
<1> SUFFICES ASSUME NEW s, NEW x, IsSeq(s) PROVE (s \o <<x>>)[Len(s \o <<x>>)] = x
  OBVIOUS
<1> DEFINE t == <<x>>
<1>1. IsSeq(t) /\ Len(t) = 1 /\ t[1] = x
  <2>1. IsSeq(t)
    BY Tuple1
  <2>2. Len(t) = 1 /\ t[1] = x
    OBVIOUS
  <2> QED BY <2>1, <2>2
<1> HIDE DEF t
<1>2. PICK S : s \in Seq(S) /\ t \in Seq(S)
  BY <1>1, SeqJoin
<1>3. Len(s) \in Nat /\ Len(s \o t) = Len(s) + 1 /\ (s \o t)[Len(s) + 1] = t[1]
  <2>1. Len(s) \in Nat
    BY <1>2, LenProperties
  <2>2. /\ Len(s \o t) = Len(s) + Len(t)
        /\ \A i \in 1 .. Len(s) + Len(t) : (s \o t)[i] = IF i <= Len(s) THEN s[i] ELSE t[i - Len(s)]
    BY <1>2, ConcatProperties
  <2>3. Len(s) + 1 \in 1 .. Len(s) + Len(t) /\ ~ (Len(s) + 1 <= Len(s)) /\ Len(s) + 1 - Len(s) = 1
    BY <1>1, <2>1
  <2>4. (s \o t)[Len(s) + 1] = t[Len(s) + 1 - Len(s)]
    BY <2>2, <2>3
  <2> QED BY <1>1, <2>1, <2>2, <2>3, <2>4
<1> QED BY <1>1, <1>3 DEF t

(***************************************************************************)
(* The steps.                                                              *)
(***************************************************************************)
\* c is step x, then d
Front(c, x, d) == IsSeq(c) /\ c # <<>> /\ Head(c) = x /\ Tail(c) = d

\* A step in front of a sequence.
LEMMA Fronts == \A x, d : IsSeq(d) => Front(<<x>> \o d, x, d) /\ IsSeq(<<x>> \o d)
BY Cons, Zenon DEF Front

\* What the steps of a call are.
LEMMA Kinds ==
  /\ \A o : LogOf(o).step = "log" /\ LogOf(o).obj = o
  /\ \A o, v : Set(o, v).step = "set" /\ Set(o, v).obj = o /\ Set(o, v).val = v
  /\ \A r : Commits(r).step = "commit" /\ Commits(r).res = r
  /\ \A t : Inserts(t).step = "insert" /\ Inserts(t).task = t
  /\ \A r : Returns(r).step = "return" /\ Returns(r).res = r
BY DEF LogOf, Set, Commits, Inserts, Returns

\* The steps of an allocation, one after the other.
LEMMA AllocCodes ==
  ASSUME NEW e, NEW f, NEW g, NEW r
  PROVE  /\ Front(Alloc1(e, f, g, r), LogOf(e), Alloc2(e, f, g, r))
         /\ Front(Alloc2(e, f, g, r), Set(e, f), Alloc3(e, g, r))
         /\ Front(Alloc3(e, g, r), LogOf(e), Alloc4(e, g, r))
         /\ Front(Alloc4(e, g, r), Set(e, g), Alloc5(r))
         /\ Front(Alloc5(r), Commits(r), Ret(r))
         /\ Front(Ret(r), Returns(r), <<>>)
<1>1. IsSeq(Ret(r)) /\ Front(Ret(r), Returns(r), <<>>)
  BY Tuple1, Zenon DEF Ret, Front
<1>2. IsSeq(Alloc5(r)) /\ Front(Alloc5(r), Commits(r), Ret(r))
  BY <1>1, Fronts, Zenon DEF Alloc5
<1>3. IsSeq(Alloc4(e, g, r)) /\ Front(Alloc4(e, g, r), Set(e, g), Alloc5(r))
  BY <1>2, Fronts, Zenon DEF Alloc4
<1>4. IsSeq(Alloc3(e, g, r)) /\ Front(Alloc3(e, g, r), LogOf(e), Alloc4(e, g, r))
  BY <1>3, Fronts, Zenon DEF Alloc3
<1>5. IsSeq(Alloc2(e, f, g, r)) /\ Front(Alloc2(e, f, g, r), Set(e, f), Alloc3(e, g, r))
  BY <1>4, Fronts, Zenon DEF Alloc2
<1>6. Front(Alloc1(e, f, g, r), LogOf(e), Alloc2(e, f, g, r))
  BY <1>5, Fronts, Zenon DEF Alloc1
<1> QED BY <1>1, <1>2, <1>3, <1>4, <1>5, <1>6

\* The steps of the creation of a task.
LEMMA CreateCodes ==
  ASSUME NEW t, NEW f, NEW G, NEW k
  PROVE  /\ Front(Create1(t, f, G, k), LogOf(Cnt), Create2(t, f, G, k))
         /\ Front(Create2(t, f, G, k), Set(Cnt, t + 1), Create3(t, f, G, k))
         /\ Front(Create3(t, f, G, k), Set(t, Empty(f)), Create4(t, f, G, k))
         /\ Front(Create5(t, f, G, k), LogOf(Glob), Create6(t, f, G, k))
         /\ Front(Create6(t, f, G, k), Set(Glob, Taken(G, k)), Create7(t, f, G, k))
         /\ Front(Create7(t, f, G, k), Set(t, [Empty(f) EXCEPT !.start = G.next]), Create8(t, f, G, k))
         /\ Front(Create8(t, f, G, k), Set(t, [Region(f, G, k) EXCEPT !.next = 0]), Create9(t, f, G, k))
         /\ Front(Create9(t, f, G, k), Set(t, Region(f, G, k)), Create10(t))
         /\ Front(Create10(t), Commits(Handle(t)), Create11(t))
         /\ Front(Create11(t), Inserts(t), Ret(Handle(t)))
         /\ Front(Refuse1, LogOf(Cnt), Refuse2) /\ Front(Refuse2, Commits(None), Ret(None))
<1>1. \A r : IsSeq(Ret(r))
  BY Tuple1, Zenon DEF Ret
<1>2. IsSeq(Create11(t)) /\ Front(Create11(t), Inserts(t), Ret(Handle(t)))
  BY <1>1, Fronts, Zenon DEF Create11
<1>3. IsSeq(Create10(t)) /\ Front(Create10(t), Commits(Handle(t)), Create11(t))
  BY <1>2, Fronts, Zenon DEF Create10
<1>4. IsSeq(Create9(t, f, G, k)) /\ Front(Create9(t, f, G, k), Set(t, Region(f, G, k)), Create10(t))
  BY <1>3, Fronts, Zenon DEF Create9
<1>5. /\ IsSeq(Create8(t, f, G, k))
      /\ Front(Create8(t, f, G, k), Set(t, [Region(f, G, k) EXCEPT !.next = 0]), Create9(t, f, G, k))
  BY <1>4, Fronts, Zenon DEF Create8
<1>6. /\ IsSeq(Create7(t, f, G, k))
      /\ Front(Create7(t, f, G, k), Set(t, [Empty(f) EXCEPT !.start = G.next]), Create8(t, f, G, k))
  BY <1>5, Fronts, Zenon DEF Create7
<1>7. IsSeq(Create6(t, f, G, k)) /\ Front(Create6(t, f, G, k), Set(Glob, Taken(G, k)), Create7(t, f, G, k))
  BY <1>6, Fronts, Zenon DEF Create6
<1>8. IsSeq(Create5(t, f, G, k)) /\ Front(Create5(t, f, G, k), LogOf(Glob), Create6(t, f, G, k))
  BY <1>7, Fronts, Zenon DEF Create5
<1>9. IsSeq(Create4(t, f, G, k))
  BY <1>3, <1>8, Zenon DEF Create4
<1>10. IsSeq(Create3(t, f, G, k)) /\ Front(Create3(t, f, G, k), Set(t, Empty(f)), Create4(t, f, G, k))
  BY <1>9, Fronts, Zenon DEF Create3
<1>11. IsSeq(Create2(t, f, G, k)) /\ Front(Create2(t, f, G, k), Set(Cnt, t + 1), Create3(t, f, G, k))
  BY <1>10, Fronts, Zenon DEF Create2
<1>12. Front(Create1(t, f, G, k), LogOf(Cnt), Create2(t, f, G, k))
  BY <1>11, Fronts, Zenon DEF Create1
<1>13. IsSeq(Refuse2) /\ Front(Refuse2, Commits(None), Ret(None))
  BY <1>1, Fronts, Zenon DEF Refuse2
<1>14. Front(Refuse1, LogOf(Cnt), Refuse2)
  BY <1>13, Fronts, Zenon DEF Refuse1
<1> QED BY <1>2, <1>3, <1>4, <1>5, <1>6, <1>7, <1>8, <1>10, <1>11, <1>12, <1>13, <1>14

\* The steps of heap::init.
LEMMA InitCodes ==
  ASSUME NEW f, NEW h, NEW g
  PROVE  /\ Front(Init1(f, h, g), Set(Boot, f), Init2(h, g)) /\ Front(Init2(h, g), Set(Boot, h), Init3(g))
         /\ Front(Init3(g), Set(Boot, BootHeap), Init4(g)) /\ Front(Init4(g), Set(Glob, g), Init5)
         /\ Front(Init5, Set(Glob, Area), Init6) /\ Front(Init6, Set(Flag, TRUE), <<>>)
<1>1. IsSeq(Init6) /\ Front(Init6, Set(Flag, TRUE), <<>>)
  BY Tuple1, Zenon DEF Init6, Front
<1>2. IsSeq(Init5) /\ Front(Init5, Set(Glob, Area), Init6)
  BY <1>1, Fronts, Zenon DEF Init5
<1>3. IsSeq(Init4(g)) /\ Front(Init4(g), Set(Glob, g), Init5)
  BY <1>2, Fronts, Zenon DEF Init4
<1>4. IsSeq(Init3(g)) /\ Front(Init3(g), Set(Boot, BootHeap), Init4(g))
  BY <1>3, Fronts, Zenon DEF Init3
<1>5. IsSeq(Init2(h, g)) /\ Front(Init2(h, g), Set(Boot, h), Init3(g))
  BY <1>4, Fronts, Zenon DEF Init2
<1>6. Front(Init1(f, h, g), Set(Boot, f), Init2(h, g))
  BY <1>5, Fronts, Zenon DEF Init1
<1> QED BY <1>1, <1>2, <1>3, <1>4, <1>5, <1>6

(***************************************************************************)
(* The program and what is on record.                                      *)
(***************************************************************************)
\* The objects are all different.
LEMMA Objects ==
  /\ TaskLimit \in Nat \ {0} /\ BootSize \in Nat /\ PmSize \in Nat
  /\ Boot \in Exec /\ Boot \notin Tid /\ Tid \subseteq Exec /\ Exec \subseteq Nat /\ Exec \subseteq Obj
  /\ {Cnt, Glob, Flag} \subseteq Obj /\ Cnt \notin Exec /\ Glob \notin Exec /\ Flag \notin Exec
  /\ Cnt # Glob /\ Cnt # Flag /\ Glob # Flag
  /\ \A K \in 0 .. TaskLimit : 0 .. K - 1 \subseteq Tid /\ Live(K) \subseteq Exec /\ Boot \in Live(K)
  /\ \A K \in 0 .. TaskLimit : \A x \in Exec : x \in Live(K) \/ (x \in Tid /\ x >= K)
  /\ \A K \in 0 .. TaskLimit : \A t \in Tid : t >= K => t \notin Live(K)
BY HeapAssumption DEF Boot, Exec, Tid, Obj, Cnt, Glob, Flag, Live

\* A program is a sequence of calls.
LEMMA ProgIs == ASSUME Types, NEW e \in Exec PROVE Prog(e) \in Seq(Calls) /\ Len(Prog(e)) \in Nat
<1>1. Prog(e) \in Seq(Calls)
  BY HeapAssumption DEF Prog, Types, HeapType
<1> QED BY <1>1, LenProperties

\* The record is what has been replayed, then the cached results.
LEMMA ResultsIs ==
  ASSUME Types, NEW e \in Exec
  PROVE  /\ replay[e] \in Seq(Answer) /\ cache[e] \in Seq(Answer) /\ Results(e) \in Seq(Answer)
         /\ given[e] \in Seq(Answer) /\ seen[e] \in Seq(Answer)
         /\ Len(replay[e]) \in Nat /\ Len(cache[e]) \in Nat /\ Len(given[e]) \in Nat /\ Len(seen[e]) \in Nat
         /\ Len(Results(e)) \in Nat /\ Len(Results(e)) = Len(replay[e]) + Len(cache[e])
         /\ \A i \in 1 .. Len(Results(e)) :
               Results(e)[i] = IF i <= Len(replay[e]) THEN replay[e][i] ELSE cache[e][i - Len(replay[e])]
<1>1. replay[e] \in Seq(Answer) /\ cache[e] \in Seq(Answer) /\ given[e] \in Seq(Answer) /\ seen[e] \in Seq(Answer)
  BY DEF Types
<1>2. Len(replay[e]) \in Nat /\ Len(cache[e]) \in Nat /\ Len(given[e]) \in Nat /\ Len(seen[e]) \in Nat
  BY <1>1, LenProperties
<1> DEFINE a == replay[e]
           b == cache[e]
<1>3. a \in Seq(Answer) /\ b \in Seq(Answer)
  BY <1>1
<1> HIDE DEF a, b
<1>4. /\ a \o b \in Seq(Answer) /\ Len(a \o b) = Len(a) + Len(b)
      /\ \A i \in 1 .. Len(a) + Len(b) : (a \o b)[i] = IF i <= Len(a) THEN a[i] ELSE b[i - Len(a)]
  BY <1>3, ConcatProperties
<1>5. Results(e) = a \o b
  BY DEF Results, a, b
<1>6. /\ Results(e) \in Seq(Answer) /\ Len(Results(e)) = Len(a) + Len(b)
      /\ \A i \in 1 .. Len(Results(e)) : Results(e)[i] = IF i <= Len(a) THEN a[i] ELSE b[i - Len(a)]
  BY <1>4, <1>5
<1>7. Len(a) + Len(b) \in Nat
  BY <1>3, LenProperties
<1> QED BY <1>1, <1>2, <1>6, <1>7 DEF a, b

\* What depends on the state of x alone.
LEMMA Unmoved ==
  ASSUME NEW x \in Exec, Same(mem'[x], mem[x]), todo'[x] = todo[x], given'[x] = given[x],
         cache'[x] = cache[x], replay'[x] = replay[x]
  PROVE  /\ Prog(x)' = Prog(x) /\ (AtEnd(x)' <=> AtEnd(x)) /\ Call(x)' = Call(x)
         /\ Results(x)' = Results(x) /\ (InCritical(x)' <=> InCritical(x))
<1>1. Prog(x)' = Prog(x)
  BY DEF Prog, Same
<1>2. (AtEnd(x)' <=> AtEnd(x)) /\ Call(x)' = Call(x) /\ Results(x)' = Results(x)
  BY <1>1 DEF AtEnd, Call, Results
<1> QED BY <1>1, <1>2 DEF InCritical

\* A call that creates a task is in its critical section.
LEMMA CreatingIs ==
  ASSUME NEW e, NEW K, NEW G, NEW B, NEW f, NEW k, Creating(e, K, G, B, f, k)
  PROVE  InCritical(e)
<1> DEFINE Before(c) == c # <<>> /\ Head(c).step # "return"
<1>1. \A c, x, d : Front(c, x, d) /\ x.step # "return" => Before(c)
  BY DEF Front
<1>2. /\ \A o : LogOf(o).step # "return" /\ \A v : Set(o, v).step # "return"
      /\ \A r : Commits(r).step # "return"
  BY Kinds
<1> HIDE DEF Before
<1>3. /\ \A c, o, d : Front(c, LogOf(o), d) => Before(c)
      /\ \A c, o, v, d : Front(c, Set(o, v), d) => Before(c)
      /\ \A c, r, d : Front(c, Commits(r), d) => Before(c)
  BY <1>1, <1>2, Zenon
<1>4. \A t, h, H, n : /\ Before(Create1(t, h, H, n)) /\ Before(Create2(t, h, H, n)) /\ Before(Create3(t, h, H, n))
                      /\ Before(Create5(t, h, H, n)) /\ Before(Create6(t, h, H, n)) /\ Before(Create7(t, h, H, n))
                      /\ Before(Create8(t, h, H, n)) /\ Before(Create9(t, h, H, n)) /\ Before(Create10(t))
  <2> TAKE t, h, H, n
  <2>1. /\ Before(Create1(t, h, H, n)) /\ Before(Create2(t, h, H, n)) /\ Before(Create3(t, h, H, n))
        /\ Before(Create5(t, h, H, n)) /\ Before(Create6(t, h, H, n))
    BY <1>3, CreateCodes, Zenon
  <2>2. /\ Before(Create7(t, h, H, n)) /\ Before(Create8(t, h, H, n))
        /\ Before(Create9(t, h, H, n)) /\ Before(Create10(t))
    BY <1>3, CreateCodes, Zenon
  <2> QED BY <2>1, <2>2
<1>5. Before(Refuse1) /\ Before(Refuse2)
  BY <1>3, CreateCodes, Zenon
<1>6. Before(todo[e])
  BY <1>4, <1>5, Zenon DEF Creating, Refusing, Counting, Carving
<1>7. todo[e] # <<>> /\ Head(todo[e]).step # "return"
  BY <1>6 DEF Before
<1> QED BY <1>7 DEF Creating, Working, InCritical

(***************************************************************************)
(* The others while e runs.                                                *)
(***************************************************************************)
Stays(e, K) ==
    \A x \in Exec \ {e} :
        /\ x \in Live(K) => mem'[x] = mem[x]
        /\ log'[x] = log[x] /\ open'[x] = open[x] /\ alive'[x] = alive[x] /\ todo'[x] = todo[x]
        /\ cache'[x] = cache[x] /\ replay'[x] = replay[x] /\ given'[x] = given[x] /\ seen'[x] = seen[x]

AgreeBut(e, K, B, C) == \A x \in Live(K) \ {e} : C[x] = B[x]

\* Nobody else is affected by a step of e.
LEMMA RestKept ==
  ASSUME Types, Turns, NEW K, NEW G, NEW B, Core(K, G, B), NEW e \in Live(K), Runs(e),
         Stays(e, K), bootDone' = bootDone,
         NEW K2 \in K .. TaskLimit, NEW G2, NEW B2, AgreeBut(e, K, B, B2)
  PROVE  /\ \A x \in Live(K) \ {e} : Good(x, K2, G2, B2)' /\ ~ InCritical(x)
         /\ \A x \in Exec \ {e} : Results(x)' = Results(x)
         /\ \A t \in Tid : t >= K => Untouched(t)'
         /\ Turns'
<1>0. /\ K \in 0 .. TaskLimit /\ Live(K) \subseteq Exec /\ e \in Exec
      /\ \A x \in Exec \ {e} : x \notin Live(K) => x \in Tid /\ x >= K
      /\ \A t \in Tid : t >= K => t \notin Live(K)
  BY Objects DEF Core
<1>1. \A x \in Exec \ {e} : ~ InCritical(x)
  BY DEF Runs
<1>2. ASSUME NEW x \in Live(K) \ {e}
      PROVE  /\ Prog(x)' = Prog(x) /\ (AtEnd(x)' <=> AtEnd(x)) /\ Call(x)' = Call(x)
             /\ Results(x)' = Results(x) /\ (InCritical(x)' <=> InCritical(x))
  <2>1. x \in Exec /\ Same(mem'[x], mem[x])
    BY <1>0 DEF Stays, Same
  <2> QED BY <1>0, <2>1, Unmoved DEF Stays
<1>3. ASSUME NEW x \in Live(K) \ {e} PROVE Good(x, K2, G2, B2)'
  <2>0. x \in Exec /\ Good(x, K, G, B) /\ ~ InCritical(x) /\ B2[x] = B[x]
    BY <1>0, <1>1 DEF Core, AgreeBut
  <2>1. /\ mem'[x] = mem[x] /\ log'[x] = log[x] /\ open'[x] = open[x] /\ alive'[x] = alive[x]
        /\ todo'[x] = todo[x] /\ cache'[x] = cache[x] /\ replay'[x] = replay[x]
        /\ given'[x] = given[x] /\ seen'[x] = seen[x]
    BY <2>0 DEF Stays
  <2>2. Place(x, K2, G2, B2)'
    <3>1. (Clean(x, B) => Clean(x, B2)') /\ (Logged(x, B) => Logged(x, B2)')
      BY <2>0, <2>1 DEF Clean, Logged
    <3>2. CASE Off(x, B)
      BY <2>1, <3>1, <3>2 DEF Off, Place
    <3>3. CASE Idle(x, B)
      BY <2>1, <3>1, <3>3 DEF Idle, Place
    <3>4. CASE Returning(x, B)
      BY <1>2, <2>1, <3>1, <3>4 DEF Returning, Place
    <3>5. ASSUME NEW f, NEW g, NEW r, Allocating(x, B, f, g, r) PROVE Allocating(x, B2, f, g, r)'
      <4>1. Working(x)'
        BY <1>2, <2>1, <3>5 DEF Allocating, Working
      <4>2. AllocatingAs(x, B2, f, g, r)'
        BY <2>1, <3>1, <3>5 DEF Allocating, AllocatingAs
      <4> QED BY <1>2, <2>0, <3>5, <4>1, <4>2 DEF Allocating
    <3>6. \A f, k : ~ Creating(x, K, G, B, f, k)
      BY <2>0, CreatingIs
    <3> QED BY <2>0, <3>2, <3>3, <3>4, <3>5, <3>6 DEF Good, Place
  <2>3. Answers(x)'
    BY <1>2, <2>0, <2>1 DEF Good, Answers
  <2>4. OwnBlocks(x, B2)'
    BY <1>2, <2>0 DEF Good, OwnBlocks
  <2>5. OwnTasks(x, K2)'
    BY <1>0, <1>2, <2>0, Objects DEF Good, OwnTasks
  <2>6. Same(mem'[x], B2[x])
    BY <2>0, <2>1 DEF Good
  <2> QED BY <2>2, <2>3, <2>4, <2>5, <2>6 DEF Good
<1>4. ASSUME NEW t \in Tid, t >= K PROVE Untouched(t)' /\ t # e
  <2>1. t \in Exec \ {e} /\ Untouched(t)
    BY <1>0, <1>4, Objects DEF Core
  <2> QED BY <2>1 DEF Stays, Untouched
<1>5. \A x \in Exec \ {e} : Results(x)' = Results(x)
  BY DEF Stays, Results
<1>6. ASSUME NEW x \in Exec \ {e} PROVE ~ InCritical(x)'
  <2>1. CASE x \in Live(K)
    BY <1>1, <1>2, <2>1
  <2>2. CASE x \notin Live(K)
    BY <1>0, <1>4, <2>2 DEF Untouched, InCritical
  <2> QED BY <2>1, <2>2
<1>7. Turns'
  <2>1. bootDone' => todo'[Boot] = <<>>
    BY Objects DEF Turns, Runs, Stays
  <2>2. ~ bootDone' => \A t \in Tid : todo'[t] = <<>>
    BY Objects DEF Turns, Runs, Stays
  <2> QED BY <1>6, <2>1, <2>2 DEF Turns
<1> QED BY <1>0, <1>1, <1>3, <1>4, <1>5, <1>7

\* A step of e inside of a call keeps the invariant if it leaves e at a place.
LEMMA Inner ==
  ASSUME Types, Turns, OneHandle, NEW K, NEW G, NEW B, Ready(K, G, B), NEW e \in Live(K), Runs(e),
         Types', Stays(e, K), bootDone' = bootDone, mem'[Flag] = mem[Flag], ready' \subseteq 0 .. K - 1,
         Results(e)' = Results(e), Same(mem'[e], mem[e]),
         Place(e, K, G, B)', Answers(e)', Counted(K, G, B)'
  PROVE  IInv'
<1>0. /\ Core(K, G, B) /\ K \in K .. TaskLimit /\ e \in Exec /\ Good(e, K, G, B)
      /\ \A x \in Exec : x \in Live(K) => x \in Live(K) \ {e} \/ x = e
  BY Objects DEF Ready, Core
<1>1. /\ \A x \in Live(K) \ {e} : Good(x, K, G, B)'
      /\ \A x \in Exec \ {e} : Results(x)' = Results(x)
      /\ \A t \in Tid : t >= K => Untouched(t)'
      /\ Turns'
  <2>1. AgreeBut(e, K, B, B)
    BY DEF AgreeBut
  <2> QED BY <1>0, <2>1, RestKept
<1>2. Prog(e)' = Prog(e)
  BY <1>0 DEF Prog, Same
<1>3. Good(e, K, G, B)'
  <2>1. OwnBlocks(e, B)' /\ OwnTasks(e, K)'
    BY <1>0, <1>2 DEF Good, OwnBlocks, OwnTasks
  <2>2. Same(mem'[e], B[e])
    BY <1>0 DEF Good, Same
  <2> QED BY <2>1, <2>2 DEF Good
<1>4. OneHandle'
  <2>1. \A x \in Exec : Results(x)' = Results(x)
    BY <1>1
  <2> QED BY <2>1 DEF OneHandle
<1>5. Core(K, G, B)'
  BY <1>0, <1>1, <1>3 DEF Core
<1>6. Ready(K, G, B)'
  BY <1>5 DEF Ready
<1> QED BY <1>1, <1>4, <1>6 DEF IInv

(***************************************************************************)
(* Between calls.                                                          *)
(***************************************************************************)
\* Who runs is boot or has been created.
LEMMA RunsLive ==
  ASSUME NEW K, NEW G, NEW B, Ready(K, G, B), NEW e \in Exec, Runs(e)
  PROVE  e \in Live(K) /\ Good(e, K, G, B) /\ K \in 0 .. TaskLimit
BY Objects DEF Ready, Core, Runs, Live

\* Unless a task is being created its count is up to date.
LEMMA QuietIs ==
  ASSUME NEW K, NEW G, NEW B, Core(K, G, B), \A x \in Live(K) : ~ InCritical(x)
  PROVE  Quiet(K, G)
BY CreatingIs DEF Core, Counted

\* (seen from the one that runs)
LEMMA QuietFor ==
  ASSUME NEW K, NEW G, NEW B, Core(K, G, B), NEW e \in Live(K), Runs(e), ~ InCritical(e)
  PROVE  Quiet(K, G)
<1>1. \A x \in Live(K) : ~ InCritical(x)
  BY Objects DEF Core, Runs
<1> QED BY <1>1, QuietIs

\* Without a step left there is no transaction under way.
LEMMA AtRest ==
  ASSUME NEW e, NEW K, NEW G, NEW B, Place(e, K, G, B), todo[e] = <<>>
  PROVE  /\ alive[e] => Clean(e, B)
         /\ ~ alive[e] => Off(e, B)
         /\ Clean(e, B) \/ (e # Boot /\ Logged(e, B))
<1>1. \A c, x, d : Front(c, x, d) => c # <<>>
  BY DEF Front
<1>2. ~ Returning(e, B)
  <2>1. \A t, r : <<>> # Ret(r) /\ <<>> # Create11(t)
    BY <1>1, AllocCodes, CreateCodes, Zenon
  <2> QED BY <2>1 DEF Returning
<1>3. \A f, g, r : ~ Allocating(e, B, f, g, r)
  <2>1. \A f, g, r : /\ <<>> # Alloc1(e, f, g, r) /\ <<>> # Alloc2(e, f, g, r)
                     /\ <<>> # Alloc3(e, g, r) /\ <<>> # Alloc4(e, g, r) /\ <<>> # Alloc5(r)
    BY <1>1, AllocCodes, Zenon
  <2> QED BY <2>1 DEF Allocating, AllocatingAs
<1>4. \A f, k : ~ Creating(e, K, G, B, f, k)
  BY CreatingIs DEF InCritical
<1>5. Off(e, B) \/ Idle(e, B)
  BY <1>2, <1>3, <1>4 DEF Place
<1> QED BY <1>5 DEF Off, Idle

\* The next answer is the next one on record.
LEMMA GiveIs ==
  ASSUME Types, NEW e \in Exec, Answers(e), Len(given[e]) < Len(Results(e)),
         NEW r, r = Results(e)[Len(given[e]) + 1], Give(e, r)
  PROVE  /\ given' \in [Exec -> Seq(Answer)] /\ seen' \in [Exec -> Seq(Answer)]
         /\ \A x \in Exec \ {e} : given'[x] = given[x] /\ seen'[x] = seen[x]
         /\ Len(given'[e]) = Len(given[e]) + 1
         /\ Len(given'[e]) <= Len(seen'[e]) /\ Len(seen'[e]) <= Len(Results(e))
         /\ \A i \in 1 .. Len(given'[e]) : given'[e][i] = Results(e)[i]
         /\ \A i \in 1 .. Len(seen'[e]) : seen'[e][i] = Results(e)[i]
<1> DEFINE R == Results(e)
           a == given[e]
           b == seen[e]
<1>1. /\ R \in Seq(Answer) /\ a \in Seq(Answer) /\ b \in Seq(Answer)
      /\ Len(R) \in Nat /\ Len(a) \in Nat /\ Len(b) \in Nat
  BY ResultsIs
<1>2. /\ Len(a) < Len(R) /\ r = R[Len(a) + 1] /\ Len(a) <= Len(b) /\ Len(b) <= Len(R)
      /\ \A i \in 1 .. Len(a) : a[i] = R[i]
      /\ \A i \in 1 .. Len(b) : b[i] = R[i]
  BY DEF Answers
<1>3. /\ given'[e] = Append(a, r) /\ seen'[e] = IF Len(a) = Len(b) THEN Append(b, r) ELSE b
      /\ \A x \in Exec \ {e} : given'[x] = given[x] /\ seen'[x] = seen[x]
  BY DEF Give, Types
<1>4. given' = [given EXCEPT ![e] = Append(a, r)] /\ seen' = [seen EXCEPT ![e] = seen'[e]]
  BY <1>3 DEF Give, Types
<1> HIDE DEF R, a, b
<1>5. r \in Answer
  BY <1>1, <1>2
<1>6. /\ Append(a, r) \in Seq(Answer) /\ Len(Append(a, r)) = Len(a) + 1
      /\ \A i \in 1 .. Len(a) + 1 : Append(a, r)[i] = R[i]
  BY <1>1, <1>2, <1>5, AppendProperties
<1>7. /\ Append(b, r) \in Seq(Answer) /\ Len(Append(b, r)) = Len(b) + 1
      /\ Len(a) = Len(b) => \A i \in 1 .. Len(b) + 1 : Append(b, r)[i] = R[i]
  BY <1>1, <1>2, <1>5, AppendProperties
<1>8. /\ seen'[e] \in Seq(Answer) /\ Len(a) + 1 <= Len(seen'[e]) /\ Len(seen'[e]) <= Len(R)
      /\ \A i \in 1 .. Len(seen'[e]) : seen'[e][i] = R[i]
  BY <1>1, <1>2, <1>3, <1>7
<1>9. given' \in [Exec -> Seq(Answer)] /\ seen' \in [Exec -> Seq(Answer)]
  BY <1>4, <1>6, <1>8 DEF Types
<1> QED BY <1>3, <1>6, <1>8, <1>9 DEF R, a

\* What follows the transaction of a call.
LEMMA EpilogueIs ==
  /\ \A c, r : (c.op # "create" \/ r = None) => Epilogue(c, r) = Ret(r)
  /\ \A c, t : c.op = "create" => Epilogue(c, Handle(t)) = Create11(t)
  /\ \A t : Handle(t) # None
<1>1. \A x : <<>> \o <<x>> = <<x>>
  BY Tuple0, Tuple1, Cat
<1>2. ASSUME NEW t PROVE Handle(t) # None /\ (CHOOSE x \in Handle(t) : TRUE)[1] = t
  <2>1. <<t>> \in Handle(t) /\ \A x \in Handle(t) : x = <<t>>
    BY DEF Handle
  <2>2. (CHOOSE x \in Handle(t) : TRUE) \in Handle(t)
    BY <2>1
  <2>3. (CHOOSE x \in Handle(t) : TRUE) = <<t>>
    BY <2>1, <2>2
  <2>4. <<t>>[1] = t
    OBVIOUS
  <2>5. Handle(t) # None
    BY <2>1 DEF None
  <2> QED BY <2>3, <2>4, <2>5
<1>3. ASSUME NEW c, NEW r, c.op # "create" \/ r = None PROVE Epilogue(c, r) = Ret(r)
  BY <1>1, <1>3 DEF Epilogue, Ret
<1>4. ASSUME NEW c, NEW t, c.op = "create" PROVE Epilogue(c, Handle(t)) = Create11(t)
  BY <1>2, <1>4 DEF Epilogue, Create11, Ret
<1> QED BY <1>2, <1>3, <1>4

\* Replay: the answer of a call that completed before a failure.
LEMMA ReplayStep ==
  ASSUME Types, Turns, OneHandle, NEW K, NEW G, NEW B, Ready(K, G, B), NEW e \in Exec, Replay(e)
  PROVE  IInv'
<1>0. /\ Runs(e) /\ alive[e] /\ todo[e] = <<>> /\ e # Boot /\ Len(given[e]) < Len(replay[e])
      /\ Give(e, replay[e][Len(given[e]) + 1])
      /\ UNCHANGED <<mem, bootDone, ready, log, open, cache, replay, alive, todo>>
  BY DEF Replay, BetweenCalls, persistent
<1>1. e \in Live(K) /\ Good(e, K, G, B) /\ Core(K, G, B)
  BY <1>0, RunsLive DEF Ready
<1>2. Clean(e, B) /\ ~ InCritical(e)
  BY <1>0, <1>1, AtRest DEF Good, InCritical
<1>3. /\ Len(given[e]) < Len(Results(e)) /\ replay[e][Len(given[e]) + 1] = Results(e)[Len(given[e]) + 1]
      /\ Len(given[e]) + 1 <= Len(replay[e])
  <2> DEFINE n == Len(given[e])
             m == Len(replay[e])
  <2>1. /\ n \in Nat /\ m \in Nat /\ Len(cache[e]) \in Nat /\ Len(Results(e)) = m + Len(cache[e])
        /\ \A i \in 1 .. Len(Results(e)) :
              Results(e)[i] = IF i <= m THEN replay[e][i] ELSE cache[e][i - m]
    BY ResultsIs
  <2>2. n < m
    BY <1>0
  <2> HIDE DEF n, m
  <2>3. n < Len(Results(e)) /\ n + 1 <= m /\ n + 1 \in 1 .. Len(Results(e))
    BY <2>1, <2>2
  <2>4. Results(e)[n + 1] = replay[e][n + 1]
    BY <2>1, <2>3
  <2> QED BY <2>3, <2>4 DEF n, m
<1>4. /\ given' \in [Exec -> Seq(Answer)] /\ seen' \in [Exec -> Seq(Answer)]
      /\ \A x \in Exec \ {e} : given'[x] = given[x] /\ seen'[x] = seen[x]
      /\ Len(given'[e]) = Len(given[e]) + 1
      /\ Len(given'[e]) <= Len(seen'[e]) /\ Len(seen'[e]) <= Len(Results(e))
      /\ \A i \in 1 .. Len(given'[e]) : given'[e][i] = Results(e)[i]
      /\ \A i \in 1 .. Len(seen'[e]) : seen'[e][i] = Results(e)[i]
  BY <1>0, <1>1, <1>3, GiveIs DEF Good
<1>5. Types' /\ Stays(e, K) /\ Results(e)' = Results(e) /\ Prog(e)' = Prog(e) /\ Same(mem'[e], mem[e])
  BY <1>0, <1>4 DEF Types, Stays, Results, Prog, Same
<1>6. Answers(e)'
  BY <1>0, <1>1, <1>3, <1>4, <1>5 DEF Good, Answers
<1>7. Place(e, K, G, B)'
  BY <1>0, <1>2 DEF Place, Idle, Clean
<1>8. Counted(K, G, B)' /\ ready' \subseteq 0 .. K - 1
  BY <1>0, <1>1, <1>2, QuietFor DEF Counted, Quiet, Core
<1> QED BY <1>0, <1>1, <1>5, <1>6, <1>7, <1>8, Inner

\* Bypass: the transaction has committed before.
LEMMA BypassStep ==
  ASSUME Types, Turns, OneHandle, NEW K, NEW G, NEW B, Ready(K, G, B), NEW e \in Exec, Bypass(e)
  PROVE  IInv'
<1> DEFINE r == Results(e)[Len(given[e]) + 1]
<1>0. /\ Runs(e) /\ alive[e] /\ todo[e] = <<>> /\ ~ AtEnd(e)
      /\ Len(replay[e]) <= Len(given[e]) /\ Len(given[e]) < Len(Results(e))
      /\ todo' = [todo EXCEPT ![e] = Epilogue(Call(e), r)]
      /\ UNCHANGED <<mem, bootDone, ready, log, open, cache, replay, alive, given, seen>>
  BY DEF Bypass, BetweenCalls, persistent
<1>1. e \in Live(K) /\ Good(e, K, G, B) /\ Core(K, G, B)
  BY <1>0, RunsLive DEF Ready
<1>2. Clean(e, B) /\ ~ InCritical(e)
  BY <1>0, <1>1, AtRest DEF Good, InCritical
<1>3. Types' /\ Stays(e, K) /\ Same(mem'[e], mem[e]) /\ todo'[e] = Epilogue(Call(e), r)
  BY <1>0 DEF Types, Stays, Same
<1>4. /\ Results(e)' = Results(e) /\ Prog(e)' = Prog(e) /\ (AtEnd(e)' <=> AtEnd(e)) /\ Call(e)' = Call(e)
  BY <1>0 DEF Results, Prog, AtEnd, Call
<1>5. Answers(e)'
  BY <1>0, <1>1, <1>4 DEF Good, Answers
<1>6. \/ todo'[e] = Ret(r)
      \/ \E t \in Tid : r = Handle(t) /\ Call(e).op = "create" /\ todo'[e] = Create11(t)
  <2>1. CASE Call(e).op # "create" \/ r = None
    BY <1>3, <2>1, EpilogueIs
  <2>2. CASE Call(e).op = "create" /\ r # None
    <3>1. Len(given[e]) + 1 \in 1 .. Len(Results(e)) /\ Prog(e)[Len(given[e]) + 1].op = "create"
      BY <1>0, <2>2, ResultsIs DEF Call
    <3>2. PICK t \in Tid : r = Handle(t)
      BY <1>1, <2>2, <3>1 DEF Good, OwnTasks
    <3> QED BY <1>3, <2>2, <3>2, EpilogueIs
  <2> QED BY <2>1, <2>2
<1>7. Returning(e, B)'
  BY <1>0, <1>2, <1>4, <1>6 DEF Returning, Clean
<1>8. Place(e, K, G, B)' /\ Counted(K, G, B)' /\ ready' \subseteq 0 .. K - 1
  BY <1>0, <1>1, <1>2, <1>7, QuietFor DEF Place, Counted, Quiet, Core
<1> QED BY <1>0, <1>1, <1>3, <1>4, <1>5, <1>8, Inner


(***************************************************************************)
(* Recovery.                                                               *)
(***************************************************************************)
\* The oldest entry is the first.
LEMMA FirstIs ==
  /\ \A S : S \subseteq Nat \ {0} /\ 1 \in S => Min(S) = 1
  /\ \A S : S = {2} => Min(S) = 2
<1>1. ASSUME NEW S, S \subseteq Nat \ {0}, 1 \in S PROVE Min(S) = 1
  <2>1. \A x \in S : 1 <= x /\ (x <= 1 => x = 1)
    BY <1>1
  <2>2. Min(S) \in S /\ \A y \in S : Min(S) <= y
    BY <1>1, <2>1 DEF Min
  <2> QED BY <1>1, <2>1, <2>2
<1>2. ASSUME NEW S, S = {2} PROVE Min(S) = 2
  <2>1. \E x \in S : \A y \in S : x <= y
    BY <1>2
  <2>2. Min(S) \in S
    BY <2>1 DEF Min
  <2> QED BY <1>2, <2>2
<1> QED BY <1>1, <1>2

\* An object is what it was when it was first logged.
LEMMA RollBackIs ==
  ASSUME NEW e, NEW o \in Obj
  PROVE  /\ ((~ open[e]) \/ (\A i \in DOMAIN log[e] : log[e][i].obj # o)) => RollBack(e)[o] = mem[o]
         /\ (open[e] /\ DOMAIN log[e] \subseteq Nat \ {0} /\ 1 \in DOMAIN log[e] /\ log[e][1].obj = o)
               => RollBack(e)[o] = log[e][1].old
         /\ (open[e] /\ DOMAIN log[e] = {1, 2} /\ log[e][1].obj # o /\ log[e][2].obj = o)
               => RollBack(e)[o] = log[e][2].old
<1> DEFINE at == {i \in DOMAIN log[e] : log[e][i].obj = o}
<1>1. RollBack(e)[o] = IF ~ open[e] \/ at = {} THEN mem[o] ELSE log[e][Min(at)].old
  BY DEF RollBack
<1>2. ASSUME \A i \in DOMAIN log[e] : log[e][i].obj # o PROVE at = {}
  BY <1>2
<1>3. ASSUME DOMAIN log[e] \subseteq Nat \ {0}, 1 \in DOMAIN log[e], log[e][1].obj = o
      PROVE  at # {} /\ Min(at) = 1
  <2>1. at \subseteq Nat \ {0} /\ 1 \in at
    BY <1>3
  <2> HIDE DEF at
  <2> QED BY <2>1, FirstIs
<1>4. ASSUME DOMAIN log[e] = {1, 2}, log[e][1].obj # o, log[e][2].obj = o
      PROVE  at # {} /\ Min(at) = 2
  <2>1. at = {2}
    BY <1>4
  <2> HIDE DEF at
  <2> QED BY <2>1, FirstIs
<1> HIDE DEF at
<1> QED BY <1>1, <1>2, <1>3, <1>4

\* With no entry, or with those of an allocation.
LEMMA RollBackHeap ==
  ASSUME Types, NEW e \in Exec, NEW B
  PROVE  /\ log[e] = <<>> => \A o \in Obj : RollBack(e)[o] = mem[o]
         /\ Logged(e, B) => RollBack(e)[e] = B[e] /\ \A o \in Obj \ {e} : RollBack(e)[o] = mem[o]
<1>1. ASSUME log[e] = <<>>, NEW o \in Obj PROVE RollBack(e)[o] = mem[o]
  <2>1. DOMAIN log[e] = {}
    BY <1>1
  <2> QED BY <2>1, RollBackIs
<1>2. ASSUME Logged(e, B)
      PROVE  RollBack(e)[e] = B[e] /\ \A o \in Obj \ {e} : RollBack(e)[o] = mem[o]
  <2> DEFINE l == log[e]
             S == [obj : {e}, old : HeapType]
  <2>1. l \in Seq(S) /\ l # <<>> /\ open[e] /\ l[1].old = B[e]
    BY <1>2 DEF Logged
  <2>2. \A s \in S : s.obj = e
    OBVIOUS
  <2> HIDE DEF l, S
  <2>3. Len(l) \in Nat /\ Len(l) # 0 /\ DOMAIN l = 1 .. Len(l) /\ \A i \in DOMAIN l : l[i] \in S
    BY <2>1, LenProperties, EmptySeq
  <2>4. DOMAIN l \subseteq Nat \ {0} /\ 1 \in DOMAIN l
    BY <2>3
  <2>5. \A i \in DOMAIN l : l[i].obj = e
    BY <2>2, <2>3
  <2>6. RollBack(e)[e] = B[e]
    BY <2>1, <2>4, <2>5, RollBackIs, Objects DEF l
  <2>7. \A o \in Obj \ {e} : RollBack(e)[o] = mem[o]
    BY <2>5, RollBackIs DEF l
  <2> QED BY <2>6, <2>7
<1> QED BY <1>1, <1>2

\* With those of the creation of a task.
LEMMA RollBackCount ==
  ASSUME NEW e \in Exec, NEW K, NEW G, open[e], Log1(e, K) \/ Log2(e, K, G)
  PROVE  /\ RollBack(e)[Cnt] = K
         /\ Log1(e, K) => RollBack(e)[Glob] = mem[Glob]
         /\ Log2(e, K, G) => RollBack(e)[Glob] = G
         /\ \A o \in Obj \ {Cnt, Glob} : RollBack(e)[o] = mem[o]
<1>0. /\ \A o, v : Entry(o, v).obj = o /\ Entry(o, v).old = v
      /\ Cnt \in Obj /\ Glob \in Obj /\ Cnt # Glob
  BY Objects DEF Entry
<1>1. CASE Log1(e, K)
  <2>1. DOMAIN log[e] = {1} /\ log[e][1] = Entry(Cnt, K)
    BY <1>1 DEF Log1
  <2>2. RollBack(e)[Cnt] = K
    BY <1>0, <2>1, RollBackIs
  <2>3. \A o \in Obj \ {Cnt} : RollBack(e)[o] = mem[o]
    BY <1>0, <2>1, RollBackIs
  <2>4. ~ Log2(e, K, G)
    <3>1. CASE Log2(e, K, G)
      <4>1. Len(log[e]) = 1
        BY <1>1 DEF Log1
      <4>2. Len(log[e]) = 2
        BY <3>1 DEF Log2
      <4> QED BY <4>1, <4>2
    <3> QED BY <3>1
  <2> QED BY <1>0, <2>2, <2>3, <2>4
<1>2. CASE Log2(e, K, G) /\ ~ Log1(e, K)
  <2>1. DOMAIN log[e] = {1, 2} /\ log[e][1] = Entry(Cnt, K) /\ log[e][2] = Entry(Glob, G)
    BY <1>2 DEF Log2
  <2>2. RollBack(e)[Cnt] = K /\ RollBack(e)[Glob] = G
    BY <1>0, <2>1, RollBackIs
  <2>3. \A o \in Obj \ {Cnt, Glob} : RollBack(e)[o] = mem[o]
    BY <1>0, <2>1, RollBackIs
  <2> QED BY <1>2, <2>2, <2>3
<1> QED BY <1>1, <1>2

\* Recovery undoes the transaction of e, whatever it was doing.
LEMMA RecoverIs ==
  ASSUME Types, NEW K, NEW G, NEW B, Core(K, G, B), NEW e \in Live(K), Recovered(e),
         \A x \in Live(K) \ {e} : ~ InCritical(x)
  PROVE  /\ DOMAIN mem' = Obj /\ DOMAIN log' = Exec /\ mem'[Flag] = mem[Flag] /\ Quiet(K, G)'
         /\ mem'[e] = B[e] /\ log'[e] = <<>>
         /\ \A x \in Exec \ {e} : mem'[x] = mem[x] /\ log'[x] = log[x]
<1>0. /\ e \in Exec /\ Good(e, K, G, B) /\ mem' = RollBack(e) /\ DOMAIN mem' = Obj
  BY Objects DEF Core, Recovered, RollBack
<1>1. DOMAIN log' = Exec /\ log'[e] = <<>> /\ \A x \in Exec \ {e} : log'[x] = log[x]
  BY <1>0 DEF Recovered, Types
<1>2. Quiet(K, G) \/ \E f, k : Creating(e, K, G, B, f, k)
  BY CreatingIs DEF Core, Counted
<1>3. Clean(e, B) \/ Logged(e, B) \/ \E f, k : Creating(e, K, G, B, f, k)
  BY <1>0 DEF Good, Place, Off, Idle, Returning, Allocating, AllocatingAs
<1>4. ASSUME NEW f, NEW k, Creating(e, K, G, B, f, k)
      PROVE  mem'[Cnt] = K /\ mem'[Glob] = G /\ mem'[e] = B[e]
             /\ \A o \in Obj \ {Cnt, Glob} : mem'[o] = mem[o]
  <2>1. open[e] /\ mem[e] = B[e]
    BY <1>4 DEF Creating, Working
  <2>2. \/ log[e] = <<>> /\ mem[Cnt] = K /\ mem[Glob] = G
        \/ Log1(e, K) /\ mem[Glob] = G
        \/ Log2(e, K, G)
    BY <1>4 DEF Creating, Refusing, Quiet, Counting, Carving
  <2>3. e \in Obj \ {Cnt, Glob} /\ Cnt \in Obj /\ Glob \in Obj
    BY <1>0, Objects
  <2>4. CASE log[e] = <<>> /\ mem[Cnt] = K /\ mem[Glob] = G
    BY <1>0, <2>1, <2>3, <2>4, RollBackHeap
  <2>5. CASE Log1(e, K) /\ mem[Glob] = G
    BY <1>0, <2>1, <2>3, <2>5, RollBackCount
  <2>6. CASE Log2(e, K, G)
    BY <1>0, <2>1, <2>3, <2>6, RollBackCount
  <2> QED BY <2>2, <2>4, <2>5, <2>6
<1>5. ASSUME Quiet(K, G), Clean(e, B) \/ Logged(e, B)
      PROVE  mem'[Cnt] = K /\ mem'[Glob] = G /\ mem'[e] = B[e]
             /\ \A o \in Obj \ {Cnt, Glob, e} : mem'[o] = mem[o]
  <2>0. e \in Obj /\ Cnt \in Obj \ {e} /\ Glob \in Obj \ {e} /\ mem[Cnt] = K /\ mem[Glob] = G
    BY <1>0, <1>5, Objects DEF Quiet
  <2>1. CASE Clean(e, B)
    <3>1. \A o \in Obj : mem'[o] = mem[o]
      BY <1>0, <2>1, RollBackHeap DEF Clean
    <3> QED BY <2>0, <2>1, <3>1 DEF Clean
  <2>2. CASE Logged(e, B)
    <3>1. mem'[e] = B[e] /\ \A o \in Obj \ {e} : mem'[o] = mem[o]
      BY <1>0, <2>2, RollBackHeap
    <3> QED BY <2>0, <3>1
  <2> QED BY <1>5, <2>1, <2>2
<1>6. mem'[Cnt] = K /\ mem'[Glob] = G /\ mem'[e] = B[e] /\ \A o \in Obj \ {Cnt, Glob, e} : mem'[o] = mem[o]
  BY <1>2, <1>3, <1>4, <1>5
<1>7. mem'[Flag] = mem[Flag] /\ \A x \in Exec \ {e} : mem'[x] = mem[x]
  BY <1>0, <1>6, Objects
<1> QED BY <1>0, <1>1, <1>6, <1>7 DEF Quiet

\* JitRecovery: a task is switched to for the first time after a failure.
LEMMA JitStep ==
  ASSUME Types, Turns, OneHandle, NEW K, NEW G, NEW B, Ready(K, G, B), NEW e \in Exec, JitRecovery(e)
  PROVE  IInv'
<1>0. /\ e # Boot /\ Runs(e) /\ ~ alive[e] /\ Recovered(e)
      /\ alive' = [alive EXCEPT ![e] = TRUE]
      /\ UNCHANGED <<bootDone, ready, open, cache, replay, todo, given, seen>>
  BY DEF JitRecovery
<1>1. e \in Live(K) /\ Good(e, K, G, B) /\ Core(K, G, B) /\ B \in [Exec -> HeapType] /\ G \in GlobRec
      /\ K \in Nat
  BY <1>0, RunsLive DEF Ready, Core
<1>2. \A x \in Live(K) \ {e} : ~ InCritical(x)
  BY <1>0, <1>1, Objects DEF Runs, Core
<1>3. /\ DOMAIN mem' = Obj /\ DOMAIN log' = Exec /\ mem'[Flag] = mem[Flag] /\ Quiet(K, G)'
      /\ mem'[e] = B[e] /\ log'[e] = <<>>
      /\ \A x \in Exec \ {e} : mem'[x] = mem[x] /\ log'[x] = log[x]
  BY <1>0, <1>1, <1>2, RecoverIs
<1>4. alive'[e] /\ alive' \in [Exec -> BOOLEAN] /\ \A x \in Exec \ {e} : alive'[x] = alive[x]
  BY <1>0 DEF Types
<1>5. todo[e] = <<>> /\ given[e] = <<>>
  <2>1. Off(e, B)
    BY <1>0, <1>1 DEF Good, Place, Idle, Returning, Allocating, Creating, Working
  <2> QED BY <2>1 DEF Off
<1>6. Types'
  BY <1>0, <1>1, <1>3, <1>4 DEF Types, Quiet
<1>7. Stays(e, K) /\ Results(e)' = Results(e) /\ Same(mem'[e], mem[e])
  BY <1>0, <1>1, <1>3, <1>4 DEF Stays, Results, Good, Same
<1>8. Place(e, K, G, B)'
  BY <1>0, <1>3, <1>4, <1>5 DEF Place, Idle, Clean
<1>9. Answers(e)'
  <2>1. Prog(e)' = Prog(e)
    BY <1>7 DEF Prog, Same
  <2> QED BY <1>0, <1>1, <1>7, <2>1 DEF Good, Answers
<1>10. ready' \subseteq 0 .. K - 1 /\ Counted(K, G, B)'
  BY <1>0, <1>1, <1>3 DEF Core, Counted
<1> QED BY <1>0, <1>1, <1>3, <1>6, <1>7, <1>8, <1>9, <1>10, Inner

\* StartBoot: after the first time heap::init leaves the heaps alone.
LEMMA StartBootStep ==
  ASSUME Types, Turns, OneHandle, NEW K, NEW G, NEW B, Ready(K, G, B), StartBoot
  PROVE  IInv'
<1>0. /\ Runs(Boot) /\ ~ alive[Boot] /\ mem[Flag]
      /\ alive' = [alive EXCEPT ![Boot] = TRUE] /\ todo' = [todo EXCEPT ![Boot] = <<>>]
      /\ UNCHANGED <<mem, bootDone, ready, log, open, cache, replay, given, seen>>
  BY DEF StartBoot, persistent, Ready
<1>1. Boot \in Exec /\ Boot \in Live(K) /\ Good(Boot, K, G, B) /\ Core(K, G, B)
  BY <1>0, RunsLive, Objects DEF Ready
<1>2. Off(Boot, B)
  BY <1>0, <1>1 DEF Good, Place, Idle, Returning, Allocating, Creating, Working
<1>3. /\ alive'[Boot] /\ alive' \in [Exec -> BOOLEAN] /\ \A x \in Exec \ {Boot} : alive'[x] = alive[x]
      /\ todo'[Boot] = <<>> /\ DOMAIN todo' = Exec /\ \A x \in Exec \ {Boot} : todo'[x] = todo[x]
  BY <1>0, <1>1 DEF Types
<1>4. Types' /\ Stays(Boot, K) /\ Same(mem'[Boot], mem[Boot])
  BY <1>0, <1>3 DEF Types, Stays, Same
<1>5. Results(Boot)' = Results(Boot) /\ Answers(Boot)'
  <2>1. Results(Boot)' = Results(Boot) /\ Prog(Boot)' = Prog(Boot)
    BY <1>0 DEF Results, Prog
  <2> QED BY <1>0, <1>1, <2>1 DEF Good, Answers
<1>6. Place(Boot, K, G, B)'
  BY <1>0, <1>2, <1>3 DEF Place, Idle, Off, Clean
<1>7. ~ InCritical(Boot)
  BY <1>2 DEF Off, InCritical
<1>8. ready' \subseteq 0 .. K - 1 /\ Counted(K, G, B)'
  BY <1>0, <1>1, <1>7, QuietFor DEF Core, Counted, Quiet
<1> QED BY <1>0, <1>1, <1>4, <1>5, <1>6, <1>8, Inner

\* A step that changes nothing, or that completes the first boot.
LEMMA Still ==
  ASSUME Types, Turns, OneHandle, NEW K, NEW G, NEW B, Ready(K, G, B),
         bootDone' = bootDone \/ (bootDone' = TRUE /\ todo[Boot] = <<>>),
         UNCHANGED <<mem, ready, log, open, cache, replay, alive, todo, given, seen>>
  PROVE  IInv'
<1>0. /\ bootDone' = bootDone \/ (bootDone' = TRUE /\ todo[Boot] = <<>>)
      /\ UNCHANGED <<mem, ready, log, open, cache, replay, alive, todo, given, seen>>
  OBVIOUS
<1>1. Types' /\ OneHandle'
  <2>1. Types'
    BY <1>0 DEF Types
  <2>2. OneHandle'
    <3>1. \A x : Results(x)' = Results(x)
      BY <1>0 DEF Results
    <3> QED BY <3>1 DEF OneHandle
  <2> QED BY <2>1, <2>2
<1>2. \A x : /\ Prog(x)' = Prog(x) /\ (AtEnd(x)' <=> AtEnd(x)) /\ Call(x)' = Call(x)
             /\ Results(x)' = Results(x) /\ (InCritical(x)' <=> InCritical(x))
  BY <1>0 DEF Prog, AtEnd, Call, Results, InCritical
<1>3. Turns'
  BY <1>0, <1>2 DEF Turns
<1>4. \A x : (Clean(x, B)' <=> Clean(x, B)) /\ (Logged(x, B)' <=> Logged(x, B)) /\ (Working(x)' <=> Working(x))
  BY <1>0, <1>2 DEF Clean, Logged, Working
<1>5. \A x, f, k : Creating(x, K, G, B, f, k) => Creating(x, K, G, B, f, k)'
  BY <1>0, <1>2, <1>4 DEF Creating, Refusing, Counting, Carving, Quiet, Log1, Log2
<1>6. \A x, f, g, r : Allocating(x, B, f, g, r) => Allocating(x, B, f, g, r)'
  BY <1>0, <1>2, <1>4 DEF Allocating, AllocatingAs
<1>7. \A x : Place(x, K, G, B) => Place(x, K, G, B)'
  <2> SUFFICES ASSUME NEW x, Place(x, K, G, B) PROVE Place(x, K, G, B)'
    OBVIOUS
  <2>1. CASE Off(x, B)
    BY <1>0, <1>4, <2>1 DEF Off, Place
  <2>2. CASE Idle(x, B)
    BY <1>0, <1>4, <2>2 DEF Idle, Place
  <2>3. CASE Returning(x, B)
    BY <1>0, <1>2, <1>4, <2>3 DEF Returning, Place
  <2> QED BY <1>5, <1>6, <2>1, <2>2, <2>3 DEF Place
<1>8. \A x : Good(x, K, G, B) => Good(x, K, G, B)'
  BY <1>0, <1>2, <1>7 DEF Good, Answers, OwnBlocks, OwnTasks
<1>9. Core(K, G, B)'
  <2>1. Counted(K, G, B)'
    BY <1>0, <1>5 DEF Ready, Core, Counted, Quiet
  <2> QED BY <1>0, <1>8, <2>1 DEF Ready, Core, Untouched
<1> QED BY <1>0, <1>1, <1>3, <1>9 DEF IInv, Ready

\* CompleteFirstBoot.
LEMMA CompleteStep ==
  ASSUME Types, Turns, OneHandle, NEW K, NEW G, NEW B, Ready(K, G, B), CompleteFirstBoot
  PROVE  IInv'
BY Still DEF CompleteFirstBoot, BetweenCalls

(***************************************************************************)
(* The beginning of a call.                                                *)
(***************************************************************************)
\* An address is aligned upwards.
LEMMA AlignIs == \A a \in Nat, n \in Nat \ {0} : AlignUp(a, n) \in Nat /\ a <= AlignUp(a, n)
<1> SUFFICES ASSUME NEW a \in Nat, NEW n \in Nat \ {0} PROVE AlignUp(a, n) \in Nat /\ a <= AlignUp(a, n)
  OBVIOUS
<1>1. PICK q \in Int : q = (a + n - 1) \div n
  OBVIOUS
<1>2. q \in Nat /\ q * n >= a
  BY <1>1
<1>3. q * n \in Nat
  BY <1>2
<1> QED BY <1>1, <1>2, <1>3 DEF AlignUp

\* What an allocation takes is behind what was taken before.
LEMMA BumpIs ==
  ASSUME NEW h \in HeapType, h.next <= h.end, NEW size \in Nat, NEW align \in Nat \ {0}
  PROVE  Grown(h, Bump(h, size, align), BlockOf(h, size, align))
<1> DEFINE a == AlignUp(h.next, align)
<1>1. a \in Nat /\ h.next <= a /\ h.next \in Nat /\ h.end \in Nat
  BY AlignIs DEF HeapType
<1>2. CASE Fits(h, size, align)
  <2>1. /\ Bump(h, size, align) = [h EXCEPT !.next = a + size]
        /\ BlockOf(h, size, align) = {<<a, a + size>>} /\ a + size <= h.end
    BY <1>2 DEF Bump, BlockOf, Fits, Block
  <2> HIDE DEF a
  <2> DEFINE g == [h EXCEPT !.next = a + size]
             b == <<a, a + size>>
  <2>2. g \in HeapType /\ Same(g, h) /\ h.next <= g.next /\ g.next <= g.end /\ g.next = a + size
    BY <1>1, <2>1 DEF HeapType, Same
  <2>3. b \in Seq(Nat) /\ Len(b) = 2 /\ b[1] = a /\ b[2] = a + size
    BY <1>1
  <2> HIDE DEF b, g
  <2>4. {b} \in Answer
    BY <2>3 DEF Answer
  <2> QED BY <1>1, <2>1, <2>2, <2>3, <2>4 DEF Grown, b, g
<1>3. CASE ~ Fits(h, size, align)
  BY <1>1, <1>3 DEF Bump, BlockOf, Grown, Same, None, Answer
<1> QED BY <1>2, <1>3

\* A block is two addresses.
LEMMA PairIs == \A b \in Seq(Nat) : Len(b) = 2 => b[1] \in Nat /\ b[2] \in Nat
<1> SUFFICES ASSUME NEW b \in Seq(Nat), Len(b) = 2 PROVE b[1] \in Nat /\ b[2] \in Nat
  OBVIOUS
<1>1. 1 \in 1 .. Len(b) /\ 2 \in 1 .. Len(b)
  OBVIOUS
<1> QED BY <1>1, ElementOfSeq

\* One allocation after another, and one that is given up.
LEMMA GrownIs ==
  ASSUME NEW h \in HeapType, NEW f, NEW r
  PROVE  /\ \A g, s : Grown(h, f, r) /\ Grown(f, g, s) => Grown(h, g, r \cup s) /\ Grown(h, g, None)
         /\ Grown(h, f, r) => Grown(h, f, None)
         /\ h.next <= h.end => Grown(h, h, None)
<1>1. Grown(h, f, r) => Grown(h, f, None)
  BY DEF Grown, None, Answer
<1>2. h.next <= h.end => Grown(h, h, None)
  BY DEF Grown, None, Answer, Same, HeapType
<1>3. ASSUME NEW g, NEW s, Grown(h, f, r), Grown(f, g, s) PROVE Grown(h, g, r \cup s)
  <2>1. /\ h.next \in Nat /\ f.next \in Nat /\ g.next \in Nat /\ h.next <= f.next /\ f.next <= g.next
        /\ g \in HeapType /\ Same(g, h) /\ g.next <= g.end
    BY <1>3 DEF Grown, HeapType, Same
  <2>2. r \cup s \in Answer
    BY <1>3 DEF Grown, Answer
  <2>3. ASSUME NEW b \in r PROVE Len(b) = 2 /\ h.next <= b[1] /\ b[2] <= g.next
    <3>1. b \in Seq(Nat) /\ Len(b) = 2 /\ h.next <= b[1] /\ b[2] <= f.next
      BY <1>3 DEF Grown, Answer
    <3>2. b[2] \in Nat
      BY <3>1, PairIs
    <3> QED BY <2>1, <3>1, <3>2
  <2>4. ASSUME NEW b \in s PROVE Len(b) = 2 /\ h.next <= b[1] /\ b[2] <= g.next
    <3>1. b \in Seq(Nat) /\ Len(b) = 2 /\ f.next <= b[1] /\ b[2] <= g.next
      BY <1>3 DEF Grown, Answer
    <3>2. b[1] \in Nat
      BY <3>1, PairIs
    <3> QED BY <2>1, <3>1, <3>2
  <2> QED BY <2>1, <2>2, <2>3, <2>4 DEF Grown
<1>4. ASSUME NEW g, NEW s, Grown(h, f, r), Grown(f, g, s) PROVE Grown(h, g, None)
  BY <1>3, <1>4 DEF Grown, None, Answer
<1> QED BY <1>1, <1>2, <1>3, <1>4

\* Two or three steps in front of a sequence.
LEMMA Joins ==
  /\ \A x, y, s : IsSeq(s) =>
        <<x, y>> \o s = <<x>> \o (<<y>> \o s) /\ IsSeq(<<x, y>> \o s) /\ IsSeq(<<y>> \o s)
  /\ \A x, y, z, s : IsSeq(s) =>
        <<x, y, z>> \o s = <<x>> \o (<<y>> \o (<<z>> \o s)) /\ IsSeq(<<x, y, z>> \o s)
<1>1. ASSUME NEW x, NEW y, NEW s, IsSeq(s)
      PROVE  <<x, y>> \o s = <<x>> \o (<<y>> \o s) /\ IsSeq(<<x, y>> \o s) /\ IsSeq(<<y>> \o s)
  <2>1. IsSeq(<<x>>) /\ IsSeq(<<y>>) /\ <<x, y>> = <<x>> \o <<y>> /\ IsSeq(<<x, y>>)
    BY Tuple1, Tuple2, Zenon
  <2>2. Assoc(<<x>>, <<y>>, s)
    BY <1>1, <2>1, Associates, Zenon
  <2> QED BY <1>1, <2>1, <2>2, Cat, Zenon DEF Assoc
<1>2. ASSUME NEW x, NEW y, NEW z, NEW s, IsSeq(s)
      PROVE  <<x, y, z>> \o s = <<x>> \o (<<y>> \o (<<z>> \o s)) /\ IsSeq(<<x, y, z>> \o s)
  <2>0. <<x, y, z>> = <<x>> \o <<y, z>> /\ IsSeq(<<x, y, z>>)
    BY Tuple3
  <2>1. IsSeq(<<x>>) /\ IsSeq(<<y, z>>)
    BY Tuple1, Tuple2
  <2>2. Assoc(<<x>>, <<y, z>>, s)
    BY <1>2, <2>1, Associates, Zenon
  <2>3. <<x, y, z>> \o s = <<x>> \o (<<y, z>> \o s)
    BY <2>0, <2>2 DEF Assoc
  <2>4. <<y, z>> \o s = <<y>> \o (<<z>> \o s)
    BY <1>1, <1>2
  <2>5. IsSeq(<<x, y, z>> \o s)
    BY <1>2, <2>0, Cat
  <2> QED BY <2>3, <2>4, <2>5
<1> QED BY <1>1, <1>2

\* The steps of an allocation and what follows it.
LEMMA AllocJoin ==
  ASSUME NEW e, NEW r
  PROVE  /\ \A g : LET b == <<LogOf(e), Set(e, g)>> \o <<Commits(r)>>
                   IN  b[Len(b)] = Commits(r) /\ b \o Ret(r) = Alloc3(e, g, r)
         /\ \A f, g : LET b == (<<LogOf(e), Set(e, f)>> \o <<LogOf(e), Set(e, g)>>) \o <<Commits(r)>>
                      IN  b[Len(b)] = Commits(r) /\ b \o Ret(r) = Alloc1(e, f, g, r)
<1> DEFINE c == <<Commits(r)>>
           p(v) == <<LogOf(e), Set(e, v)>>
<1>0. IsSeq(c) /\ IsSeq(Ret(r)) /\ IsSeq(c \o Ret(r)) /\ \A v : IsSeq(p(v))
  BY Tuple1, Tuple2, Cat, Zenon DEF Ret
<1>1. \A s : IsSeq(s) => (s \o c)[Len(s \o c)] = Commits(r)
  BY LastOf, Zenon
<1>2. ASSUME NEW v, NEW s, IsSeq(s)
      PROVE  p(v) \o s = <<LogOf(e)>> \o (<<Set(e, v)>> \o s) /\ IsSeq(p(v) \o s)
  BY <1>2, Joins
<1> HIDE DEF c, p
<1>3. ASSUME NEW g
      PROVE  (p(g) \o c)[Len(p(g) \o c)] = Commits(r) /\ (p(g) \o c) \o Ret(r) = Alloc3(e, g, r)
  <2>1. Assoc(p(g), c, Ret(r))
    BY <1>0, Associates
  <2>2. (p(g) \o c) \o Ret(r) = <<LogOf(e)>> \o (<<Set(e, g)>> \o (c \o Ret(r)))
    BY <1>0, <1>2, <2>1 DEF Assoc
  <2>3. (p(g) \o c) \o Ret(r) = Alloc3(e, g, r)
    BY <2>2 DEF Alloc3, Alloc4, Alloc5, c
  <2> QED BY <1>0, <1>1, <2>3
<1>4. ASSUME NEW f, NEW g
      PROVE  /\ ((p(f) \o p(g)) \o c)[Len((p(f) \o p(g)) \o c)] = Commits(r)
             /\ ((p(f) \o p(g)) \o c) \o Ret(r) = Alloc1(e, f, g, r)
  <2>1. IsSeq(p(f) \o p(g)) /\ IsSeq(p(g) \o c)
    BY <1>0, <1>2
  <2>2. Assoc(p(f) \o p(g), c, Ret(r)) /\ Assoc(p(f), p(g), c \o Ret(r)) /\ Assoc(p(g), c, Ret(r))
    BY <1>0, <2>1, Associates
  <2>3. ((p(f) \o p(g)) \o c) \o Ret(r) = p(f) \o ((p(g) \o c) \o Ret(r))
    BY <2>2 DEF Assoc
  <2>4. (p(g) \o c) \o Ret(r) = Alloc3(e, g, r)
    BY <1>3
  <2>5. IsSeq(Alloc3(e, g, r))
    BY AllocCodes DEF Front
  <2>6. ((p(f) \o p(g)) \o c) \o Ret(r) = Alloc1(e, f, g, r)
    BY <1>2, <2>3, <2>4, <2>5 DEF Alloc1, Alloc2
  <2> QED BY <1>1, <2>1, <2>6
<1> QED BY <1>3, <1>4 DEF c, p

\* the fields of a heap, set one by one
Rec(s, t, n, f) == [start |-> s, end |-> t, next |-> n, func |-> f]
First2(h, a, b) == [h EXCEPT !.start = a, !.end = b]
First3(h, a, b) == [h EXCEPT !.start = a, !.end = b, !.next = a]
Next1(h, a)     == [h EXCEPT !.next = a]

\* What they make of it.
LEMMA HeapRec ==
  ASSUME NEW s, NEW t, NEW n, NEW f, NEW a, NEW b
  PROVE  /\ Next1(Rec(s, t, n, f), a) = Rec(s, t, a, f)
         /\ First2(Rec(s, t, n, f), a, b) = Rec(a, b, n, f)
         /\ First3(Rec(s, t, n, f), a, b) = Rec(a, b, a, f)
<1>1. [Rec(s, t, n, f) EXCEPT !.start = a] = Rec(a, t, n, f)
  BY Z3 DEF Rec
<1>2. [Rec(s, t, n, f) EXCEPT !.next = a] = Rec(s, t, a, f)
  BY Z3 DEF Rec
<1>3. [Rec(a, t, n, f) EXCEPT !.end = b] = Rec(a, b, n, f)
  BY Z3 DEF Rec
<1>4. [Rec(a, b, n, f) EXCEPT !.next = a] = Rec(a, b, a, f)
  BY Z3 DEF Rec
<1>5. ASSUME NEW h PROVE [h EXCEPT !.start = a, !.end = b] = [[h EXCEPT !.start = a] EXCEPT !.end = b]
  OBVIOUS
<1>6. ASSUME NEW h
      PROVE  [h EXCEPT !.start = a, !.end = b, !.next = a]
                = [[h EXCEPT !.start = a, !.end = b] EXCEPT !.next = a]
  OBVIOUS
<1>7. [Rec(s, t, n, f) EXCEPT !.start = a, !.end = b] = Rec(a, b, n, f)
  BY <1>1, <1>3, <1>5
<1>8. [Rec(s, t, n, f) EXCEPT !.start = a, !.end = b, !.next = a] = Rec(a, b, a, f)
  BY <1>4, <1>6, <1>7
<1> QED BY <1>2, <1>7, <1>8 DEF First2, First3, Next1

\* The steps of the creation of a task without a region, with one, and refused.
LEMMA CreateJoin ==
  ASSUME NEW K, NEW f, NEW G \in GlobRec, NEW k \in Nat
  PROVE  /\ LET p == IF k = 0 THEN <<>>
                     ELSE <<LogOf(Glob), Set(Glob, [G EXCEPT !.next = @ + k])>>
                          \o InitHeap(K, Empty(f), G.next, k)
                b == <<LogOf(Cnt)>> \o (<<Set(Cnt, K + 1), Set(K, Empty(f))>> \o p \o <<Commits(Handle(K))>>)
            IN  b[Len(b)] = Commits(Handle(K)) /\ b \o Create11(K) = Create1(K, f, G, k)
         /\ LET b == <<LogOf(Cnt)>> \o <<Commits(None)>>
            IN  b[Len(b)] = Commits(None) /\ b \o Ret(None) = Refuse1
<1> DEFINE l == <<LogOf(Cnt)>>
           c == <<Commits(Handle(K))>>
           q == <<LogOf(Glob), Set(Glob, [G EXCEPT !.next = @ + k])>>
           i == InitHeap(K, Empty(f), G.next, k)
           p == IF k = 0 THEN <<>> ELSE q \o i
           w == <<Set(Cnt, K + 1), Set(K, Empty(f))>>
           n == <<Commits(None)>>
<1>1. IsSeq(l) /\ IsSeq(c) /\ IsSeq(n) /\ \A r : IsSeq(Ret(r))
  BY Tuple1 DEF Ret
<1>2. IsSeq(q) /\ IsSeq(w)
  BY Tuple2
<1>3. IsSeq(i)
  BY Tuple3 DEF InitHeap
<1>4. IsSeq(<<>>) /\ IsSeq(q \o i)
  BY <1>2, <1>3, Tuple0, Cat
<1>5. IsSeq(Create11(K)) /\ IsSeq(Create10(K))
  BY CreateCodes DEF Front
<1>6. /\ [Empty(f) EXCEPT !.start = G.next, !.end = G.next + k] = [Region(f, G, k) EXCEPT !.next = 0]
      /\ [Empty(f) EXCEPT !.start = G.next, !.end = G.next + k, !.next = G.next] = Region(f, G, k)
      /\ [G EXCEPT !.next = @ + k] = Taken(G, k)
  <2>0. Empty(f) = Rec(0, 0, 0, f) /\ Region(f, G, k) = Rec(G.next, G.next + k, G.next, f)
    BY DEF Empty, Region, Rec
  <2>1. /\ First2(Empty(f), G.next, G.next + k) = Next1(Region(f, G, k), 0)
        /\ First3(Empty(f), G.next, G.next + k) = Region(f, G, k)
    BY <2>0, HeapRec
  <2>2. /\ [Empty(f) EXCEPT !.start = G.next, !.end = G.next + k] = [Region(f, G, k) EXCEPT !.next = 0]
        /\ [Empty(f) EXCEPT !.start = G.next, !.end = G.next + k, !.next = G.next] = Region(f, G, k)
    BY <2>1, Zenon DEF First2, First3, Next1
  <2>3. [G EXCEPT !.next = @ + k] = Taken(G, k)
    BY DEF Taken
  <2> QED BY <2>2, <2>3
<1>7. i \o Create10(K) = Create7(K, f, G, k)
  <2>1. i = <<Set(K, [Empty(f) EXCEPT !.start = G.next]), Set(K, [Region(f, G, k) EXCEPT !.next = 0]),
              Set(K, Region(f, G, k))>>
    BY <1>6 DEF InitHeap
  <2> QED BY <1>5, <2>1, Joins DEF Create7, Create8, Create9
<1>8. q \o Create7(K, f, G, k) = Create5(K, f, G, k)
  <2>1. IsSeq(Create7(K, f, G, k))
    BY CreateCodes DEF Front
  <2>2. q = <<LogOf(Glob), Set(Glob, Taken(G, k))>>
    BY <1>6
  <2> HIDE DEF q
  <2> QED BY <2>1, <2>2, Joins DEF Create5, Create6
<1>9. ASSUME NEW s, IsSeq(s) PROVE w \o s = <<Set(Cnt, K + 1)>> \o (<<Set(K, Empty(f))>> \o s)
  BY <1>9, Joins
<1>10. c \o Create11(K) = Create10(K)
  BY DEF Create10
<1> HIDE DEF l, c, q, i, w, n
<1>11. p \o Create10(K) = Create4(K, f, G, k) /\ IsSeq(p)
  <2>1. CASE k = 0
    BY <1>4, <1>5, <2>1, Cat DEF Create4
  <2>2. CASE k # 0
    <3>1. Assoc(q, i, Create10(K))
      BY <1>2, <1>3, <1>5, Associates
    <3> QED BY <1>4, <1>7, <1>8, <2>2, <3>1 DEF Assoc, Create4
  <2> QED BY <2>1, <2>2
<1> HIDE DEF p
<1> DEFINE d == w \o p
           b == l \o (d \o c)
<1>12. IsSeq(d) /\ IsSeq(d \o c) /\ IsSeq(l \o d)
  BY <1>1, <1>2, <1>11, Cat
<1>13. b[Len(b)] = Commits(Handle(K))
  <2>1. Assoc(l, d, c)
    BY <1>1, <1>12, Associates
  <2>2. b = (l \o d) \o c
    BY <2>1 DEF Assoc
  <2> HIDE DEF d, b
  <2> QED BY <1>12, <2>2, LastOf DEF c
<1>14. b \o Create11(K) = Create1(K, f, G, k)
  <2>1. /\ Assoc(l, d \o c, Create11(K)) /\ Assoc(d, c, Create11(K)) /\ Assoc(w, p, Create10(K))
    BY <1>1, <1>2, <1>5, <1>11, <1>12, Associates
  <2>2. b \o Create11(K) = l \o (d \o Create10(K))
    BY <1>10, <2>1 DEF Assoc
  <2>3. d \o Create10(K) = w \o Create4(K, f, G, k)
    BY <1>11, <2>1 DEF Assoc
  <2>4. IsSeq(Create4(K, f, G, k))
    BY CreateCodes DEF Front, Create4
  <2>5. d \o Create10(K) = Create2(K, f, G, k)
    BY <1>9, <2>3, <2>4 DEF Create2, Create3
  <2> QED BY <2>2, <2>5 DEF l, Create1
<1>15. (l \o n)[Len(l \o n)] = Commits(None) /\ (l \o n) \o Ret(None) = Refuse1
  <2>1. Assoc(l, n, Ret(None))
    BY <1>1, Associates
  <2>2. (l \o n) \o Ret(None) = Refuse1
    BY <2>1 DEF Assoc, l, n, Refuse1, Refuse2
  <2>3. (l \o n)[Len(l \o n)] = Commits(None)
    BY <1>1, LastOf DEF n
  <2> QED BY <2>2, <2>3
<1> QED BY <1>13, <1>14, <1>15 DEF l, c, n, d, b, p, q, i, w

\* The fields of a call.
LEMMA CallFields ==
  ASSUME NEW c \in Calls
  PROVE  /\ c.op \in {"palloc", "palloc_array", "pfree", "queue_new", "create"}
         /\ c.op = "palloc" => c.size \in Nat /\ c.align \in Nat \ {0}
         /\ c.op = "palloc_array" => c.size \in Nat
         /\ c.op = "queue_new" => c.size \in Nat /\ c.align \in Nat \ {0} /\ c.buffer \in Nat
         /\ c.op = "create" => c.heap \in Nat /\ c.func \in DOMAIN Programs
BY DEF Calls

\* what is left of a call that begins
Steps(e, c) == Body(e, c) \o Epilogue(c, Body(e, c)[Len(Body(e, c))].res)

\* A call that begins to allocate, or to free.
LEMMA AllocBegins ==
  ASSUME NEW e, NEW c \in Calls, c.op # "create", mem[e] \in HeapType, mem[e].next <= mem[e].end
  PROVE  \E f, g, r :
            /\ Grown(mem[e], g, r) /\ f \in HeapType /\ Same(f, mem[e])
            /\ \/ Steps(e, c) = Alloc1(e, f, g, r)
               \/ Steps(e, c) = Alloc3(e, g, r)
               \/ Steps(e, c) = Alloc5(r) /\ g = mem[e]
<1> DEFINE h == mem[e]
           P(f, g, r) == /\ Grown(h, g, r) /\ f \in HeapType /\ Same(f, h)
                         /\ \/ Steps(e, c) = Alloc1(e, f, g, r)
                            \/ Steps(e, c) = Alloc3(e, g, r)
                            \/ Steps(e, c) = Alloc5(r) /\ g = h
<1>0. h \in HeapType /\ h.next <= h.end /\ Same(h, h)
  BY DEF Same
<1>1. \A r : Epilogue(c, r) = Ret(r) /\ Commits(r).res = r
  BY EpilogueIs, Kinds
<1>2. ASSUME NEW size \in Nat, NEW align \in Nat \ {0},
             Body(e, c) = Alloc(e, h, size, align) \o <<Commits(BlockOf(h, size, align))>>
      PROVE  P(h, Bump(h, size, align), BlockOf(h, size, align))
  <2> DEFINE g == Bump(h, size, align)
             r == BlockOf(h, size, align)
  <2>1. Grown(h, g, r)
    BY <1>0, BumpIs
  <2>2. Body(e, c) = <<LogOf(e), Set(e, g)>> \o <<Commits(r)>>
    BY <1>2 DEF Alloc
  <2> HIDE DEF g, r, h
  <2>3. Body(e, c)[Len(Body(e, c))] = Commits(r) /\ Body(e, c) \o Ret(r) = Alloc3(e, g, r)
    BY <2>2, AllocJoin
  <2>4. Steps(e, c) = Alloc3(e, g, r)
    BY <1>1, <2>3 DEF Steps
  <2> QED BY <1>0, <2>1, <2>4 DEF g, r
<1>3. CASE c.op = "palloc"
  <2>1. Body(e, c) = Alloc(e, h, c.size, c.align) \o <<Commits(BlockOf(h, c.size, c.align))>>
    BY <1>3 DEF Body
  <2> HIDE DEF P
  <2>2. P(h, Bump(h, c.size, c.align), BlockOf(h, c.size, c.align))
    BY <1>2, <1>3, <2>1, CallFields
  <2> QED BY <2>2 DEF P
<1>4. CASE c.op = "palloc_array"
  <2>1. Body(e, c) = Alloc(e, h, c.size, 1) \o <<Commits(BlockOf(h, c.size, 1))>>
    BY <1>4 DEF Body
  <2> HIDE DEF P
  <2>2. P(h, Bump(h, c.size, 1), BlockOf(h, c.size, 1))
    BY <1>2, <1>4, <2>1, CallFields
  <2> QED BY <2>2 DEF P
<1>5. CASE c.op = "pfree"
  <2>1. Body(e, c) = <<Commits(None)>>
    BY <1>5 DEF Body
  <2>2. <<Commits(None)>>[Len(<<Commits(None)>>)] = Commits(None)
    OBVIOUS
  <2>3. Steps(e, c) = Alloc5(None)
    BY <1>1, <2>1, <2>2 DEF Steps, Alloc5
  <2>4. Grown(h, h, None)
    BY <1>0, GrownIs
  <2> QED BY <1>0, <2>3, <2>4
<1>6. CASE c.op = "queue_new"
  <2> DEFINE f == Bump(h, c.size, c.align)
             q == BlockOf(h, c.size, c.align)
             g == Bump(f, c.buffer, 1)
             s == BlockOf(f, c.buffer, 1)
             fits == Fits(h, c.size, c.align)
             r == IF fits /\ Fits(f, c.buffer, 1) THEN q \cup s ELSE None
             p(v) == <<LogOf(e), Set(e, v)>>
  <2>1. c.size \in Nat /\ c.align \in Nat \ {0} /\ c.buffer \in Nat
    BY <1>6, CallFields
  <2>2. Grown(h, f, q)
    BY <1>0, <2>1, BumpIs
  <2>3. f \in HeapType /\ f.next <= f.end /\ Same(f, h)
    BY <2>2 DEF Grown
  <2>4. Grown(f, g, s)
    <3> HIDE DEF f
    <3> QED BY <2>1, <2>3, BumpIs
  <2>5. Body(e, c) = (p(f) \o (IF fits THEN p(g) ELSE <<>>)) \o <<Commits(r)>>
    BY <1>6 DEF Body, QueueNew, Alloc
  <2> HIDE DEF f, q, g, s, fits, h, p
  <2>6. CASE fits
    <3>1. Grown(h, g, r)
      BY <1>0, <2>2, <2>4, GrownIs
    <3> HIDE DEF r
    <3>2. Body(e, c) = (p(f) \o p(g)) \o <<Commits(r)>>
      BY <2>5, <2>6
    <3>3. Body(e, c)[Len(Body(e, c))] = Commits(r) /\ Body(e, c) \o Ret(r) = Alloc1(e, f, g, r)
      BY <3>2, AllocJoin DEF p
    <3>4. Steps(e, c) = Alloc1(e, f, g, r)
      BY <1>1, <3>3 DEF Steps
    <3> QED BY <2>3, <3>1, <3>4 DEF h
  <2>7. CASE ~ fits
    <3>1. Grown(h, f, r) /\ r = None
      BY <1>0, <2>2, <2>7, GrownIs
    <3> HIDE DEF r
    <3>2. Body(e, c) = p(f) \o <<Commits(r)>>
      <4>1. IsSeq(p(f)) /\ p(f) \o <<>> = p(f)
        BY Tuple2, Tuple0, Cat DEF p
      <4> QED BY <2>5, <2>7, <4>1
    <3>3. Body(e, c)[Len(Body(e, c))] = Commits(r) /\ Body(e, c) \o Ret(r) = Alloc3(e, f, r)
      BY <3>2, AllocJoin DEF p
    <3>4. Steps(e, c) = Alloc3(e, f, r)
      BY <1>1, <3>3 DEF Steps
    <3> QED BY <2>3, <3>1, <3>4 DEF h
  <2> QED BY <2>6, <2>7
<1> QED BY <1>3, <1>4, <1>5, <1>6, CallFields

\* A call that begins to create a task.
LEMMA CreateBegins ==
  ASSUME NEW e, NEW c \in Calls, c.op = "create", NEW K \in 0 .. TaskLimit, NEW G \in GlobRec,
         Quiet(K, G), G.next <= G.end
  PROVE  \/ Steps(e, c) = Refuse1
         \/ K \in Tid /\ \E k \in Nat : G.next + k <= G.end /\ Steps(e, c) = Create1(K, c.func, G, k)
<1>0. c.heap \in Nat /\ G.next \in Nat /\ G.end \in Nat /\ \A r : Commits(r).res = r
  BY CallFields, Kinds DEF GlobRec
<1>1. Body(e, c) = CreateTask(c) /\ mem[Cnt] = K /\ mem[Glob] = G
  BY DEF Body, Quiet
<1>2. CASE K >= TaskLimit \/ ~ c.valid
  <2>1. Body(e, c) = <<LogOf(Cnt)>> \o <<Commits(None)>>
    BY <1>1, <1>2 DEF CreateTask
  <2>2. Body(e, c)[Len(Body(e, c))] = Commits(None) /\ Body(e, c) \o Ret(None) = Refuse1
    BY <1>0, <2>1, CreateJoin
  <2>3. Epilogue(c, None) = Ret(None)
    BY EpilogueIs
  <2>4. Steps(e, c) = Refuse1
    BY <1>0, <2>2, <2>3 DEF Steps
  <2> QED BY <2>4
<1>3. CASE ~ (K >= TaskLimit \/ ~ c.valid)
  <2> DEFINE f == c.func
             k == IF c.heap = 0 \/ G.next + c.heap > G.end THEN 0 ELSE c.heap
             p == IF k = 0 THEN <<>>
                  ELSE <<LogOf(Glob), Set(Glob, [G EXCEPT !.next = @ + k])>>
                       \o InitHeap(K, Empty(f), G.next, k)
  <2>1. k \in Nat /\ G.next + k <= G.end
    BY <1>0
  <2>2. K \in Tid
    BY <1>3, HeapAssumption DEF Tid
  <2>3. CreatePmHeap(K, c) = p
    <3>1. CASE c.heap = 0 \/ G.next + c.heap > G.end
      BY <1>1, <3>1 DEF CreatePmHeap
    <3>2. CASE ~ (c.heap = 0 \/ G.next + c.heap > G.end)
      BY <1>1, <3>2 DEF CreatePmHeap
    <3> QED BY <3>1, <3>2
  <2>4. Body(e, c) = <<LogOf(Cnt)>> \o (<<Set(Cnt, K + 1), Set(K, Empty(f))>> \o p \o <<Commits(Handle(K))>>)
    <3> HIDE DEF p
    <3> QED BY <1>1, <1>3, <2>3 DEF CreateTask
  <2> HIDE DEF k, f
  <2>5. Body(e, c)[Len(Body(e, c))] = Commits(Handle(K)) /\ Body(e, c) \o Create11(K) = Create1(K, f, G, k)
    <3> DEFINE b == <<LogOf(Cnt)>> \o (<<Set(Cnt, K + 1), Set(K, Empty(f))>> \o p \o <<Commits(Handle(K))>>)
    <3>1. b[Len(b)] = Commits(Handle(K)) /\ b \o Create11(K) = Create1(K, f, G, k)
      BY <2>1, CreateJoin
    <3> HIDE DEF p, b
    <3>2. Body(e, c) = b
      BY <2>4 DEF b
    <3> QED BY <3>1, <3>2
  <2>6. Epilogue(c, Handle(K)) = Create11(K)
    BY EpilogueIs
  <2>7. Steps(e, c) = Create1(K, f, G, k)
    BY <1>0, <2>5, <2>6 DEF Steps
  <2> QED BY <2>1, <2>2, <2>7 DEF f
<1> QED BY <1>2, <1>3

\* Begin.
LEMMA BeginStep ==
  ASSUME Types, Turns, OneHandle, NEW K, NEW G, NEW B, Ready(K, G, B), NEW e \in Exec, Begin(e)
  PROVE  IInv'
<1> DEFINE c == Call(e)
<1>0. /\ Runs(e) /\ alive[e] /\ todo[e] = <<>> /\ ~ AtEnd(e) /\ Len(given[e]) = Len(Results(e))
      /\ open' = [open EXCEPT ![e] = TRUE]
      /\ todo' = [todo EXCEPT ![e] = Steps(e, c)]
      /\ UNCHANGED <<mem, bootDone, ready, log, cache, replay, alive, given, seen>>
  BY DEF Begin, BetweenCalls, Steps
<1>1. /\ e \in Live(K) /\ Good(e, K, G, B) /\ Core(K, G, B) /\ K \in 0 .. TaskLimit /\ G \in GlobRec
      /\ B \in [Exec -> HeapType]
  BY <1>0, RunsLive DEF Ready, Core
<1>2. Clean(e, B) /\ ~ InCritical(e)
  BY <1>0, <1>1, AtRest DEF Good, InCritical
<1>3. Quiet(K, G) /\ mem[e] = B[e] /\ log[e] = <<>>
  BY <1>0, <1>1, <1>2, QuietFor DEF Clean
<1>4. mem[e] \in HeapType /\ mem[e].next <= mem[e].end /\ G.next <= G.end
  <2>1. HeapOK(B[e])
    BY <1>1 DEF Core, Apart, Live
  <2> QED BY <1>1, <1>3, <2>1 DEF HeapOK, Core, Apart
<1>5. c \in Calls
  <2>1. /\ Prog(e) \in Seq(Calls) /\ Len(Prog(e)) \in Nat /\ Len(given[e]) \in Nat
        /\ Len(given[e]) <= Len(Prog(e)) /\ Len(given[e]) # Len(Prog(e))
    BY <1>0, <1>1, ProgIs, ResultsIs DEF Good, Answers, AtEnd
  <2>2. Len(given[e]) + 1 \in 1 .. Len(Prog(e))
    BY <2>1
  <2> QED BY <2>1, <2>2, ElementOfSeq DEF Call
<1>6. /\ todo'[e] = Steps(e, c) /\ open'[e] /\ DOMAIN todo' = Exec /\ open' \in [Exec -> BOOLEAN]
      /\ \A x \in Exec \ {e} : todo'[x] = todo[x] /\ open'[x] = open[x]
  BY <1>0 DEF Types
<1>7. Types' /\ Stays(e, K) /\ Same(mem'[e], mem[e])
  <2>1. Types'
    BY <1>0, <1>6 DEF Types
  <2>2. Stays(e, K) /\ Same(mem'[e], mem[e])
    BY <1>0, <1>6 DEF Stays, Same
  <2> QED BY <2>1, <2>2
<1>8. /\ Results(e)' = Results(e) /\ Prog(e)' = Prog(e) /\ (AtEnd(e)' <=> AtEnd(e)) /\ Call(e)' = c
  BY <1>0 DEF Results, Prog, AtEnd, Call
<1>9. Answers(e)'
  BY <1>0, <1>1, <1>8 DEF Good, Answers
<1>10. Working(e)' /\ Clean(e, B)' /\ Quiet(K, G)' /\ mem'[e] = B[e] /\ log'[e] = <<>>
  BY <1>0, <1>2, <1>3, <1>6, <1>8 DEF Working, Clean, Quiet
<1>11. Place(e, K, G, B)'
  <2> HIDE DEF c
  <2>1. CASE c.op # "create"
    <3>1. PICK f, g, r : /\ Grown(mem[e], g, r) /\ f \in HeapType /\ Same(f, mem[e])
                         /\ \/ Steps(e, c) = Alloc1(e, f, g, r)
                            \/ Steps(e, c) = Alloc3(e, g, r)
                            \/ Steps(e, c) = Alloc5(r) /\ g = mem[e]
      BY <1>4, <1>5, <2>1, AllocBegins
    <3>2. Allocating(e, B, f, g, r)'
      BY <1>3, <1>6, <1>8, <1>10, <2>1, <3>1 DEF Allocating, AllocatingAs
    <3> QED BY <3>2 DEF Place
  <2>2. CASE c.op = "create"
    <3>1. \/ Steps(e, c) = Refuse1
          \/ K \in Tid /\ \E k \in Nat : G.next + k <= G.end /\ Steps(e, c) = Create1(K, c.func, G, k)
      BY <1>1, <1>3, <1>4, <1>5, <2>2, CreateBegins
    <3>2. CASE Steps(e, c) = Refuse1
      <4>1. Creating(e, K, G, B, 0, 0)'
        BY <1>6, <1>8, <1>10, <2>2, <3>2 DEF Creating, Refusing
      <4> QED BY <4>1 DEF Place
    <3>3. ASSUME K \in Tid, NEW k \in Nat, G.next + k <= G.end, NEW f \in DOMAIN Programs,
                 Steps(e, c) = Create1(K, f, G, k)
          PROVE  Place(e, K, G, B)'
      <4>1. Counting(e, K, G, f, k)'
        BY <1>6, <1>10, <3>3 DEF Counting, Quiet
      <4>2. Creating(e, K, G, B, f, k)'
        BY <1>8, <1>10, <2>2, <3>3, <4>1 DEF Creating
      <4> QED BY <4>2 DEF Place
    <3>4. c.func \in DOMAIN Programs
      BY <1>5, <2>2, CallFields
    <3> QED BY <3>1, <3>2, <3>3, <3>4
  <2> QED BY <2>1, <2>2
<1>12. Counted(K, G, B)' /\ ready' \subseteq 0 .. K - 1
  BY <1>0, <1>1, <1>10 DEF Counted, Core
<1> QED BY <1>0, <1>1, <1>7, <1>8, <1>9, <1>11, <1>12, Inner

(***************************************************************************)
(* The steps of a call.                                                    *)
(***************************************************************************)
\* The first of the steps that are left is taken.
LEMMA Pops ==
  ASSUME Types, NEW e \in Exec, NEW s, Advance(e, s), NEW x, NEW d, Front(todo[e], x, d)
  PROVE  /\ Runs(e) /\ x.step = s /\ Head(todo[e]) = x /\ todo'[e] = d /\ DOMAIN todo' = Exec
         /\ \A y \in Exec \ {e} : todo'[y] = todo[y]
         /\ bootDone' = bootDone /\ alive' = alive
BY DEF Advance, Front, Types

\* What is left of a call says which step comes next.
LEMMA KindOf ==
  ASSUME NEW K, NEW G, NEW B, NEW e, Place(e, K, G, B), NEW s, Advance(e, s)
  PROVE  \/ s = "log" /\ \E f, g, r :
               Allocating(e, B, f, g, r) /\ (todo[e] = Alloc1(e, f, g, r) \/ todo[e] = Alloc3(e, g, r))
         \/ s = "set" /\ \E f, g, r :
               Allocating(e, B, f, g, r) /\ (todo[e] = Alloc2(e, f, g, r) \/ todo[e] = Alloc4(e, g, r))
         \/ s = "commit" /\ \E f, g, r :
               Allocating(e, B, f, g, r) /\ todo[e] = Alloc5(r) /\ mem[e] = g
         \/ \E f, k : Creating(e, K, G, B, f, k)
         \/ s \in {"insert", "return"} /\ Returning(e, B)
<1>0. todo[e] # <<>> /\ Head(todo[e]).step = s
  BY DEF Advance
<1>1. ~ Off(e, B) /\ ~ Idle(e, B)
  BY <1>0 DEF Off, Idle
<1>2. \A c, x, d : todo[e] = c /\ Front(c, x, d) => x.step = s
  BY <1>0 DEF Front
<1>3. CASE Returning(e, B)
  <2>1. PICK r : todo[e] = Ret(r) \/ \E t \in Tid : todo[e] = Create11(t)
    BY <1>3 DEF Returning
  <2>2. Front(Ret(r), Returns(r), <<>>) /\ \A t : Front(Create11(t), Inserts(t), Ret(Handle(t)))
    BY AllocCodes, CreateCodes
  <2>3. s = "return" \/ s = "insert"
    BY <1>2, <2>1, <2>2, Kinds
  <2> QED BY <1>3, <2>3
<1>4. ASSUME NEW f, NEW g, NEW r, Allocating(e, B, f, g, r)
      PROVE  \/ s = "log" /\ (todo[e] = Alloc1(e, f, g, r) \/ todo[e] = Alloc3(e, g, r))
             \/ s = "set" /\ (todo[e] = Alloc2(e, f, g, r) \/ todo[e] = Alloc4(e, g, r))
             \/ s = "commit" /\ todo[e] = Alloc5(r) /\ mem[e] = g
  <2>1. /\ Front(Alloc1(e, f, g, r), LogOf(e), Alloc2(e, f, g, r))
        /\ Front(Alloc2(e, f, g, r), Set(e, f), Alloc3(e, g, r))
        /\ Front(Alloc3(e, g, r), LogOf(e), Alloc4(e, g, r))
        /\ Front(Alloc4(e, g, r), Set(e, g), Alloc5(r))
        /\ Front(Alloc5(r), Commits(r), Ret(r))
    BY AllocCodes
  <2>2. \/ todo[e] = Alloc1(e, f, g, r) \/ todo[e] = Alloc2(e, f, g, r) \/ todo[e] = Alloc3(e, g, r)
        \/ todo[e] = Alloc4(e, g, r) \/ (todo[e] = Alloc5(r) /\ mem[e] = g)
    BY <1>4 DEF Allocating, AllocatingAs
  <2>3. LogOf(e).step = "log" /\ Set(e, f).step = "set" /\ Set(e, g).step = "set" /\ Commits(r).step = "commit"
    BY Kinds
  <2> QED BY <1>2, <2>1, <2>2, <2>3
<1> QED BY <1>1, <1>3, <1>4 DEF Place

\* a step of e inside of a call, as far as it concerns everybody else
Inside(e, K) ==
    /\ Runs(e) /\ bootDone' = bootDone /\ alive' = alive /\ ready' \subseteq 0 .. K - 1
    /\ DOMAIN todo' = Exec /\ \A x \in Exec \ {e} : todo'[x] = todo[x]
    /\ DOMAIN log' = Exec /\ \A x \in Exec \ {e} : log'[x] = log[x]
    /\ DOMAIN mem' = Obj /\ (\A x \in Exec : mem'[x] \in HeapType)
    /\ mem'[Cnt] \in Nat /\ mem'[Glob] \in GlobRec /\ mem'[Flag] = mem[Flag]
    /\ Same(mem'[e], mem[e]) /\ \A x \in Live(K) \ {e} : mem'[x] = mem[x]
    /\ open' = open /\ cache' = cache /\ replay' = replay /\ given' = given /\ seen' = seen

\* Such a step keeps the invariant if it leaves e at a place.
LEMMA Insides ==
  ASSUME Types, Turns, OneHandle, NEW K, NEW G, NEW B, Ready(K, G, B), NEW e \in Live(K), Inside(e, K)
  PROVE  /\ Results(e)' = Results(e) /\ Prog(e)' = Prog(e) /\ Call(e)' = Call(e)
         /\ (AtEnd(e)' <=> AtEnd(e)) /\ (Working(e)' <=> Working(e))
         /\ Place(e, K, G, B)' /\ Counted(K, G, B)' => IInv'
<1>0. Core(K, G, B) /\ e \in Exec /\ Good(e, K, G, B) /\ Runs(e) /\ bootDone' = bootDone
  BY Objects DEF Ready, Core, Inside
<1>1. Types'
  BY DEF Inside, Types
<1>2. Stays(e, K)
  BY DEF Inside, Stays
<1>3. Results(e)' = Results(e) /\ Prog(e)' = Prog(e)
  BY DEF Inside, Results, Prog, Same
<1>4. Call(e)' = Call(e) /\ (AtEnd(e)' <=> AtEnd(e))
  BY <1>3 DEF Inside, Call, AtEnd
<1>5. Working(e)' <=> Working(e)
  BY <1>3, <1>4 DEF Inside, Working
<1>6. Answers(e)'
  BY <1>0, <1>3 DEF Inside, Good, Answers
<1>7. mem'[Flag] = mem[Flag] /\ ready' \subseteq 0 .. K - 1 /\ Same(mem'[e], mem[e])
  BY DEF Inside
<1>8. Place(e, K, G, B)' /\ Counted(K, G, B)' => IInv'
  BY <1>0, <1>1, <1>2, <1>3, <1>6, <1>7, Inner
<1> QED BY <1>3, <1>4, <1>5, <1>8

\* What the journal has of an object stays in front of it.
LEMMA LogMore ==
  ASSUME NEW e \in Exec, NEW B, B[e] \in HeapType, mem[e] \in HeapType, Clean(e, B) \/ Logged(e, B), NEW l,
         l = Append(log[e], [obj |-> e, old |-> mem[e]])
  PROVE  l # <<>> /\ l \in Seq([obj : {e}, old : HeapType]) /\ l[1].old = B[e]
<1> DEFINE S == [obj : {e}, old : HeapType]
           x == [obj |-> e, old |-> mem[e]]
<1>1. x \in S /\ x.old = mem[e]
  OBVIOUS
<1>2. CASE Clean(e, B)
  <2>1. log[e] \in Seq(S) /\ Len(log[e]) = 0 /\ mem[e] = B[e]
    BY <1>2, EmptySeq DEF Clean
  <2> HIDE DEF S, x
  <2>2. l \in Seq(S) /\ Len(l) = 1 /\ l[1] = x
    BY <1>1, <2>1, AppendProperties DEF x
  <2> QED BY <1>1, <2>1, <2>2, EmptySeq DEF S
<1>3. CASE Logged(e, B)
  <2>1. log[e] \in Seq(S) /\ log[e] # <<>> /\ log[e][1].old = B[e]
    BY <1>3 DEF Logged
  <2> HIDE DEF S, x
  <2>2. Len(log[e]) \in Nat /\ Len(log[e]) # 0
    BY <2>1, LenProperties, EmptySeq
  <2>3. /\ l \in Seq(S) /\ Len(l) = Len(log[e]) + 1
        /\ \A i \in 1 .. Len(log[e]) : l[i] = log[e][i]
    BY <1>1, <2>1, AppendProperties DEF x
  <2>4. l[1] = log[e][1] /\ Len(l) # 0
    BY <2>2, <2>3
  <2> QED BY <2>1, <2>3, <2>4, EmptySeq DEF S
<1> QED BY <1>2, <1>3

\* AppendLog of an allocation.
LEMMA AllocLog ==
  ASSUME Types, Turns, OneHandle, NEW K, NEW G, NEW B, Ready(K, G, B), NEW e \in Live(K), AppendLog(e),
         NEW f, NEW g, NEW r, Allocating(e, B, f, g, r), todo[e] = Alloc1(e, f, g, r) \/ todo[e] = Alloc3(e, g, r)
  PROVE  IInv'
<1>0. /\ Core(K, G, B) /\ e \in Exec /\ Good(e, K, G, B) /\ Advance(e, "log") /\ B[e] \in HeapType
      /\ ready \subseteq 0 .. K - 1
  BY Objects DEF Ready, Core, AppendLog
<1>1. PICK d : Front(todo[e], LogOf(e), d)
               /\ \/ todo[e] = Alloc1(e, f, g, r) /\ d = Alloc2(e, f, g, r)
                  \/ todo[e] = Alloc3(e, g, r) /\ d = Alloc4(e, g, r)
  BY AllocCodes
<1>2. /\ Runs(e) /\ Head(todo[e]) = LogOf(e) /\ todo'[e] = d /\ DOMAIN todo' = Exec
      /\ \A y \in Exec \ {e} : todo'[y] = todo[y]
      /\ bootDone' = bootDone /\ alive' = alive
  BY <1>0, <1>1, Pops
<1>3. Head(todo[e]).obj = e
  BY <1>2, Kinds
<1>4. /\ log'[e] = Append(log[e], [obj |-> e, old |-> mem[e]]) /\ DOMAIN log' = Exec
      /\ (\A x \in Exec \ {e} : log'[x] = log[x])
      /\ UNCHANGED <<mem, ready, open, cache, replay, given, seen>>
  BY <1>0, <1>3 DEF AppendLog, Types
<1>5. Inside(e, K)
  BY <1>0, <1>2, <1>4, Objects DEF Inside, Types, Same
<1>6. /\ Call(e)' = Call(e) /\ (Working(e)' <=> Working(e))
      /\ Place(e, K, G, B)' /\ Counted(K, G, B)' => IInv'
  BY <1>5, Insides
<1>7. Clean(e, B) \/ Logged(e, B)
  BY DEF Allocating, AllocatingAs
<1>8. Logged(e, B)'
  <2>1. log'[e] # <<>> /\ log'[e] \in Seq([obj : {e}, old : HeapType]) /\ log'[e][1].old = B[e]
    BY <1>0, <1>4, <1>7, LogMore DEF Types
  <2> QED BY <1>4, <2>1 DEF Allocating, Working, Logged
<1>9. AllocatingAs(e, B, f, g, r)'
  BY <1>1, <1>2, <1>8 DEF AllocatingAs
<1>10. Place(e, K, G, B)'
  BY <1>6, <1>9 DEF Allocating, Place
<1>11. Counted(K, G, B)'
  <2>1. ~ InCritical(e)
    BY DEF Allocating, InCritical
  <2> QED BY <1>0, <1>2, <1>4, <2>1, QuietFor DEF Counted, Quiet
<1> QED BY <1>6, <1>10, <1>11

\* Store of an allocation.
LEMMA AllocStore ==
  ASSUME Types, Turns, OneHandle, NEW K, NEW G, NEW B, Ready(K, G, B), NEW e \in Live(K), Store(e),
         NEW f, NEW g, NEW r, Allocating(e, B, f, g, r), todo[e] = Alloc2(e, f, g, r) \/ todo[e] = Alloc4(e, g, r)
  PROVE  IInv'
<1>0. /\ Core(K, G, B) /\ e \in Exec /\ Good(e, K, G, B) /\ Advance(e, "set") /\ B[e] \in HeapType
      /\ ready \subseteq 0 .. K - 1
  BY Objects DEF Ready, Core, Store
<1>1. PICK d, v : /\ Front(todo[e], Set(e, v), d)
                  /\ \/ todo[e] = Alloc2(e, f, g, r) /\ d = Alloc3(e, g, r) /\ v = f
                     \/ todo[e] = Alloc4(e, g, r) /\ d = Alloc5(r) /\ v = g
  BY AllocCodes
<1>2. /\ Runs(e) /\ Head(todo[e]) = Set(e, v) /\ todo'[e] = d /\ DOMAIN todo' = Exec
      /\ \A y \in Exec \ {e} : todo'[y] = todo[y]
      /\ bootDone' = bootDone /\ alive' = alive
  BY <1>0, <1>1, Pops
<1>3. Head(todo[e]).obj = e /\ Head(todo[e]).val = v
  BY <1>2, Kinds
<1>4. v \in HeapType /\ Same(v, B[e])
  BY <1>1 DEF Allocating, Grown
<1>5. /\ mem'[e] = v /\ DOMAIN mem' = Obj /\ (\A x \in Obj \ {e} : mem'[x] = mem[x])
      /\ UNCHANGED <<log, ready, open, cache, replay, given, seen>>
  BY <1>0, <1>3, Objects DEF Store, Types
<1>6. Inside(e, K)
  <2>1. Same(mem'[e], mem[e])
    BY <1>0, <1>4, <1>5 DEF Good, Same
  <2>2. /\ mem'[Cnt] = mem[Cnt] /\ mem'[Glob] = mem[Glob] /\ mem'[Flag] = mem[Flag]
        /\ \A x \in Exec \ {e} : mem'[x] = mem[x]
    BY <1>0, <1>5, Objects
  <2>3. (\A x \in Exec : mem'[x] \in HeapType) /\ Live(K) \subseteq Exec
    BY <1>0, <1>4, <1>5, <2>2, Objects DEF Types, Core
  <2> QED BY <1>0, <1>2, <1>5, <2>1, <2>2, <2>3 DEF Inside, Types
<1>7. /\ Call(e)' = Call(e) /\ (Working(e)' <=> Working(e))
      /\ Place(e, K, G, B)' /\ Counted(K, G, B)' => IInv'
  BY <1>6, Insides
<1>8. Logged(e, B)'
  <2>1. Logged(e, B)
    <3>1. \A c, x, y, p, q : Front(c, x, p) /\ Front(c, y, q) => x = y
      BY DEF Front
    <3>2. \A a, b : LogOf(a) # Set(e, b) /\ Commits(a) # Set(e, b)
      BY Kinds
    <3>3. todo[e] # Alloc1(e, f, g, r) /\ todo[e] # Alloc3(e, g, r) /\ todo[e] # Alloc5(r)
      BY <1>1, <3>1, <3>2, AllocCodes
    <3> QED BY <3>3 DEF Allocating, AllocatingAs
  <2> QED BY <1>5, <2>1 DEF Logged
<1>9. AllocatingAs(e, B, f, g, r)'
  BY <1>1, <1>2, <1>5, <1>8 DEF AllocatingAs
<1>10. Place(e, K, G, B)'
  BY <1>7, <1>9 DEF Allocating, Place
<1>11. Counted(K, G, B)'
  <2>1. ~ InCritical(e)
    BY DEF Allocating, InCritical
  <2>2. mem'[Cnt] = mem[Cnt] /\ mem'[Glob] = mem[Glob]
    BY <1>0, <1>5, Objects
  <2> QED BY <1>0, <1>2, <2>1, <2>2, QuietFor DEF Counted, Quiet
<1> QED BY <1>7, <1>10, <1>11

\* Which step of a creation comes next.
LEMMA CreateSteps ==
  ASSUME NEW e, NEW s, Advance(e, s), NEW t, NEW f, NEW G, NEW k
  PROVE  /\ todo[e] = Refuse1 \/ todo[e] = Create1(t, f, G, k) \/ todo[e] = Create5(t, f, G, k) => s = "log"
         /\ todo[e] = Create2(t, f, G, k) \/ todo[e] = Create3(t, f, G, k) \/ todo[e] = Create6(t, f, G, k)
            \/ todo[e] = Create7(t, f, G, k) \/ todo[e] = Create8(t, f, G, k) \/ todo[e] = Create9(t, f, G, k)
               => s = "set"
         /\ todo[e] = Refuse2 \/ todo[e] = Create10(t) => s = "commit"
<1>1. \A c, x, d : todo[e] = c /\ Front(c, x, d) => x.step = s
  BY DEF Advance, Front
<1>2. todo[e] = Refuse1 \/ todo[e] = Create1(t, f, G, k) \/ todo[e] = Create5(t, f, G, k) => s = "log"
  <2>1. \A o : LogOf(o).step = "log"
    BY Kinds
  <2>2. /\ Front(Create1(t, f, G, k), LogOf(Cnt), Create2(t, f, G, k))
        /\ Front(Create5(t, f, G, k), LogOf(Glob), Create6(t, f, G, k))
        /\ Front(Refuse1, LogOf(Cnt), Refuse2)
    BY CreateCodes
  <2> QED BY <1>1, <2>1, <2>2
<1>3. todo[e] = Create2(t, f, G, k) \/ todo[e] = Create3(t, f, G, k) \/ todo[e] = Create6(t, f, G, k)
      \/ todo[e] = Create7(t, f, G, k) \/ todo[e] = Create8(t, f, G, k) \/ todo[e] = Create9(t, f, G, k)
         => s = "set"
  <2>1. \A o, v : Set(o, v).step = "set"
    BY Kinds
  <2>2. /\ Front(Create2(t, f, G, k), Set(Cnt, t + 1), Create3(t, f, G, k))
        /\ Front(Create3(t, f, G, k), Set(t, Empty(f)), Create4(t, f, G, k))
        /\ Front(Create6(t, f, G, k), Set(Glob, Taken(G, k)), Create7(t, f, G, k))
        /\ Front(Create7(t, f, G, k), Set(t, [Empty(f) EXCEPT !.start = G.next]), Create8(t, f, G, k))
        /\ Front(Create8(t, f, G, k), Set(t, [Region(f, G, k) EXCEPT !.next = 0]), Create9(t, f, G, k))
        /\ Front(Create9(t, f, G, k), Set(t, Region(f, G, k)), Create10(t))
    BY CreateCodes
  <2> QED BY <1>1, <2>1, <2>2
<1>4. todo[e] = Refuse2 \/ todo[e] = Create10(t) => s = "commit"
  <2>1. \A r : Commits(r).step = "commit"
    BY Kinds
  <2>2. Front(Create10(t), Commits(Handle(t)), Create11(t)) /\ Front(Refuse2, Commits(None), Ret(None))
    BY CreateCodes
  <2> QED BY <1>1, <2>1, <2>2
<1> QED BY <1>2, <1>3, <1>4

\* Short journals.
LEMMA Appends ==
  ASSUME NEW x, NEW y
  PROVE  Append(<<>>, x) = <<x>> /\ Append(<<x>>, y) = <<x, y>>
<1>1. Append(<<>>, x) = <<x>>
  OBVIOUS
<1>2. Append(<<x>>, y) = <<x, y>>
  <2>1. <<x>> \in Seq({x, y}) /\ y \in {x, y}
    OBVIOUS
  <2>2. Append(<<x>>, y) = <<x>> \o <<y>>
    BY <2>1, AppendIsConcat, Zenon
  <2> QED BY <2>2, Tuple2, Zenon
<1> QED BY <1>1, <1>2

\* AppendLog of a creation.
LEMMA CreateLog ==
  ASSUME Types, Turns, OneHandle, NEW K, NEW G, NEW B, Ready(K, G, B), NEW e \in Live(K), AppendLog(e),
         NEW f, NEW k, Creating(e, K, G, B, f, k)
  PROVE  IInv'
<1>0. /\ Core(K, G, B) /\ e \in Exec /\ Advance(e, "log") /\ ready \subseteq 0 .. K - 1
  BY Objects DEF Ready, Core, AppendLog
<1>1. \/ todo[e] = Refuse1 /\ log[e] = <<>> /\ Quiet(K, G)
      \/ /\ K \in Tid /\ f \in DOMAIN Programs /\ k \in Nat /\ G.next + k <= G.end /\ mem[Glob] = G
         /\ \/ todo[e] = Create1(K, f, G, k) /\ log[e] = <<>> /\ mem[Cnt] = K
            \/ k # 0 /\ todo[e] = Create5(K, f, G, k) /\ Log1(e, K) /\ mem[Cnt] = K + 1
  BY <1>0, CreateSteps DEF Creating, Refusing, Counting, Carving
<1>2. PICK o, d :
         /\ Front(todo[e], LogOf(o), d)
         /\ \/ d = Refuse2 /\ o = Cnt /\ log[e] = <<>> /\ Quiet(K, G)
            \/ /\ K \in Tid /\ f \in DOMAIN Programs /\ k \in Nat /\ G.next + k <= G.end /\ mem[Glob] = G
               /\ \/ d = Create2(K, f, G, k) /\ o = Cnt /\ log[e] = <<>> /\ mem[Cnt] = K
                  \/ k # 0 /\ d = Create6(K, f, G, k) /\ o = Glob /\ Log1(e, K) /\ mem[Cnt] = K + 1
  BY <1>1, CreateCodes
<1>3. /\ Runs(e) /\ Head(todo[e]) = LogOf(o) /\ todo'[e] = d /\ DOMAIN todo' = Exec
      /\ \A y \in Exec \ {e} : todo'[y] = todo[y]
      /\ bootDone' = bootDone /\ alive' = alive
  BY <1>0, <1>2, Pops
<1>4. Head(todo[e]).obj = o
  BY <1>3, Kinds
<1>5. /\ log'[e] = Append(log[e], Entry(o, mem[o])) /\ DOMAIN log' = Exec
      /\ (\A x \in Exec \ {e} : log'[x] = log[x])
      /\ UNCHANGED <<mem, ready, open, cache, replay, given, seen>>
  BY <1>0, <1>4 DEF AppendLog, Types, Entry
<1>6. Inside(e, K)
  BY <1>0, <1>3, <1>5, Objects DEF Inside, Types, Same
<1>7. /\ Call(e)' = Call(e) /\ (Working(e)' <=> Working(e))
      /\ Place(e, K, G, B)' /\ Counted(K, G, B)' => IInv'
  BY <1>6, Insides
<1>8. /\ \A x : Append(<<>>, x) = <<x>>
      /\ \A x, y : Append(<<x>>, y) = <<x, y>>
  BY Appends
<1>9. /\ Working(e)' /\ Call(e)'.op = "create" /\ mem'[e] = B[e] /\ mem' = mem
  BY <1>5, <1>7 DEF Creating
<1>10. Creating(e, K, G, B, f, k)'
  <2>1. CASE d = Refuse2 /\ o = Cnt /\ log[e] = <<>> /\ Quiet(K, G)
    <3>1. Log1(e, K)'
      BY <1>5, <1>8, <2>1 DEF Log1, Quiet
    <3>2. Refusing(e, K, G)'
      BY <1>3, <1>9, <2>1, <3>1 DEF Refusing, Quiet
    <3> QED BY <1>9, <3>2 DEF Creating
  <2>2. CASE /\ K \in Tid /\ f \in DOMAIN Programs /\ k \in Nat /\ G.next + k <= G.end /\ mem[Glob] = G
             /\ d = Create2(K, f, G, k) /\ o = Cnt /\ log[e] = <<>> /\ mem[Cnt] = K
    <3>1. Log1(e, K)'
      BY <1>5, <1>8, <2>2 DEF Log1
    <3>2. Counting(e, K, G, f, k)'
      BY <1>3, <1>9, <2>2, <3>1 DEF Counting
    <3> QED BY <1>9, <2>2, <3>2 DEF Creating
  <2>3. CASE /\ K \in Tid /\ f \in DOMAIN Programs /\ k \in Nat /\ G.next + k <= G.end /\ mem[Glob] = G
             /\ k # 0 /\ d = Create6(K, f, G, k) /\ o = Glob /\ Log1(e, K) /\ mem[Cnt] = K + 1
    <3>1. Log2(e, K, G)'
      BY <1>5, <1>8, <2>3 DEF Log1, Log2
    <3>2. Carving(e, K, G, f, k)'
      BY <1>3, <1>9, <2>3, <3>1 DEF Carving
    <3> QED BY <1>9, <2>3, <3>2 DEF Creating
  <2> QED BY <1>2, <2>1, <2>2, <2>3
<1>11. Place(e, K, G, B)' /\ Counted(K, G, B)'
  BY <1>10 DEF Place, Counted
<1> QED BY <1>7, <1>11

\* The heaps that a creation stores are heaps.
LEMMA NewHeaps ==
  ASSUME NEW f \in DOMAIN Programs, NEW G \in GlobRec, NEW k \in Nat
  PROVE  /\ Empty(f) \in HeapType /\ [Empty(f) EXCEPT !.start = G.next] \in HeapType
         /\ Region(f, G, k) \in HeapType /\ [Region(f, G, k) EXCEPT !.next = 0] \in HeapType
         /\ Taken(G, k) \in GlobRec /\ Taken(G, k).next = G.next + k /\ Taken(G, k).end = G.end
<1>0. G.next \in Nat /\ G.end \in Nat /\ G.next + k \in Nat
  BY DEF GlobRec
<1>1. Empty(f) \in HeapType /\ Region(f, G, k) \in HeapType
  BY <1>0 DEF Empty, Region, HeapType
<1>2. \A h \in HeapType : \A n \in Nat : [h EXCEPT !.start = n] \in HeapType /\ [h EXCEPT !.next = n] \in HeapType
  BY DEF HeapType
<1>3. Taken(G, k) \in GlobRec /\ Taken(G, k).next = G.next + k /\ Taken(G, k).end = G.end
  BY <1>0 DEF Taken, GlobRec
<1> QED BY <1>0, <1>1, <1>2, <1>3

\* Store of a creation.
LEMMA CreateStore ==
  ASSUME Types, Turns, OneHandle, NEW K, NEW G, NEW B, Ready(K, G, B), NEW e \in Live(K), Store(e),
         NEW f, NEW k, Creating(e, K, G, B, f, k)
  PROVE  IInv'
<1>0. /\ Core(K, G, B) /\ e \in Exec /\ Advance(e, "set") /\ ready \subseteq 0 .. K - 1 /\ G \in GlobRec
      /\ K \in 0 .. TaskLimit
  BY Objects DEF Ready, Core, Store
<1>1. /\ K \in Tid /\ f \in DOMAIN Programs /\ k \in Nat /\ G.next + k <= G.end
      /\ \/ todo[e] = Create2(K, f, G, k) /\ Log1(e, K) /\ mem[Cnt] = K /\ mem[Glob] = G
         \/ todo[e] = Create3(K, f, G, k) /\ Log1(e, K) /\ mem[Cnt] = K + 1 /\ mem[Glob] = G
         \/ /\ k # 0 /\ Log2(e, K, G) /\ mem[Cnt] = K + 1
            /\ \/ todo[e] = Create6(K, f, G, k)
               \/ todo[e] = Create7(K, f, G, k) /\ mem[Glob] = Taken(G, k)
               \/ todo[e] = Create8(K, f, G, k) /\ mem[Glob] = Taken(G, k)
               \/ todo[e] = Create9(K, f, G, k) /\ mem[Glob] = Taken(G, k)
  BY <1>0, CreateSteps DEF Creating, Refusing, Counting, Carving
<1>2. PICK o, v, d :
         /\ Front(todo[e], Set(o, v), d)
         /\ \/ o = Cnt /\ v = K + 1 /\ d = Create3(K, f, G, k) /\ Log1(e, K) /\ mem[Glob] = G
            \/ /\ o = K /\ v = Empty(f) /\ d = Create4(K, f, G, k) /\ Log1(e, K) /\ mem[Cnt] = K + 1
               /\ mem[Glob] = G
            \/ /\ k # 0 /\ Log2(e, K, G) /\ mem[Cnt] = K + 1
               /\ \/ o = Glob /\ v = Taken(G, k) /\ d = Create7(K, f, G, k)
                  \/ /\ o = K /\ v \in HeapType /\ mem[Glob] = Taken(G, k)
                     /\ \/ d = Create8(K, f, G, k) \/ d = Create9(K, f, G, k)
                        \/ d = Create10(K) /\ v = Region(f, G, k)
  <2>1. /\ Region(f, G, k) \in HeapType /\ [Region(f, G, k) EXCEPT !.next = 0] \in HeapType
        /\ [Empty(f) EXCEPT !.start = G.next] \in HeapType
    BY <1>0, <1>1, NewHeaps
  <2>2. /\ Front(Create2(K, f, G, k), Set(Cnt, K + 1), Create3(K, f, G, k))
        /\ Front(Create3(K, f, G, k), Set(K, Empty(f)), Create4(K, f, G, k))
        /\ Front(Create6(K, f, G, k), Set(Glob, Taken(G, k)), Create7(K, f, G, k))
        /\ Front(Create7(K, f, G, k), Set(K, [Empty(f) EXCEPT !.start = G.next]), Create8(K, f, G, k))
        /\ Front(Create8(K, f, G, k), Set(K, [Region(f, G, k) EXCEPT !.next = 0]), Create9(K, f, G, k))
        /\ Front(Create9(K, f, G, k), Set(K, Region(f, G, k)), Create10(K))
    BY CreateCodes
  <2>3. CASE todo[e] = Create2(K, f, G, k) /\ Log1(e, K) /\ mem[Cnt] = K /\ mem[Glob] = G
    BY <2>2, <2>3
  <2>4. CASE todo[e] = Create3(K, f, G, k) /\ Log1(e, K) /\ mem[Cnt] = K + 1 /\ mem[Glob] = G
    BY <2>2, <2>4
  <2>5. CASE k # 0 /\ Log2(e, K, G) /\ mem[Cnt] = K + 1 /\ todo[e] = Create6(K, f, G, k)
    BY <2>2, <2>5
  <2>6. CASE k # 0 /\ Log2(e, K, G) /\ mem[Cnt] = K + 1 /\ todo[e] = Create7(K, f, G, k) /\ mem[Glob] = Taken(G, k)
    BY <2>1, <2>2, <2>6
  <2>7. CASE k # 0 /\ Log2(e, K, G) /\ mem[Cnt] = K + 1 /\ todo[e] = Create8(K, f, G, k) /\ mem[Glob] = Taken(G, k)
    BY <2>1, <2>2, <2>7
  <2>8. CASE k # 0 /\ Log2(e, K, G) /\ mem[Cnt] = K + 1 /\ todo[e] = Create9(K, f, G, k) /\ mem[Glob] = Taken(G, k)
    BY <2>1, <2>2, <2>8
  <2> QED BY <1>1, <2>3, <2>4, <2>5, <2>6, <2>7, <2>8
<1>3. /\ Runs(e) /\ Head(todo[e]) = Set(o, v) /\ todo'[e] = d /\ DOMAIN todo' = Exec
      /\ \A y \in Exec \ {e} : todo'[y] = todo[y]
      /\ bootDone' = bootDone /\ alive' = alive
  BY <1>0, <1>2, Pops
<1>4. Head(todo[e]).obj = o /\ Head(todo[e]).val = v
  BY <1>3, Kinds
<1>5. /\ o \in Obj /\ o # Flag /\ o \notin Live(K) /\ K \in Exec /\ K # e /\ K # Cnt /\ K # Glob
      /\ Cnt # Glob /\ Live(K) \subseteq Exec /\ e # Cnt /\ e # Glob /\ Cnt \in Obj /\ Glob \in Obj
  BY <1>0, <1>1, <1>2, Objects DEF Live
<1>6. /\ mem'[o] = v /\ DOMAIN mem' = Obj /\ (\A x \in Obj \ {o} : mem'[x] = mem[x])
      /\ UNCHANGED <<log, ready, open, cache, replay, given, seen>>
  BY <1>4, <1>5 DEF Store, Types
<1>7. /\ o = K => v \in HeapType
      /\ o = Cnt => v = K + 1 /\ v \in Nat
      /\ o = Glob => v = Taken(G, k) /\ v \in GlobRec
  <2>1. Empty(f) \in HeapType /\ Taken(G, k) \in GlobRec
    BY <1>0, <1>1, NewHeaps
  <2>2. K + 1 \in Nat
    BY <1>0
  <2> QED BY <1>2, <1>5, <2>1, <2>2
<1>8. Inside(e, K)
  <2>1. /\ mem'[Flag] = mem[Flag] /\ mem'[Cnt] \in Nat /\ mem'[Glob] \in GlobRec
        /\ \A x \in Exec : mem'[x] \in HeapType
    BY <1>2, <1>5, <1>6, <1>7, Objects DEF Types
  <2>2. \A x \in Live(K) : mem'[x] = mem[x]
    BY <1>5, <1>6, Objects
  <2> QED BY <1>0, <1>3, <1>6, <2>1, <2>2 DEF Inside, Types, Same
<1>9. /\ Call(e)' = Call(e) /\ (Working(e)' <=> Working(e))
      /\ Place(e, K, G, B)' /\ Counted(K, G, B)' => IInv'
  BY <1>8, Insides
<1>10. /\ Working(e)' /\ Call(e)'.op = "create" /\ mem'[e] = B[e]
       /\ (Log1(e, K) => Log1(e, K)') /\ (Log2(e, K, G) => Log2(e, K, G)')
  BY <1>0, <1>5, <1>6, <1>9, Objects DEF Creating, Log1, Log2
<1>11. Creating(e, K, G, B, f, k)'
  <2>1. CASE o = Cnt /\ v = K + 1 /\ d = Create3(K, f, G, k) /\ Log1(e, K) /\ mem[Glob] = G
    <3>1. Counting(e, K, G, f, k)'
      BY <1>3, <1>5, <1>6, <1>10, <2>1 DEF Counting
    <3> QED BY <1>1, <1>10, <3>1 DEF Creating
  <2>2. CASE /\ o = K /\ v = Empty(f) /\ d = Create4(K, f, G, k) /\ Log1(e, K) /\ mem[Cnt] = K + 1
             /\ mem[Glob] = G
    <3>1. mem'[Cnt] = K + 1 /\ mem'[Glob] = G /\ mem'[K] = Empty(f)
      BY <1>5, <1>6, <2>2
    <3>2. Counting(e, K, G, f, k)'
      BY <1>3, <1>10, <2>2, <3>1 DEF Counting, Create4
    <3> QED BY <1>1, <1>10, <3>2 DEF Creating
  <2>3. CASE /\ k # 0 /\ Log2(e, K, G) /\ mem[Cnt] = K + 1
             /\ o = Glob /\ v = Taken(G, k) /\ d = Create7(K, f, G, k)
    <3>1. mem'[Cnt] = K + 1 /\ mem'[Glob] = Taken(G, k)
      BY <1>5, <1>6, <2>3
    <3>2. Carving(e, K, G, f, k)'
      BY <1>3, <1>10, <2>3, <3>1 DEF Carving
    <3> QED BY <1>1, <1>10, <3>2 DEF Creating
  <2>4. CASE /\ k # 0 /\ Log2(e, K, G) /\ mem[Cnt] = K + 1
             /\ o = K /\ mem[Glob] = Taken(G, k)
             /\ \/ d = Create8(K, f, G, k) \/ d = Create9(K, f, G, k)
                \/ d = Create10(K) /\ v = Region(f, G, k)
    <3>1. mem'[Cnt] = K + 1 /\ mem'[Glob] = Taken(G, k) /\ mem'[K] = v
      BY <1>5, <1>6, <2>4
    <3>2. Carving(e, K, G, f, k)'
      BY <1>3, <1>10, <2>4, <3>1 DEF Carving
    <3> QED BY <1>1, <1>10, <3>2 DEF Creating
  <2> QED BY <1>2, <2>1, <2>2, <2>3, <2>4
<1>12. Place(e, K, G, B)' /\ Counted(K, G, B)'
  BY <1>11 DEF Place, Counted
<1> QED BY <1>9, <1>12

\* Before a call is committed it logs or stores.
LEMMA CreatingKind ==
  ASSUME NEW K, NEW G, NEW B, NEW e, NEW f, NEW k, Creating(e, K, G, B, f, k), NEW s, Advance(e, s)
  PROVE  s \in {"log", "set", "commit"}
BY CreateSteps DEF Creating, Refusing, Counting, Carving

\* After its commit a call that creates a task does not touch the count.
LEMMA QuietAfter ==
  ASSUME NEW K, NEW G, NEW B, Core(K, G, B), NEW e \in Live(K), Runs(e), Returning(e, B), Types
  PROVE  Quiet(K, G)
<1>0. e \in Exec /\ Live(K) \subseteq Exec
  BY Objects DEF Core
<1>1. \A f, k : ~ Creating(e, K, G, B, f, k)
  <2>1. Len(given[e]) < Len(Results(e)) /\ Len(given[e]) \in Nat /\ Len(Results(e)) \in Nat
    BY <1>0, ResultsIs DEF Returning
  <2> QED BY <2>1 DEF Creating, Working
<1>2. \A x \in Live(K) \ {e} : \A f, k : ~ Creating(x, K, G, B, f, k)
  BY <1>0, CreatingIs DEF Runs
<1> QED BY <1>1, <1>2 DEF Core, Counted

\* Insert.
LEMMA InsertStep ==
  ASSUME Types, Turns, OneHandle, NEW K, NEW G, NEW B, Ready(K, G, B), NEW e \in Exec, Insert(e)
  PROVE  IInv'
<1>0. /\ Advance(e, "insert") /\ ready' = ready \cup {Head(todo[e]).task}
      /\ UNCHANGED <<mem, log, open, cache, replay, given, seen>>
  BY DEF Insert
<1>1. e \in Live(K) /\ Good(e, K, G, B) /\ Core(K, G, B) /\ ready \subseteq 0 .. K - 1 /\ K \in Nat /\ Runs(e)
  BY <1>0, RunsLive DEF Ready, Core, Advance
<1>2. Returning(e, B)
  BY <1>0, <1>1, KindOf, CreatingKind DEF Good
<1> DEFINE r == Results(e)[Len(given[e]) + 1]
<1>3. PICK t \in Tid : r = Handle(t) /\ Call(e).op = "create" /\ todo[e] = Create11(t)
  <2>1. todo[e] # Ret(r)
    <3>1. Front(Ret(r), Returns(r), <<>>) /\ Returns(r).step = "return"
      BY AllocCodes, Kinds
    <3> QED BY <1>0, <3>1 DEF Advance, Front
  <2> QED BY <1>2, <2>1 DEF Returning
<1>4. Front(todo[e], Inserts(t), Ret(Handle(t))) /\ Inserts(t).task = t
  BY <1>3, CreateCodes, Kinds
<1>5. /\ Head(todo[e]) = Inserts(t) /\ todo'[e] = Ret(Handle(t)) /\ DOMAIN todo' = Exec
      /\ \A y \in Exec \ {e} : todo'[y] = todo[y]
      /\ bootDone' = bootDone /\ alive' = alive
  BY <1>0, <1>4, Pops
<1>6. t \in 0 .. K - 1
  <2>1. Len(given[e]) + 1 \in 1 .. Len(Results(e))
    BY <1>2, ResultsIs DEF Returning
  <2>2. t < K
    BY <1>1, <1>3, <2>1 DEF Good, OwnTasks
  <2> QED BY <1>1, <2>2, HeapAssumption DEF Tid
<1>7. Inside(e, K)
  <2>1. ready' \subseteq 0 .. K - 1
    BY <1>0, <1>1, <1>4, <1>5, <1>6
  <2> QED BY <1>0, <1>1, <1>5, <2>1, Objects DEF Inside, Types, Same, Core
<1>8. /\ Call(e)' = Call(e) /\ (AtEnd(e)' <=> AtEnd(e)) /\ Results(e)' = Results(e)
      /\ Place(e, K, G, B)' /\ Counted(K, G, B)' => IInv'
  BY <1>1, <1>7, Insides
<1>9. Returning(e, B)'
  BY <1>0, <1>2, <1>3, <1>5, <1>8 DEF Returning, Clean
<1>10. Counted(K, G, B)'
  BY <1>0, <1>1, <1>2, QuietAfter DEF Counted, Quiet
<1> QED BY <1>8, <1>9, <1>10 DEF Place

\* (where a call that returns is)
LEMMA OneMore ==
  ASSUME NEW n \in Nat, NEW a \in Nat, NEW b \in Nat, NEW m, m = a + b, n <= a, a <= n, n < m, b <= 1
  PROVE  n = a /\ b = 1 /\ m = a + 1
OBVIOUS

\* Return.
LEMMA ReturnStep ==
  ASSUME Types, Turns, OneHandle, NEW K, NEW G, NEW B, Ready(K, G, B), NEW e \in Exec, Return(e)
  PROVE  IInv'
<1> DEFINE r == Results(e)[Len(given[e]) + 1]
<1>0. /\ Advance(e, "return")
      /\ IF e = Boot THEN UNCHANGED <<cache, replay>>
         ELSE /\ replay' = [replay EXCEPT ![e] = Append(@, Head(todo[e]).res)]
              /\ cache' = [cache EXCEPT ![e] = <<>>]
      /\ Give(e, Head(todo[e]).res)
      /\ UNCHANGED <<mem, ready, log, open>>
  BY DEF Return
<1>1. e \in Live(K) /\ Good(e, K, G, B) /\ Core(K, G, B) /\ Runs(e)
  BY <1>0, RunsLive DEF Ready, Advance
<1>2. Returning(e, B)
  BY <1>0, <1>1, KindOf, CreatingKind DEF Good
<1>3. todo[e] = Ret(r)
  <2>1. \A t : todo[e] # Create11(t)
    <3>1. \A t : Front(Create11(t), Inserts(t), Ret(Handle(t))) /\ Inserts(t).step = "insert"
      BY CreateCodes, Kinds
    <3> QED BY <1>0, <3>1 DEF Advance, Front
  <2> QED BY <1>2, <2>1 DEF Returning
<1>4. Front(todo[e], Returns(r), <<>>) /\ Returns(r).res = r
  BY <1>3, AllocCodes, Kinds
<1>5. /\ Head(todo[e]).res = r /\ todo'[e] = <<>> /\ DOMAIN todo' = Exec
      /\ \A y \in Exec \ {e} : todo'[y] = todo[y]
      /\ bootDone' = bootDone /\ alive' = alive
  BY <1>0, <1>4 DEF Advance, Front, Types
<1>6. /\ alive[e] /\ Clean(e, B) /\ Len(replay[e]) <= Len(given[e]) /\ Len(given[e]) < Len(Results(e))
      /\ Answers(e)
  BY <1>1, <1>2 DEF Returning, Good
<1>7. /\ given' \in [Exec -> Seq(Answer)] /\ seen' \in [Exec -> Seq(Answer)]
      /\ \A x \in Exec \ {e} : given'[x] = given[x] /\ seen'[x] = seen[x]
      /\ Len(given'[e]) = Len(given[e]) + 1
      /\ Len(given'[e]) <= Len(seen'[e]) /\ Len(seen'[e]) <= Len(Results(e))
      /\ \A i \in 1 .. Len(given'[e]) : given'[e][i] = Results(e)[i]
      /\ \A i \in 1 .. Len(seen'[e]) : seen'[e][i] = Results(e)[i]
  BY <1>0, <1>5, <1>6, GiveIs
<1>8. /\ Results(e)' = Results(e) /\ cache' \in [Exec -> Seq(Answer)] /\ replay' \in [Exec -> Seq(Answer)]
      /\ \A x \in Exec \ {e} : cache'[x] = cache[x] /\ replay'[x] = replay[x]
      /\ e = Boot => replay'[e] = replay[e]
      /\ e # Boot => Len(given'[e]) <= Len(replay'[e]) /\ Len(cache'[e]) <= 1
  <2>1. CASE e = Boot
    BY <1>0, <2>1 DEF Results, Types
  <2>2. CASE e # Boot
    <3> DEFINE a == replay[e]
               b == cache[e]
               R == Results(e)
    <3>1. /\ a \in Seq(Answer) /\ b \in Seq(Answer) /\ R \in Seq(Answer) /\ Len(given[e]) \in Nat
          /\ Len(a) \in Nat /\ Len(b) \in Nat /\ Len(R) = Len(a) + Len(b)
          /\ \A i \in 1 .. Len(R) : R[i] = IF i <= Len(a) THEN a[i] ELSE b[i - Len(a)]
      BY ResultsIs
    <3>2. Len(given[e]) <= Len(a) /\ Len(b) <= 1 /\ Len(a) <= Len(given[e]) /\ Len(given[e]) < Len(R)
      BY <1>6, <2>2 DEF Answers
    <3>3. replay'[e] = Append(a, r) /\ cache'[e] = <<>>
      BY <1>0, <1>5, <2>2 DEF Types
    <3> HIDE DEF a, b, R
    <3>4. Len(given[e]) = Len(a) /\ Len(b) = 1 /\ Len(R) = Len(a) + 1 /\ Len(a) + 1 \in 1 .. Len(R)
      <4>1. /\ Len(given[e]) \in Nat /\ Len(a) \in Nat /\ Len(b) \in Nat /\ Len(R) = Len(a) + Len(b)
            /\ Len(given[e]) <= Len(a) /\ Len(b) <= 1 /\ Len(a) <= Len(given[e]) /\ Len(given[e]) < Len(R)
        BY <3>1, <3>2
      <4>2. Len(given[e]) = Len(a) /\ Len(b) = 1 /\ Len(R) = Len(a) + 1
        BY <4>1, OneMore
      <4> QED BY <4>1, <4>2
    <3>5. r = R[Len(a) + 1] /\ r \in Answer
      <4>1. R[Len(a) + 1] \in Answer
        BY <3>1, <3>4, ElementOfSeq
      <4>2. r = R[Len(given[e]) + 1]
        BY DEF R
      <4> HIDE DEF r
      <4> QED BY <3>4, <4>1, <4>2
    <3>6. /\ Append(a, r) \in Seq(Answer) /\ Len(Append(a, r)) = Len(a) + 1
          /\ (\A i \in 1 .. Len(a) : Append(a, r)[i] = a[i]) /\ Append(a, r)[Len(a) + 1] = r
      <4> HIDE DEF r
      <4> QED BY <3>1, <3>5, AppendProperties
    <3>7. \A i \in 1 .. Len(R) : Append(a, r)[i] = R[i]
      <4> HIDE DEF r
      <4> TAKE i \in 1 .. Len(R)
      <4>1. CASE i <= Len(a)
        BY <3>1, <3>6, <4>1
      <4>2. CASE ~ (i <= Len(a))
        <5>1. i = Len(a) + 1
          BY <3>1, <3>4, <4>2
        <5> QED BY <3>5, <3>6, <5>1
      <4> QED BY <4>1, <4>2
    <3>8. Append(a, r) = R
      <4> HIDE DEF r
      <4> QED BY <3>1, <3>4, <3>6, <3>7, SeqEqual
    <3>9. Results(e)' = R
      <4> HIDE DEF r
      <4>1. Results(e)' = Append(a, r) \o <<>>
        BY <3>3 DEF Results
      <4>2. R \o <<>> = R
        BY <3>1, ConcatEmptySeq
      <4> QED BY <3>8, <4>1, <4>2
    <3>10. /\ cache' \in [Exec -> Seq(Answer)] /\ replay' \in [Exec -> Seq(Answer)]
           /\ \A x \in Exec \ {e} : cache'[x] = cache[x] /\ replay'[x] = replay[x]
      <4>1. <<>> \in Seq(Answer)
        BY EmptySeq
      <4>2. cache' \in [Exec -> Seq(Answer)] /\ \A x \in Exec \ {e} : cache'[x] = cache[x]
        BY <1>0, <2>2, <4>1 DEF Types
      <4>3. replay' = [replay EXCEPT ![e] = Append(a, r)]
        BY <1>0, <1>5, <2>2 DEF a
      <4> HIDE DEF r
      <4>4. replay' \in [Exec -> Seq(Answer)] /\ \A x \in Exec \ {e} : replay'[x] = replay[x]
        BY <3>6, <4>3 DEF Types
      <4> QED BY <4>2, <4>4
    <3>11. Len(given'[e]) <= Len(replay'[e]) /\ Len(cache'[e]) <= 1
      <4>1. Len(<<>>) = 0
        BY EmptySeq
      <4> QED BY <1>7, <3>1, <3>3, <3>4, <3>6, <4>1
    <3> QED BY <2>2, <3>9, <3>10, <3>11 DEF R
  <2> QED BY <2>1, <2>2
<1>9. Types'
  BY <1>0, <1>5, <1>7, <1>8 DEF Types
<1>10. Stays(e, K) /\ Same(mem'[e], mem[e]) /\ Prog(e)' = Prog(e)
  BY <1>0, <1>5, <1>7, <1>8 DEF Stays, Same, Prog
<1>11. Answers(e)'
  BY <1>6, <1>7, <1>8, <1>10 DEF Answers
<1>12. Place(e, K, G, B)'
  BY <1>0, <1>5, <1>6 DEF Place, Idle, Clean
<1>13. Counted(K, G, B)' /\ ready' \subseteq 0 .. K - 1 /\ mem'[Flag] = mem[Flag]
  BY <1>0, <1>1, <1>2, QuietAfter DEF Counted, Quiet, Core
<1> QED BY <1>1, <1>5, <1>8, <1>9, <1>10, <1>11, <1>12, <1>13, Inner

(***************************************************************************)
(* The commit.                                                             *)
(***************************************************************************)
\* a result is one longer, by r
Longer(R, S, r) ==
    /\ Len(S) = Len(R) + 1 /\ S[Len(R) + 1] = r /\ \A i \in 1 .. Len(R) : S[i] = R[i]

\* e has committed with result r and has the steps d left
Committed(e, r, d) ==
    /\ Types' /\ mem' = mem /\ ready' = ready /\ bootDone' = bootDone /\ Runs(e)
    /\ todo'[e] = d /\ log'[e] = <<>> /\ alive'[e] /\ ~ AtEnd(e)'
    /\ Call(e)' = Call(e) /\ Prog(e)' = Prog(e) /\ Call(e) = Prog(e)[Len(Results(e)) + 1]
    /\ Len(replay'[e]) <= Len(given'[e]) /\ Len(given'[e]) = Len(Results(e)) /\ Len(Results(e)) \in Nat
    /\ Results(e) \in Seq(Answer) /\ Longer(Results(e), Results(e)', r)
    /\ Answers(e)'
    /\ \A K : Stays(e, K)

\* (there is room for one more)
LEMMA RoomFor ==
  ASSUME NEW s \in Nat, NEW n \in Nat, NEW p \in Nat, NEW m, m = n + 1, s <= n, n <= p, n # p
  PROVE  m <= p /\ s <= m
OBVIOUS

\* Commit.
LEMMA CommitIs ==
  ASSUME Types, NEW e \in Exec, Answers(e), Working(e), Commit(e), NEW r \in Answer, NEW d,
         Front(todo[e], Commits(r), d)
  PROVE  Committed(e, r, d)
<1>0. /\ Advance(e, "commit") /\ cache' = [cache EXCEPT ![e] = Append(@, Head(todo[e]).res)]
      /\ open' = [open EXCEPT ![e] = FALSE] /\ log' = [log EXCEPT ![e] = <<>>]
      /\ UNCHANGED <<mem, ready, replay, given, seen>>
  BY DEF Commit
<1>1. /\ Runs(e) /\ Head(todo[e]) = Commits(r) /\ todo'[e] = d /\ DOMAIN todo' = Exec
      /\ \A y \in Exec \ {e} : todo'[y] = todo[y]
      /\ bootDone' = bootDone /\ alive' = alive
  BY <1>0, Pops
<1>2. Head(todo[e]).res = r
  BY <1>1, Kinds
<1> DEFINE a == replay[e]
           b == cache[e]
           R == Results(e)
           S == Results(e)'
<1>3. /\ a \in Seq(Answer) /\ b \in Seq(Answer) /\ R \in Seq(Answer) /\ Len(given[e]) \in Nat /\ Len(seen[e]) \in Nat
      /\ Len(a) \in Nat /\ Len(b) \in Nat /\ Len(R) \in Nat /\ Len(R) = Len(a) + Len(b) /\ R = a \o b
      /\ Len(Prog(e)) \in Nat
  BY ResultsIs, ProgIs DEF Results
<1>4. /\ cache'[e] = Append(b, r) /\ ~ open'[e] /\ log'[e] = <<>> /\ DOMAIN log' = Exec
      /\ open' \in [Exec -> BOOLEAN]
      /\ \A x \in Exec \ {e} : cache'[x] = cache[x] /\ open'[x] = open[x] /\ log'[x] = log[x]
  BY <1>0, <1>2 DEF Types
<1>5. S = a \o Append(b, r)
  BY <1>0, <1>4 DEF Results
<1>6. cache' = [cache EXCEPT ![e] = Append(b, r)]
  BY <1>0, <1>2
<1>7. alive[e] /\ ~ AtEnd(e) /\ Len(given[e]) = Len(R)
  BY DEF Working
<1>8. /\ Prog(e)' = Prog(e) /\ Call(e)' = Call(e) /\ (AtEnd(e)' <=> AtEnd(e)) /\ Call(e) = Prog(e)[Len(R) + 1]
  BY <1>0, <1>7 DEF Prog, Call, AtEnd
<1> HIDE DEF a, b, R, S
<1>9. Append(b, r) \in Seq(Answer) /\ Append(b, r) = b \o <<r>> /\ Len(Append(b, r)) = Len(b) + 1
  BY <1>3, AppendProperties, AppendIsConcat
<1>10. S = R \o <<r>> /\ R \o <<r>> = Append(R, r)
  <2>1. IsSeq(a) /\ IsSeq(b) /\ IsSeq(<<r>>)
    BY <1>3, SeqIs, Tuple1
  <2>2. (a \o b) \o <<r>> = a \o (b \o <<r>>)
    BY <2>1, CatAssoc
  <2>3. S = R \o <<r>>
    BY <1>3, <1>5, <1>9, <2>2
  <2>4. Append(R, r) = R \o <<r>>
    BY <1>3, AppendIsConcat
  <2> QED BY <2>3, <2>4
<1>11. Longer(R, S, r)
  <2>1. S = Append(R, r)
    BY <1>10
  <2> QED BY <1>3, <2>1, AppendProperties DEF Longer
<1>12. Types'
  <2>1. cache' \in [Exec -> Seq(Answer)]
    BY <1>6, <1>9 DEF Types
  <2> QED BY <1>0, <1>1, <1>4, <2>1 DEF Types
<1>13. Answers(e)'
  <2>1. /\ Len(given[e]) <= Len(seen[e]) /\ Len(seen[e]) <= Len(R) /\ Len(R) <= Len(Prog(e))
        /\ (\A i \in 1 .. Len(given[e]) : given[e][i] = R[i])
        /\ (\A i \in 1 .. Len(seen[e]) : seen[e][i] = R[i])
        /\ (e = Boot => a = <<>>)
        /\ (e # Boot => Len(given[e]) <= Len(a) /\ Len(b) <= 1)
    BY DEF Answers, R, a, b
  <2>2. Len(S) = Len(R) + 1 /\ \A i \in 1 .. Len(R) : S[i] = R[i]
    BY <1>11 DEF Longer
  <2>3. Len(R) # Len(Prog(e))
    BY <1>7 DEF AtEnd
  <2>4. Len(S) <= Len(Prog(e)) /\ Len(seen[e]) <= Len(S)
    <3>1. /\ Len(seen[e]) \in Nat /\ Len(R) \in Nat /\ Len(Prog(e)) \in Nat /\ Len(S) = Len(R) + 1
          /\ Len(seen[e]) <= Len(R) /\ Len(R) <= Len(Prog(e)) /\ Len(R) # Len(Prog(e))
      BY <1>3, <2>1, <2>2, <2>3
    <3> QED BY <3>1, RoomFor
  <2>5. \A i \in 1 .. Len(given[e]) : given[e][i] = S[i]
    <3>1. Len(given[e]) = Len(R)
      BY <1>7
    <3> QED BY <2>1, <2>2, <3>1
  <2>6. \A i \in 1 .. Len(seen[e]) : seen[e][i] = S[i]
    <3>1. 1 .. Len(seen[e]) \subseteq 1 .. Len(R)
      <4>1. Len(seen[e]) \in Nat /\ Len(R) \in Nat /\ Len(seen[e]) <= Len(R)
        BY <1>3, <2>1
      <4> QED BY <4>1
    <3> QED BY <2>1, <2>2, <3>1
  <2>7. e # Boot => Len(given[e]) <= Len(a) /\ Len(cache'[e]) <= 1
    <3>1. e # Boot => Len(b) = 0
      BY <1>3, <1>7, <2>1
    <3> QED BY <1>4, <1>9, <2>1, <3>1
  <2>8. given'[e] = given[e] /\ seen'[e] = seen[e] /\ replay'[e] = a
    BY <1>0 DEF a
  <2> QED BY <1>8, <2>1, <2>4, <2>5, <2>6, <2>7, <2>8 DEF Answers, S
<1>14. \A K : Stays(e, K)
  BY <1>0, <1>1, <1>4 DEF Stays
<1>15. Len(replay'[e]) <= Len(given'[e]) /\ Len(given'[e]) = Len(R) /\ alive'[e] /\ ~ AtEnd(e)'
  <2>1. Len(replay'[e]) = Len(a) /\ Len(given'[e]) = Len(R)
    BY <1>0, <1>7 DEF a
  <2> QED BY <1>1, <1>3, <1>7, <1>8, <2>1
<1> QED BY <1>0, <1>1, <1>3, <1>4, <1>8, <1>11, <1>12, <1>13, <1>14, <1>15 DEF Committed, R, S

\* It is about to return.
LEMMA CommittedReturns ==
  ASSUME Types, NEW e \in Exec, NEW r, NEW d, Committed(e, r, d), NEW B, mem[e] = B[e],
         \/ d = Ret(r)
         \/ \E t \in Tid : r = Handle(t) /\ Call(e).op = "create" /\ d = Create11(t)
  PROVE  Returning(e, B)'
<1>1. /\ todo'[e] = d /\ log'[e] = <<>> /\ alive'[e] /\ ~ AtEnd(e)' /\ mem' = mem /\ Call(e)' = Call(e)
      /\ Len(replay'[e]) <= Len(given'[e]) /\ Len(given'[e]) = Len(Results(e)) /\ Len(Results(e)) \in Nat
      /\ Len(Results(e)') = Len(Results(e)) + 1 /\ Results(e)'[Len(Results(e)) + 1] = r
  BY DEF Committed, Longer
<1>2. Len(given'[e]) < Len(Results(e)') /\ Results(e)'[Len(given'[e]) + 1] = r
  BY <1>1
<1> QED BY <1>1, <1>2 DEF Returning, Clean

\* The handles, with one more result.
LEMMA CommittedTasks ==
  ASSUME NEW e, NEW r, NEW d, Committed(e, r, d), NEW K \in Nat, NEW L \in Nat, K <= L, OwnTasks(e, K),
         Call(e).op = "create" => r = None \/ \E t \in Tid : r = Handle(t),
         \A t \in Tid : r = Handle(t) => t < L
  PROVE  OwnTasks(e, L)'
<1> DEFINE n == Len(Results(e))
           R == Results(e)
           S == Results(e)'
<1>1. /\ Len(S) = n + 1 /\ S[n + 1] = r /\ (\A i \in 1 .. n : S[i] = R[i]) /\ n \in Nat
      /\ Prog(e)' = Prog(e) /\ Call(e) = Prog(e)[n + 1]
  BY DEF Committed, Longer
<1>2. ASSUME NEW i \in 1 .. Len(S)
      PROVE  /\ Prog(e)[i].op = "create" => S[i] = None \/ \E t \in Tid : S[i] = Handle(t)
             /\ \A t \in Tid : S[i] = Handle(t) => t < L
  <2> HIDE DEF S, n
  <2>1. CASE i = n + 1
    BY <1>1, <2>1
  <2>2. CASE i # n + 1
    <3>1. i \in 1 .. n
      BY <1>1, <2>2
    <3>2. /\ Prog(e)[i].op = "create" => R[i] = None \/ \E t \in Tid : R[i] = Handle(t)
          /\ \A t \in Tid : R[i] = Handle(t) => t < K
      BY <3>1 DEF OwnTasks, n
    <3>3. \A t \in Tid : t < K => t < L
      BY HeapAssumption DEF Tid
    <3> QED BY <1>1, <3>1, <3>2, <3>3
  <2> QED BY <2>1, <2>2
<1> QED BY <1>1, <1>2 DEF OwnTasks

\* The blocks, with one more result.
LEMMA CommittedBlocks ==
  ASSUME NEW e, NEW r \in Answer, NEW d, Committed(e, r, d), NEW B, NEW C, B[e] \in HeapType, C[e] \in HeapType,
         OwnBlocks(e, B), C[e].start = B[e].start, B[e].start <= B[e].next, B[e].next <= C[e].next,
         \A b \in r : Len(b) = 2 => B[e].next <= b[1] /\ b[2] <= C[e].next
  PROVE  OwnBlocks(e, C)'
<1> DEFINE n == Len(Results(e))
           R == Results(e)
           S == Results(e)'
           lo == B[e].start
           mi == B[e].next
           hi == C[e].next
<1>1. /\ Len(S) = n + 1 /\ S[n + 1] = r /\ (\A i \in 1 .. n : S[i] = R[i]) /\ n \in Nat
      /\ R \in Seq(Answer)
  BY DEF Committed, Longer
<1>2. lo \in Nat /\ mi \in Nat /\ hi \in Nat /\ lo <= mi /\ mi <= hi /\ C[e].start = lo
  BY DEF HeapType
<1>3. /\ \A i \in 1 .. n : \A b \in R[i] : Len(b) = 2 => lo <= b[1] /\ b[2] <= mi
      /\ \A i, j \in 1 .. n : i # j => \A b \in R[i], c \in R[j] : Len(b) = 2 /\ Len(c) = 2 => Disjoint(b, c)
      /\ \A b \in r : Len(b) = 2 => mi <= b[1] /\ b[2] <= hi
  BY DEF OwnBlocks
<1>4. /\ \A i \in 1 .. n : \A b \in R[i] : Len(b) = 2 => b[1] \in Nat /\ b[2] \in Nat
      /\ \A b \in r : Len(b) = 2 => b[1] \in Nat /\ b[2] \in Nat
  <2>1. ASSUME NEW i \in 1 .. n PROVE R[i] \in Answer
    BY <1>1, ElementOfSeq
  <2> QED BY <2>1, PairIs DEF Answer
<1> HIDE DEF n, R, S, lo, mi, hi
<1>5. \A i \in 1 .. Len(S) : i = n + 1 \/ i \in 1 .. n
  BY <1>1
<1>6. ASSUME NEW i \in 1 .. Len(S), NEW b \in S[i], Len(b) = 2 PROVE lo <= b[1] /\ b[2] <= hi
  <2>1. CASE i = n + 1
    <3>1. b \in r
      BY <1>1, <2>1
    <3>2. b[1] \in Nat /\ mi <= b[1] /\ b[2] <= hi
      BY <1>3, <1>4, <1>6, <3>1
    <3> QED BY <1>2, <3>2
  <2>2. CASE i \in 1 .. n
    <3>1. b \in R[i]
      BY <1>1, <2>2
    <3>2. b[2] \in Nat /\ lo <= b[1] /\ b[2] <= mi
      BY <1>3, <1>4, <1>6, <2>2, <3>1
    <3> QED BY <1>2, <3>2
  <2> QED BY <1>5, <2>1, <2>2
<1>7. ASSUME NEW i \in 1 .. n, NEW b \in R[i], NEW c \in r, Len(b) = 2, Len(c) = 2
      PROVE  b[2] <= c[1]
  <2>1. b[2] \in Nat /\ b[2] <= mi
    BY <1>3, <1>4, <1>7
  <2>2. c[1] \in Nat /\ mi <= c[1]
    BY <1>3, <1>4, <1>7
  <2> QED BY <1>2, <2>1, <2>2
<1>8. ASSUME NEW i \in 1 .. Len(S), NEW j \in 1 .. Len(S), i # j, NEW b \in S[i], NEW c \in S[j],
             Len(b) = 2, Len(c) = 2
      PROVE  Disjoint(b, c)
  <2>1. CASE i \in 1 .. n /\ j \in 1 .. n
    <3>1. b \in R[i] /\ c \in R[j]
      BY <1>1, <2>1
    <3> QED BY <1>3, <1>8, <2>1, <3>1
  <2>2. CASE i \in 1 .. n /\ j = n + 1
    <3>1. b \in R[i] /\ c \in r
      BY <1>1, <2>2
    <3> QED BY <1>7, <1>8, <2>2, <3>1 DEF Disjoint
  <2>3. CASE i = n + 1 /\ j \in 1 .. n
    <3>1. b \in r /\ c \in R[j]
      BY <1>1, <2>3
    <3> QED BY <1>7, <1>8, <2>3, <3>1 DEF Disjoint
  <2> QED BY <1>5, <1>8, <2>1, <2>2, <2>3
<1> QED BY <1>2, <1>6, <1>8 DEF OwnBlocks, S, lo, hi

\* One handle for each task, with one more result.
LEMMA CommittedHandles ==
  ASSUME OneHandle, NEW K, NEW e \in Exec, NEW r, NEW d, Committed(e, r, d),
         \A x \in Exec \ {e} : Results(x)' = Results(x),
         \A t \in Tid : r = Handle(t) =>
            \A x \in Exec : \A i \in 1 .. Len(Results(x)) : Results(x)[i] # Handle(t)
  PROVE  OneHandle'
<1> DEFINE n == Len(Results(e))
<1>1. /\ Len(Results(e)') = n + 1 /\ Results(e)'[n + 1] = r /\ n \in Nat
      /\ \A i \in 1 .. n : Results(e)'[i] = Results(e)[i]
  BY DEF Committed, Longer
<1>2. ASSUME NEW x \in Exec, NEW i \in 1 .. Len(Results(x)')
      PROVE  \/ x = e /\ i = n + 1 /\ Results(x)'[i] = r
             \/ i \in 1 .. Len(Results(x)) /\ Results(x)'[i] = Results(x)[i]
  <2>1. CASE x = e
    <3>1. i = n + 1 \/ i \in 1 .. n
      BY <1>1, <2>1
    <3> QED BY <1>1, <2>1, <3>1
  <2>2. CASE x # e
    BY <2>2
  <2> QED BY <2>1, <2>2
<1>3. ASSUME NEW x \in Exec, NEW y \in Exec, NEW i \in 1 .. Len(Results(x)'), NEW j \in 1 .. Len(Results(y)'),
             NEW t \in Tid, Results(x)'[i] = Handle(t), Results(y)'[j] = Handle(t)
      PROVE  x = y /\ i = j
  <2>1. \/ x = e /\ i = n + 1 /\ r = Handle(t)
        \/ i \in 1 .. Len(Results(x)) /\ Results(x)[i] = Handle(t)
    BY <1>2, <1>3
  <2>2. \/ y = e /\ j = n + 1 /\ r = Handle(t)
        \/ j \in 1 .. Len(Results(y)) /\ Results(y)[j] = Handle(t)
    BY <1>2, <1>3
  <2> QED BY <2>1, <2>2 DEF OneHandle
<1> QED BY <1>3 DEF OneHandle

\* Commit of an allocation: what the heap has grown by is handed out.
LEMMA AllocCommit ==
  ASSUME Types, Turns, OneHandle, NEW K, NEW G, NEW B, Ready(K, G, B), NEW e \in Live(K), Commit(e),
         NEW f, NEW g, NEW r, Allocating(e, B, f, g, r), todo[e] = Alloc5(r), mem[e] = g
  PROVE  IInv'
<1>0. /\ Core(K, G, B) /\ e \in Exec /\ Good(e, K, G, B) /\ K \in 0 .. TaskLimit /\ B \in [Exec -> HeapType]
      /\ ready \subseteq 0 .. K - 1 /\ Live(K) \subseteq Exec /\ 0 .. K - 1 \subseteq Live(K) /\ G \in GlobRec
      /\ Apart(K, G, B) /\ Boot \in Live(K)
  BY Objects DEF Ready, Core, Live
<1>1. Working(e) /\ Call(e).op # "create" /\ Grown(B[e], g, r) /\ r \in Answer /\ g \in HeapType
  BY DEF Allocating, Grown
<1>2. Committed(e, r, Ret(r))
  <2>1. Front(todo[e], Commits(r), Ret(r))
    BY AllocCodes
  <2> QED BY <1>0, <1>1, <2>1, CommitIs DEF Good
<1>C. PICK C : C = [B EXCEPT ![e] = g]
  OBVIOUS
<1>3. /\ C \in [Exec -> HeapType] /\ C[e] = g /\ \A x \in Exec \ {e} : C[x] = B[x]
  BY <1>0, <1>1, <1>C
<1>4. /\ Runs(e) /\ bootDone' = bootDone /\ mem' = mem /\ ready' = ready /\ Types' /\ Stays(e, K) /\ Answers(e)'
  BY <1>2 DEF Committed
<1>5. /\ \A x \in Live(K) \ {e} : Good(x, K, G, C)'
      /\ \A x \in Exec \ {e} : Results(x)' = Results(x)
      /\ \A t \in Tid : t >= K => Untouched(t)'
      /\ Turns'
  <2>1. K \in K .. TaskLimit
    BY <1>0
  <2>2. AgreeBut(e, K, B, C)
    BY <1>0, <1>3 DEF AgreeBut
  <2>3. Core(K, G, B) /\ Runs(e) /\ Stays(e, K) /\ bootDone' = bootDone
    BY <1>0, <1>4
  <2> QED BY <2>1, <2>2, <2>3, RestKept
<1>6. HeapOK(B[e]) /\ B[e] \in HeapType
  BY <1>0 DEF Apart, Live
<1>7. \A t : r # Handle(t)
  <2>1. ASSUME NEW t, r = Handle(t) PROVE FALSE
    <3>1. <<t>> \in r /\ Len(<<t>>) = 1
      BY <2>1 DEF Handle
    <3>2. Len(<<t>>) = 2
      BY <1>1, <3>1 DEF Grown
    <3> QED BY <3>1, <3>2
  <2> QED BY <2>1
<1>8. OneHandle'
  BY <1>0, <1>2, <1>5, <1>7, CommittedHandles
<1>9. Good(e, K, G, C)'
  <2>1. Place(e, K, G, C)'
    <3>1. Returning(e, C)'
      BY <1>0, <1>2, <1>3, CommittedReturns
    <3> QED BY <3>1 DEF Place
  <2>2. OwnTasks(e, K)'
    <3>1. K \in Nat /\ K <= K /\ OwnTasks(e, K)
      BY <1>0 DEF Good
    <3> QED BY <1>1, <1>2, <1>7, <3>1, CommittedTasks
  <2>3. OwnBlocks(e, C)'
    <3>1. OwnBlocks(e, B)
      BY <1>0 DEF Good
    <3>2. /\ C[e].start = B[e].start /\ B[e].start <= B[e].next /\ B[e].next <= C[e].next
          /\ \A b \in r : Len(b) = 2 => B[e].next <= b[1] /\ b[2] <= C[e].next
      BY <1>1, <1>3, <1>6 DEF Grown, Same, HeapOK
    <3> QED BY <1>1, <1>2, <1>3, <1>6, <3>1, <3>2, CommittedBlocks
  <2>4. Same(mem'[e], C[e])
    BY <1>3, <1>4 DEF Same
  <2> QED BY <1>4, <2>1, <2>2, <2>3, <2>4 DEF Good
<1>10. Apart(K, G, C)
  <2>1. HeapOK(C[e])
    <3>1. /\ B[e].start \in Nat /\ B[e].next \in Nat /\ g.next \in Nat /\ B[e].next <= g.next /\ g.start = B[e].start
          /\ g.next <= g.end /\ B[e].start <= B[e].next
      BY <1>1, <1>6 DEF Grown, HeapOK, HeapType, Same
    <3> QED BY <1>3, <3>1 DEF HeapOK
  <2>2. \A x \in Live(K) : HeapOK(C[x]) /\ C[x].start = B[x].start /\ C[x].end = B[x].end
    <3>1. \A x \in Live(K) : HeapOK(B[x])
      BY <1>0 DEF Apart, Live
    <3>2. C[e].start = B[e].start /\ C[e].end = B[e].end
      BY <1>1, <1>3 DEF Grown, Same
    <3> QED BY <1>0, <1>3, <2>1, <3>1, <3>2
  <2>3. \A t \in 0 .. K - 1 : HeapOK(C[t]) /\ InArea(C[t], G)
    BY <1>0, <2>2 DEF Apart, InArea
  <2>4. \A t, u \in 0 .. K - 1 : t # u => Disjoint(<<C[t].start, C[t].end>>, <<C[u].start, C[u].end>>)
    BY <1>0, <2>2 DEF Apart
  <2> QED BY <1>0, <2>2, <2>3, <2>4 DEF Apart
<1>11. Counted(K, G, C)'
  <2>1. ~ InCritical(e)
    BY <1>1 DEF InCritical
  <2> QED BY <1>0, <1>4, <2>1, QuietFor DEF Counted, Quiet
<1>12. Core(K, G, C)'
  <2>1. \A x \in Live(K) : Good(x, K, G, C)'
    BY <1>5, <1>9
  <2> QED BY <1>0, <1>3, <1>4, <1>5, <1>10, <1>11, <2>1 DEF Core
<1>13. mem'[Flag]
  BY <1>4 DEF Ready
<1> QED BY <1>4, <1>5, <1>8, <1>12, <1>13 DEF IInv, Ready

\* Commit of a call that has created no task.
LEMMA RefuseCommit ==
  ASSUME Types, Turns, OneHandle, NEW K, NEW G, NEW B, Ready(K, G, B), NEW e \in Live(K), Commit(e),
         Working(e), Call(e).op = "create", mem[e] = B[e], Quiet(K, G), todo[e] = Refuse2
  PROVE  IInv'
<1>0. /\ Core(K, G, B) /\ e \in Exec /\ Good(e, K, G, B) /\ K \in 0 .. TaskLimit /\ B \in [Exec -> HeapType]
      /\ Apart(K, G, B)
  BY Objects DEF Ready, Core
<1>1. None \in Answer /\ \A t : None # Handle(t)
  BY EpilogueIs DEF None, Answer
<1>2. Committed(e, None, Ret(None))
  <2>1. Front(todo[e], Commits(None), Ret(None))
    BY CreateCodes
  <2> QED BY <1>0, <1>1, <2>1, CommitIs DEF Good
<1>3. /\ Runs(e) /\ bootDone' = bootDone /\ mem' = mem /\ ready' = ready /\ Types' /\ Stays(e, K) /\ Answers(e)'
  BY <1>2 DEF Committed
<1>4. /\ \A x \in Live(K) \ {e} : Good(x, K, G, B)'
      /\ \A x \in Exec \ {e} : Results(x)' = Results(x)
      /\ \A t \in Tid : t >= K => Untouched(t)'
      /\ Turns'
  <2>1. K \in K .. TaskLimit /\ AgreeBut(e, K, B, B)
    BY <1>0 DEF AgreeBut
  <2> QED BY <1>0, <1>3, <2>1, RestKept
<1>5. OneHandle'
  BY <1>0, <1>1, <1>2, <1>4, CommittedHandles
<1>6. Good(e, K, G, B)'
  <2>1. Place(e, K, G, B)'
    <3>1. Returning(e, B)'
      BY <1>0, <1>2, CommittedReturns
    <3> QED BY <3>1 DEF Place
  <2>2. OwnTasks(e, K)'
    <3>1. K \in Nat /\ K <= K /\ OwnTasks(e, K)
      BY <1>0 DEF Good
    <3> QED BY <1>1, <1>2, <3>1, CommittedTasks
  <2>3. OwnBlocks(e, B)'
    <3>1. OwnBlocks(e, B) /\ HeapOK(B[e]) /\ B[e] \in HeapType
      BY <1>0 DEF Good, Apart, Live
    <3>2. B[e].start <= B[e].next /\ B[e].next <= B[e].next
      BY <3>1 DEF HeapOK, HeapType
    <3>3. \A b \in None : Len(b) = 2 => B[e].next <= b[1] /\ b[2] <= B[e].next
      BY DEF None
    <3> QED BY <1>1, <1>2, <3>1, <3>2, <3>3, CommittedBlocks
  <2>4. Same(mem'[e], B[e])
    BY <1>3 DEF Same
  <2> QED BY <1>3, <2>1, <2>2, <2>3, <2>4 DEF Good
<1>7. Core(K, G, B)'
  <2>1. \A x \in Live(K) : Good(x, K, G, B)'
    BY <1>4, <1>6
  <2>2. Counted(K, G, B)'
    BY <1>3 DEF Counted, Quiet
  <2> QED BY <1>0, <1>3, <1>4, <2>1, <2>2 DEF Core
<1>8. mem'[Flag]
  BY <1>3 DEF Ready
<1> QED BY <1>3, <1>4, <1>5, <1>7, <1>8 DEF IInv, Ready

\* Commit of a call that has created a task: there is one task more.
LEMMA CreateCommit ==
  ASSUME Types, Turns, OneHandle, NEW K, NEW G, NEW B, Ready(K, G, B), NEW e \in Live(K), Commit(e),
         Working(e), Call(e).op = "create", mem[e] = B[e], K \in Tid, todo[e] = Create10(K), mem[Cnt] = K + 1,
         NEW f \in DOMAIN Programs, NEW k \in Nat, G.next + k <= G.end,
         \/ mem[Glob] = G /\ mem[K] = Empty(f)
         \/ mem[Glob] = Taken(G, k) /\ mem[K] = Region(f, G, k)
  PROVE  IInv'
<1>0. /\ Core(K, G, B) /\ e \in Exec /\ Good(e, K, G, B) /\ K \in 0 .. TaskLimit /\ B \in [Exec -> HeapType]
      /\ Apart(K, G, B) /\ G \in GlobRec /\ ready \subseteq 0 .. K - 1 /\ K \in Nat /\ K + 1 \in 0 .. TaskLimit
      /\ K \in Exec /\ K # e /\ K \notin Live(K) /\ Live(K) \subseteq Exec /\ K # Boot
      /\ \A x \in Live(K + 1) : x \in Live(K) \/ x = K
  <2>1. /\ Core(K, G, B) /\ K \in 0 .. TaskLimit /\ B \in [Exec -> HeapType] /\ Good(e, K, G, B)
        /\ Apart(K, G, B) /\ G \in GlobRec /\ ready \subseteq 0 .. K - 1
    BY DEF Ready, Core
  <2>2. K \in Nat /\ K + 1 \in 0 .. TaskLimit
    BY HeapAssumption DEF Tid
  <2>3. e \in Exec /\ K \in Exec /\ K \notin Live(K) /\ K # e /\ Live(K) \subseteq Exec /\ K # Boot
    BY <2>1, <2>2, Objects
  <2>4. \A x \in Live(K + 1) : x \in Live(K) \/ x = K
    BY <2>2 DEF Live
  <2> QED BY <2>1, <2>2, <2>3, <2>4
<1>1. PICK H, h : H = mem[Glob] /\ h = mem[K]
  OBVIOUS
<1>2. /\ H \in GlobRec /\ h \in HeapType /\ G.next <= H.next /\ H.next <= H.end /\ H.end = G.end /\ HeapOK(h)
      /\ (h.start = 0 /\ h.end = 0) \/ (h.start = G.next /\ h.end = H.next)
  <2>1. /\ G.next \in Nat /\ G.end \in Nat /\ G.next <= G.end
    BY <1>0 DEF GlobRec, Apart
  <2>2. CASE mem[Glob] = G /\ mem[K] = Empty(f)
    <3>1. Empty(f) \in HeapType /\ Empty(f).start = 0 /\ Empty(f).end = 0 /\ Empty(f).next = 0
      BY <1>0, NewHeaps DEF Empty
    <3> QED BY <1>0, <1>1, <2>1, <2>2, <3>1 DEF HeapOK
  <2>3. CASE mem[Glob] = Taken(G, k) /\ mem[K] = Region(f, G, k)
    <3>1. /\ Region(f, G, k) \in HeapType /\ Region(f, G, k).start = G.next
          /\ Region(f, G, k).end = G.next + k /\ Region(f, G, k).next = G.next
      BY <1>0, NewHeaps DEF Region
    <3>2. Taken(G, k) \in GlobRec /\ Taken(G, k).next = G.next + k /\ Taken(G, k).end = G.end
      BY <1>0, NewHeaps
    <3> QED BY <1>1, <2>1, <2>3, <3>1, <3>2 DEF HeapOK
  <2> QED BY <2>2, <2>3
<1> DEFINE C == [B EXCEPT ![K] = h]
<1>3. C \in [Exec -> HeapType] /\ C[K] = h /\ \A x \in Exec \ {K} : C[x] = B[x]
  BY <1>0, <1>2
<1> HIDE DEF C
<1>4. Handle(K) \in Answer /\ \A t \in Tid : Handle(K) = Handle(t) => t = K
  <2>1. ASSUME NEW t \in Tid, Handle(K) = Handle(t) PROVE t = K
    <3>1. <<t>> = <<K>>
      BY <2>1 DEF Handle
    <3> QED BY <3>1
  <2>2. <<K>> \in Seq(Nat)
    BY <1>0
  <2> QED BY <2>1, <2>2 DEF Handle, Answer
<1>5. Committed(e, Handle(K), Create11(K))
  <2>1. Front(todo[e], Commits(Handle(K)), Create11(K))
    BY CreateCodes
  <2> QED BY <1>0, <1>4, <2>1, CommitIs DEF Good
<1>6. /\ Runs(e) /\ bootDone' = bootDone /\ mem' = mem /\ ready' = ready /\ Types' /\ Answers(e)' /\ Stays(e, K)
  BY <1>5 DEF Committed
<1>7. /\ \A x \in Live(K) \ {e} : Good(x, K + 1, H, C)'
      /\ \A x \in Exec \ {e} : Results(x)' = Results(x)
      /\ \A t \in Tid : t >= K => Untouched(t)'
      /\ Turns'
  <2>1. K + 1 \in K .. TaskLimit
    BY <1>0
  <2>2. AgreeBut(e, K, B, C)
    BY <1>0, <1>3 DEF AgreeBut
  <2> QED BY <1>0, <1>6, <2>1, <2>2, RestKept
<1>8. \A x \in Exec : \A i \in 1 .. Len(Results(x)) : Results(x)[i] # Handle(K)
  <2> SUFFICES ASSUME NEW x \in Exec, NEW i \in 1 .. Len(Results(x)) PROVE Results(x)[i] # Handle(K)
    OBVIOUS
  <2>1. CASE x \in Live(K)
    <3>1. OwnTasks(x, K)
      BY <1>0, <2>1 DEF Core, Good
    <3>2. ~ (K < K)
      BY <1>0
    <3> QED BY <3>1, <3>2 DEF OwnTasks
  <2>2. CASE x \notin Live(K)
    <3>1. Untouched(x)
      BY <1>0, <2>2, Objects DEF Core
    <3>2. Len(Results(x)) = 0
      <4>1. Len(replay[x]) = 0 /\ Len(cache[x]) = 0
        BY <3>1, EmptySeq DEF Untouched
      <4>2. Len(Results(x)) = Len(replay[x]) + Len(cache[x])
        BY ResultsIs
      <4> QED BY <4>1, <4>2
    <3> QED BY <3>2
  <2> QED BY <2>1, <2>2
<1>9. OneHandle'
  <2>1. \A t \in Tid : Handle(K) = Handle(t) =>
           \A x \in Exec : \A i \in 1 .. Len(Results(x)) : Results(x)[i] # Handle(t)
    BY <1>4, <1>8
  <2> QED BY <1>0, <1>5, <1>7, <2>1, CommittedHandles
<1>10. Good(e, K + 1, H, C)'
  <2>1. Place(e, K + 1, H, C)'
    <3>1. Returning(e, C)'
      BY <1>0, <1>3, <1>5, CommittedReturns
    <3> QED BY <3>1 DEF Place
  <2>2. OwnTasks(e, K + 1)'
    <3>1. K \in Nat /\ K + 1 \in Nat /\ K <= K + 1 /\ OwnTasks(e, K) /\ K < K + 1
      BY <1>0 DEF Good
    <3>2. \A t \in Tid : Handle(K) = Handle(t) => t < K + 1
      BY <1>4, <3>1
    <3> QED BY <1>5, <3>1, <3>2, CommittedTasks
  <2>3. OwnBlocks(e, C)'
    <3>1. OwnBlocks(e, B) /\ HeapOK(B[e]) /\ B[e] \in HeapType /\ C[e] = B[e]
      BY <1>0, <1>3 DEF Good, Apart, Live
    <3>2. B[e].start <= B[e].next /\ B[e].next <= B[e].next
      BY <3>1 DEF HeapOK, HeapType
    <3>3. \A b \in Handle(K) : Len(b) = 2 => B[e].next <= b[1] /\ b[2] <= C[e].next
      <4>1. \A b \in Handle(K) : Len(b) = 1
        BY DEF Handle
      <4> QED BY <4>1
    <3> QED BY <1>4, <1>5, <3>1, <3>2, <3>3, CommittedBlocks
  <2>4. Same(mem'[e], C[e])
    BY <1>0, <1>3, <1>6 DEF Same
  <2> QED BY <1>6, <2>1, <2>2, <2>3, <2>4 DEF Good
<1>11. Good(K, K + 1, H, C)'
  <2>1. Untouched(K)'
    BY <1>0, <1>7
  <2>2. Results(K)' = <<>> /\ Len(<<>>) = 0
    <3>1. Len(Results(K)') = 0 /\ Results(K)' = <<>> \o <<>>
      BY <2>1, EmptySeq DEF Untouched, Results
    <3>2. <<>> \o <<>> = <<>>
      BY Tuple0, Cat
    <3> QED BY <3>1, <3>2, EmptySeq
  <2>3. Place(K, K + 1, H, C)'
    BY <1>1, <1>3, <1>6, <2>1 DEF Untouched, Place, Off, Clean
  <2>4. Len(Prog(K)') \in Nat
    BY <1>0, <1>6, ProgIs DEF Prog
  <2>5. Answers(K)'
    BY <1>0, <2>1, <2>2, <2>4 DEF Answers, Untouched
  <2>6. OwnBlocks(K, C)' /\ OwnTasks(K, K + 1)'
    BY <2>2 DEF OwnBlocks, OwnTasks
  <2>7. Same(mem'[K], C[K])
    BY <1>1, <1>3, <1>6 DEF Same
  <2> QED BY <2>3, <2>5, <2>6, <2>7 DEF Good
<1>12. Apart(K + 1, H, C)
  <2>0. /\ G.next \in Nat /\ G.end \in Nat /\ H.next \in Nat /\ H.end \in Nat /\ PmStart <= G.next /\ PmStart \in Nat
        /\ G.end = PmStart + PmSize /\ h.start \in Nat /\ h.end \in Nat
    BY <1>0, <1>2, HeapAssumption DEF Apart, GlobRec, PmStart, BootStart, HeapType
  <2>1. PmStart <= H.next /\ H.next <= H.end /\ H.end = PmStart + PmSize
    BY <1>2, <2>0
  <2>2. HeapOK(C[Boot])
    BY <1>0, <1>3, Objects DEF Apart
  <2>3. \A t \in 0 .. K : t \in 0 .. K - 1 \/ t = K
    BY <1>0
  <2>4. \A t \in 0 .. K - 1 : C[t] = B[t] /\ B[t] \in HeapType
    BY <1>0, <1>3 DEF Live
  <2>5. ASSUME NEW t \in 0 .. K - 1
        PROVE  /\ B[t].start \in Nat /\ B[t].end \in Nat /\ HeapOK(B[t])
               /\ \/ B[t].start = 0 /\ B[t].end = 0
                  \/ PmStart <= B[t].start /\ B[t].start <= B[t].end /\ B[t].end <= G.next
    BY <1>0, <2>4 DEF Apart, InArea, HeapType
  <2>6. ASSUME NEW t \in 0 .. K - 1
        PROVE  HeapOK(C[t]) /\ InArea(C[t], H) /\ Disjoint(<<C[t].start, C[t].end>>, <<h.start, h.end>>)
    <3>1. InArea(B[t], H)
      BY <1>2, <2>0, <2>5 DEF InArea
    <3>2. B[t].end <= h.start \/ h.end <= B[t].start
      BY <1>2, <2>0, <2>5
    <3>3. Disjoint(<<B[t].start, B[t].end>>, <<h.start, h.end>>)
      BY <3>2 DEF Disjoint
    <3> QED BY <2>4, <2>5, <3>1, <3>3
  <2>7. HeapOK(h) /\ InArea(h, H)
    BY <1>2, <2>0 DEF InArea
  <2>8. \A t \in 0 .. K : HeapOK(C[t]) /\ InArea(C[t], H)
    BY <1>3, <2>3, <2>6, <2>7
  <2>9. ASSUME NEW t \in 0 .. K, NEW u \in 0 .. K, t # u
        PROVE  Disjoint(<<C[t].start, C[t].end>>, <<C[u].start, C[u].end>>)
    <3>1. CASE t \in 0 .. K - 1 /\ u \in 0 .. K - 1
      BY <1>0, <2>4, <2>9, <3>1 DEF Apart
    <3>2. CASE t \in 0 .. K - 1 /\ u = K
      BY <1>3, <2>6, <3>2
    <3>3. CASE t = K /\ u \in 0 .. K - 1
      <4>1. Disjoint(<<C[u].start, C[u].end>>, <<h.start, h.end>>)
        BY <2>6, <3>3
      <4> QED BY <1>3, <3>3, <4>1 DEF Disjoint
    <3> QED BY <2>3, <2>9, <3>1, <3>2, <3>3
  <2>10. 0 .. (K + 1) - 1 = 0 .. K
    BY <1>0
  <2> QED BY <2>1, <2>2, <2>8, <2>9, <2>10 DEF Apart
<1>13. Core(K + 1, H, C)'
  <2>1. \A x \in Live(K + 1) : Good(x, K + 1, H, C)'
    BY <1>0, <1>7, <1>10, <1>11
  <2>2. Counted(K + 1, H, C)'
    BY <1>1, <1>6 DEF Counted, Quiet
  <2>3. \A t \in Tid : t >= K + 1 => Untouched(t)'
    BY <1>0, <1>7, HeapAssumption DEF Tid
  <2>4. ready' \subseteq 0 .. (K + 1) - 1
    BY <1>0, <1>6
  <2> QED BY <1>0, <1>2, <1>3, <1>12, <2>1, <2>2, <2>3, <2>4 DEF Core
<1>14. mem'[Flag]
  BY <1>6 DEF Ready
<1> QED BY <1>6, <1>7, <1>9, <1>13, <1>14 DEF IInv, Ready

\* AppendLog.
LEMMA AppendLogStep ==
  ASSUME Types, Turns, OneHandle, NEW K, NEW G, NEW B, Ready(K, G, B), NEW e \in Exec, AppendLog(e)
  PROVE  IInv'
<1>1. Advance(e, "log") /\ e \in Live(K) /\ Place(e, K, G, B)
  BY RunsLive DEF AppendLog, Advance, Good
<1>2. \/ \E f, g, r : /\ Allocating(e, B, f, g, r)
                      /\ todo[e] = Alloc1(e, f, g, r) \/ todo[e] = Alloc3(e, g, r)
      \/ \E f, k : Creating(e, K, G, B, f, k)
  BY <1>1, KindOf
<1>3. ASSUME NEW f, NEW g, NEW r, Allocating(e, B, f, g, r),
             todo[e] = Alloc1(e, f, g, r) \/ todo[e] = Alloc3(e, g, r)
      PROVE  IInv'
  BY <1>1, <1>3, AllocLog
<1>4. ASSUME NEW f, NEW k, Creating(e, K, G, B, f, k) PROVE IInv'
  BY <1>1, <1>4, CreateLog
<1> QED BY <1>2, <1>3, <1>4

\* Store.
LEMMA StoreStep ==
  ASSUME Types, Turns, OneHandle, NEW K, NEW G, NEW B, Ready(K, G, B), NEW e \in Exec, Store(e)
  PROVE  IInv'
<1>1. Advance(e, "set") /\ e \in Live(K) /\ Place(e, K, G, B)
  BY RunsLive DEF Store, Advance, Good
<1>2. \/ \E f, g, r : /\ Allocating(e, B, f, g, r)
                      /\ todo[e] = Alloc2(e, f, g, r) \/ todo[e] = Alloc4(e, g, r)
      \/ \E f, k : Creating(e, K, G, B, f, k)
  BY <1>1, KindOf
<1>3. ASSUME NEW f, NEW g, NEW r, Allocating(e, B, f, g, r),
             todo[e] = Alloc2(e, f, g, r) \/ todo[e] = Alloc4(e, g, r)
      PROVE  IInv'
  BY <1>1, <1>3, AllocStore
<1>4. ASSUME NEW f, NEW k, Creating(e, K, G, B, f, k) PROVE IInv'
  BY <1>1, <1>4, CreateStore
<1> QED BY <1>2, <1>3, <1>4

\* Commit.
LEMMA CommitStep ==
  ASSUME Types, Turns, OneHandle, NEW K, NEW G, NEW B, Ready(K, G, B), NEW e \in Exec, Commit(e)
  PROVE  IInv'
<1>1. Advance(e, "commit") /\ e \in Live(K) /\ Place(e, K, G, B)
  BY RunsLive DEF Commit, Advance, Good
<1>2. \/ \E f, g, r : Allocating(e, B, f, g, r) /\ todo[e] = Alloc5(r) /\ mem[e] = g
      \/ \E f, k : Creating(e, K, G, B, f, k)
  BY <1>1, KindOf
<1>3. CASE \E f, g, r : Allocating(e, B, f, g, r) /\ todo[e] = Alloc5(r) /\ mem[e] = g
  BY <1>1, <1>3, AllocCommit
<1>4. ASSUME NEW f, NEW k, Creating(e, K, G, B, f, k) PROVE IInv'
  <2>1. Working(e) /\ Call(e).op = "create" /\ mem[e] = B[e]
    BY <1>4 DEF Creating
  <2>2. \/ todo[e] = Refuse2 /\ Quiet(K, G)
        \/ /\ K \in Tid /\ f \in DOMAIN Programs /\ k \in Nat /\ G.next + k <= G.end
           /\ todo[e] = Create10(K) /\ mem[Cnt] = K + 1
           /\ \/ mem[Glob] = G /\ mem[K] = Empty(f)
              \/ mem[Glob] = Taken(G, k) /\ mem[K] = Region(f, G, k)
    BY <1>1, <1>4, CreateSteps DEF Creating, Refusing, Counting, Carving
  <2>3. CASE todo[e] = Refuse2 /\ Quiet(K, G)
    BY <1>1, <2>1, <2>3, RefuseCommit
  <2>4. CASE /\ K \in Tid /\ f \in DOMAIN Programs /\ k \in Nat /\ G.next + k <= G.end
             /\ todo[e] = Create10(K) /\ mem[Cnt] = K + 1
             /\ \/ mem[Glob] = G /\ mem[K] = Empty(f)
                \/ mem[Glob] = Taken(G, k) /\ mem[K] = Region(f, G, k)
    BY <1>1, <2>1, <2>4, CreateCommit
  <2> QED BY <2>2, <2>3, <2>4
<1> QED BY <1>2, <1>3, <1>4

(***************************************************************************)
(* A power failure.                                                        *)
(***************************************************************************)
\* the heap of x is what it will be again, or its journal says so
Restorable(x, B) == Clean(x, B) \/ (x # Boot /\ Logged(x, B))

\* The heaps after a failure.
LEMMA FailureHeaps ==
  ASSUME Types, Turns, NEW K, NEW G, NEW B, Core(K, G, B), PowerFailure
  PROVE  /\ DOMAIN mem' = Obj /\ DOMAIN log' = Exec /\ mem'[Flag] = mem[Flag] /\ Quiet(K, G)'
         /\ \A x \in Live(K) : Restorable(x, B)' /\ (mem'[x] = mem[x] \/ mem'[x] = B[x])
         /\ \A x \in Exec \ Live(K) : mem'[x] = mem[x] /\ log'[x] = log[x]
<1>0. /\ open' = open /\ K \in 0 .. TaskLimit /\ Live(K) \subseteq Exec /\ Boot \in Live(K)
      /\ \A x \in Live(K) : Place(x, K, G, B)
      /\ \A t \in Tid : t >= K => Untouched(t)
      /\ \A x \in Exec : x \in Live(K) \/ (x \in Tid /\ x >= K)
  BY Objects DEF PowerFailure, Core, Good
<1>1. ASSUME NEW x \in Live(K), x # Boot \/ todo[Boot] = <<>>, ~ InCritical(x), mem'[x] = mem[x], log'[x] = log[x]
      PROVE  Restorable(x, B)'
  <2>1. Restorable(x, B)
    <3>1. CASE x = Boot
      BY <1>0, <1>1, <3>1, AtRest DEF Restorable
    <3>2. CASE x # Boot
      <4>1. \A f, k : ~ Creating(x, K, G, B, f, k)
        BY <1>1, CreatingIs
      <4>2. Clean(x, B) \/ Logged(x, B)
        BY <1>0, <4>1 DEF Place, Off, Idle, Returning, Allocating, AllocatingAs
      <4> QED BY <3>2, <4>2 DEF Restorable
    <3> QED BY <3>1, <3>2
  <2> QED BY <1>0, <1>1, <2>1 DEF Restorable, Clean, Logged
<1>2. ASSUME NEW e \in Live(K), Recovered(e), \A x \in Live(K) \ {e} : ~ InCritical(x),
             e = Boot \/ todo[Boot] = <<>>
      PROVE  /\ DOMAIN mem' = Obj /\ DOMAIN log' = Exec /\ mem'[Flag] = mem[Flag] /\ Quiet(K, G)'
             /\ \A x \in Live(K) : Restorable(x, B)' /\ (mem'[x] = mem[x] \/ mem'[x] = B[x])
             /\ \A x \in Exec \ Live(K) : mem'[x] = mem[x] /\ log'[x] = log[x]
  <2>1. /\ DOMAIN mem' = Obj /\ DOMAIN log' = Exec /\ mem'[Flag] = mem[Flag] /\ Quiet(K, G)'
        /\ mem'[e] = B[e] /\ log'[e] = <<>>
        /\ \A x \in Exec \ {e} : mem'[x] = mem[x] /\ log'[x] = log[x]
    BY <1>2, RecoverIs
  <2>2. Restorable(e, B)'
    BY <2>1 DEF Restorable, Clean
  <2>3. \A x \in Live(K) \ {e} : Restorable(x, B)'
    BY <1>0, <1>1, <1>2, <2>1
  <2> QED BY <1>0, <2>1, <2>2, <2>3
<1>3. CASE ~ bootDone
  <2>1. Recovered(Boot)
    BY <1>3 DEF PowerFailure
  <2>2. \A x \in Live(K) \ {Boot} : ~ InCritical(x)
    <3>1. \A x \in Live(K) \ {Boot} : x \in Tid
      BY <1>0 DEF Exec
    <3> QED BY <1>3, <3>1 DEF Turns, InCritical
  <2> QED BY <1>0, <1>2, <2>1, <2>2
<1>4. ASSUME bootDone, NEW e \in Tid, InCritical(e), Recovered(e)
      PROVE  /\ e \in Live(K) /\ todo[Boot] = <<>>
             /\ \A x \in Live(K) \ {e} : ~ InCritical(x)
  <2>1. e \in Exec /\ todo[Boot] = <<>>
    BY <1>4, Objects DEF Turns
  <2>2. e \in Live(K)
    BY <1>0, <1>4, <2>1 DEF InCritical, Untouched
  <2> QED BY <1>0, <1>4, <2>1, <2>2 DEF Turns
<1>5. CASE bootDone /\ (\A e \in Tid : ~ InCritical(e)) /\ UNCHANGED <<mem, log>>
  <2>1. todo[Boot] = <<>>
    BY <1>5 DEF Turns
  <2>2. \A x \in Live(K) : ~ InCritical(x)
    <3>1. \A x \in Live(K) : x \in Tid \/ x = Boot
      BY <1>0 DEF Exec
    <3> QED BY <1>5, <2>1, <3>1 DEF InCritical
  <2>3. Quiet(K, G)'
    BY <1>5, <2>2, QuietIs DEF Quiet
  <2>4. \A x \in Live(K) : Restorable(x, B)'
    BY <1>1, <1>5, <2>1, <2>2
  <2> QED BY <1>5, <2>3, <2>4 DEF Types
<1>6. \/ ~ bootDone
      \/ bootDone /\ \E e \in Tid : InCritical(e) /\ Recovered(e)
      \/ bootDone /\ (\A e \in Tid : ~ InCritical(e)) /\ UNCHANGED <<mem, log>>
  BY DEF PowerFailure
<1> QED BY <1>2, <1>3, <1>4, <1>5, <1>6

\* A power failure, once the heaps have been initialised.
LEMMA FailureStep ==
  ASSUME Types, Turns, OneHandle, NEW K, NEW G, NEW B, Ready(K, G, B), PowerFailure
  PROVE  IInv'
<1>0. /\ Core(K, G, B) /\ mem[Flag] /\ K \in 0 .. TaskLimit /\ Live(K) \subseteq Exec /\ G \in GlobRec
      /\ B \in [Exec -> HeapType] /\ K \in Nat
      /\ \A x \in Exec : x \in Live(K) \/ (x \in Tid /\ x >= K)
      /\ \A t \in Tid : t >= K => t \in Exec \ Live(K) /\ Untouched(t)
  BY Objects DEF Ready, Core
<1>1. /\ alive' = [x \in Exec |-> FALSE] /\ todo' = [x \in Exec |-> <<>>] /\ given' = [x \in Exec |-> <<>>]
      /\ UNCHANGED <<bootDone, ready, open, cache, replay, seen>>
  BY DEF PowerFailure
<1>2. /\ DOMAIN mem' = Obj /\ DOMAIN log' = Exec /\ mem'[Flag] = mem[Flag] /\ Quiet(K, G)'
      /\ \A x \in Live(K) : Restorable(x, B)' /\ (mem'[x] = mem[x] \/ mem'[x] = B[x])
      /\ \A x \in Exec \ Live(K) : mem'[x] = mem[x] /\ log'[x] = log[x]
  BY <1>0, FailureHeaps
<1>3. \A x \in Exec : ~ alive'[x] /\ todo'[x] = <<>> /\ given'[x] = <<>> /\ Len(given'[x]) = 0
  BY <1>1, EmptySeq
<1>4. Types'
  <2>1. \A x \in Exec : mem'[x] \in HeapType
    BY <1>0, <1>2 DEF Types
  <2>2. mem'[Cnt] \in Nat /\ mem'[Glob] \in GlobRec /\ mem'[Flag] \in BOOLEAN
    BY <1>0, <1>2 DEF Quiet, Types
  <2>3. given' \in [Exec -> Seq(Answer)] /\ alive' \in [Exec -> BOOLEAN] /\ DOMAIN todo' = Exec
    BY <1>1, EmptySeq
  <2> QED BY <1>1, <1>2, <2>1, <2>2, <2>3 DEF Types
<1>5. \A x : Results(x)' = Results(x)
  BY <1>1 DEF Results
<1>6. OneHandle'
  BY <1>5 DEF OneHandle
<1>7. Turns'
  BY <1>3, Objects DEF Turns, InCritical
<1>8. ASSUME NEW x \in Live(K) PROVE Good(x, K, G, B)'
  <2>0. Good(x, K, G, B) /\ x \in Exec
    BY <1>0 DEF Core
  <2>1. Same(mem'[x], B[x])
    BY <1>2, <2>0 DEF Good, Same
  <2>2. Prog(x)' = Prog(x)
    BY <2>0, <2>1 DEF Good, Same, Prog
  <2>3. Place(x, K, G, B)'
    BY <1>2, <1>3, <2>0 DEF Restorable, Place, Off
  <2>4. Answers(x)'
    <3>1. seen'[x] = seen[x] /\ cache'[x] = cache[x] /\ replay'[x] = replay[x] /\ Answers(x)
      BY <1>1, <2>0 DEF Good
    <3>2. 0 <= Len(seen[x]) /\ 0 <= Len(replay[x]) /\ \A i : i \notin 1 .. 0
      BY <2>0, ResultsIs
    <3> QED BY <1>3, <1>5, <2>0, <2>2, <3>1, <3>2 DEF Answers
  <2>5. OwnBlocks(x, B)' /\ OwnTasks(x, K)'
    BY <1>5, <2>0, <2>2 DEF Good, OwnBlocks, OwnTasks
  <2> QED BY <2>1, <2>3, <2>4, <2>5 DEF Good
<1>9. \A t \in Tid : t >= K => Untouched(t)'
  BY <1>0, <1>1, <1>2, <1>3 DEF Untouched
<1>10. Core(K, G, B)'
  <2>1. Counted(K, G, B)'
    BY <1>2 DEF Counted
  <2> QED BY <1>0, <1>1, <1>8, <1>9, <2>1 DEF Core
<1> QED BY <1>0, <1>2, <1>4, <1>6, <1>7, <1>10 DEF IInv, Ready

(***************************************************************************)
(* heap::init, the first time.                                             *)
(***************************************************************************)
\* The heap and the area it makes.
LEMMA FirstHeaps ==
  /\ PmStart \in Nat /\ BootHeap \in HeapType /\ HeapOK(BootHeap) /\ BootHeap.func = NoFunc
  /\ Area \in GlobRec /\ Area.next = PmStart /\ Area.end = PmStart + PmSize /\ PmStart <= PmStart + PmSize
<1>1. BootSize \in Nat /\ PmSize \in Nat /\ BootStart = 1 /\ PmStart = 1 + BootSize
  BY Objects DEF BootStart, PmStart
<1> QED BY <1>1 DEF BootHeap, HeapType, HeapOK, Area, GlobRec

\* Its steps are those of the invariant.
LEMMA FirstInitIs ==
  ASSUME Types, mem[Boot].func = NoFunc
  PROVE  \E f, h, g : /\ f \in HeapType /\ h \in HeapType /\ g \in GlobRec
                      /\ f.func = NoFunc /\ h.func = NoFunc
                      /\ FirstInit = Init1(f, h, g)
<1> DEFINE m == mem[Boot]
           a == BootStart
           b == BootStart + BootSize
<1>1. m \in HeapType /\ a \in Nat /\ b \in Nat /\ mem[Glob] \in GlobRec /\ m.func = NoFunc
  BY Objects DEF Types, BootStart
<1>2. PICK s \in Nat, t \in Nat, n \in Nat : m = Rec(s, t, n, NoFunc)
  <2>1. m.start \in Nat /\ m.end \in Nat /\ m.next \in Nat /\ m = Rec(m.start, m.end, m.next, NoFunc)
    BY <1>1 DEF HeapType, Rec
  <2> QED BY <2>1
<1> DEFINE f == [m EXCEPT !.start = a]
           h == Rec(a, b, n, NoFunc)
           g == [mem[Glob] EXCEPT !.next = PmStart]
           tl == <<Set(Glob, g), Set(Glob, Area), Set(Flag, TRUE)>>
<1>3. f \in HeapType /\ f.func = NoFunc
  BY <1>1 DEF HeapType
<1>4. h \in HeapType /\ h.func = NoFunc
  BY <1>1, <1>2 DEF HeapType, Rec
<1>5. g \in GlobRec
  BY <1>1, FirstHeaps DEF GlobRec
<1>6. /\ [m EXCEPT !.start = a, !.end = b] = h
      /\ [m EXCEPT !.start = a, !.end = b, !.next = a] = BootHeap
  <2>1. First2(Rec(s, t, n, NoFunc), a, b) = h /\ First3(Rec(s, t, n, NoFunc), a, b) = BootHeap
    <3>1. Rec(a, b, a, NoFunc) = BootHeap
      BY DEF Rec, BootHeap
    <3> HIDE DEF a, b, m
    <3>2. First2(Rec(s, t, n, NoFunc), a, b) = Rec(a, b, n, NoFunc)
      BY HeapRec
    <3>3. First3(Rec(s, t, n, NoFunc), a, b) = Rec(a, b, a, NoFunc)
      BY HeapRec
    <3> QED BY <3>1, <3>2, <3>3
  <2> HIDE DEF m, h
  <2> QED BY <1>2, <2>1 DEF First2, First3
<1>7. InitHeap(Boot, m, a, BootSize) = <<Set(Boot, f), Set(Boot, h), Set(Boot, BootHeap)>>
  BY <1>6 DEF InitHeap
<1>8. FirstInit = <<Set(Boot, f), Set(Boot, h), Set(Boot, BootHeap)>> \o tl
  BY <1>7 DEF FirstInit, Area
<1>9. tl = Init4(g)
  <2> HIDE DEF g
  <2>1. tl = <<Set(Glob, g)>> \o <<Set(Glob, Area), Set(Flag, TRUE)>>
    <3>1. ASSUME NEW x, NEW y, NEW z PROVE <<x, y, z>> = <<x>> \o <<y, z>>
      BY Tuple3
    <3> QED BY <3>1
  <2>2. <<Set(Glob, Area), Set(Flag, TRUE)>> = <<Set(Glob, Area)>> \o <<Set(Flag, TRUE)>>
    BY Tuple2
  <2> QED BY <2>1, <2>2 DEF Init4, Init5, Init6
<1>10. IsSeq(Init4(g))
  BY InitCodes DEF Front
<1>11. FirstInit = Init1(f, h, g)
  <2> HIDE DEF f, h, g, tl
  <2> QED BY <1>8, <1>9, <1>10, Joins DEF Init1, Init2, Init3
<1> HIDE DEF f, h, g
<1> QED BY <1>3, <1>4, <1>5, <1>11

\* While it runs, boot is at a store of it.
LEMMA FirstSteps ==
  ASSUME NEW f, NEW h, NEW g, Initialising(f, h, g)
  PROVE  todo[Boot] # <<>> /\ Head(todo[Boot]).step = "set"
<1>1. /\ Front(Init1(f, h, g), Set(Boot, f), Init2(h, g)) /\ Front(Init2(h, g), Set(Boot, h), Init3(g))
      /\ Front(Init3(g), Set(Boot, BootHeap), Init4(g)) /\ Front(Init4(g), Set(Glob, g), Init5)
      /\ Front(Init5, Set(Glob, Area), Init6) /\ Front(Init6, Set(Flag, TRUE), <<>>)
  BY InitCodes
<1>2. \A o, v : Set(o, v).step = "set"
  BY Kinds
<1> QED BY <1>1, <1>2 DEF Initialising, Front

\* Before it is done nothing but boot runs, and boot does nothing else.
LEMMA FreshActs ==
  ASSUME Fresh, NEW e \in Exec, Step(e)
  PROVE  e = Boot /\ (StartBoot \/ Store(Boot))
<1>1. Runs(e) => e = Boot
  BY DEF Fresh, Runs
<1>2. alive[Boot] => todo[Boot] # <<>> /\ Head(todo[Boot]).step = "set"
  BY FirstSteps DEF Fresh
<1>3. ~ alive[Boot] => todo[Boot] = <<>>
  BY DEF Fresh
<1>4. ~ BetweenCalls(e) /\ ~ BetweenCalls(Boot)
  BY <1>1, <1>2 DEF BetweenCalls
<1>5. \A s : Advance(e, s) => e = Boot /\ s = "set"
  BY <1>1, <1>2, <1>3 DEF Advance
<1>6. ~ Replay(e) /\ ~ Bypass(e) /\ ~ Begin(e) /\ ~ CompleteFirstBoot
  BY <1>4 DEF Replay, Bypass, Begin, CompleteFirstBoot
<1>7. ~ AppendLog(e) /\ ~ Commit(e) /\ ~ Insert(e) /\ ~ Return(e)
  BY <1>5 DEF AppendLog, Commit, Insert, Return
<1>8. ~ JitRecovery(e)
  BY <1>1 DEF JitRecovery
<1>9. Store(e) => e = Boot
  BY <1>5 DEF Store
<1> QED BY <1>6, <1>7, <1>8, <1>9 DEF Step

\* what remains as it was until it is done
FreshRest ==
    /\ DOMAIN mem' = Obj /\ mem'[Cnt] = mem[Cnt] /\ mem'[Flag] = mem[Flag]
    /\ \A t \in Tid : mem'[t] = mem[t] /\ todo'[t] = <<>> /\ ~ alive'[t]
    /\ DOMAIN todo' = Exec /\ DOMAIN log' = Exec /\ alive' \in [Exec -> BOOLEAN]
    /\ given' \in [Exec -> Seq(Answer)]
    /\ \A x \in Exec : log'[x] = <<>> /\ given'[x] = <<>>
    /\ UNCHANGED <<bootDone, ready, open, cache, replay, seen>>

\* Boot is somewhere in heap::init.
LEMMA FreshKept ==
  ASSUME Types, Turns, OneHandle, Fresh, ~ mem[Flag], FreshRest,
         mem'[Boot] \in HeapType, mem'[Boot].func = NoFunc, mem'[Glob] \in GlobRec,
         IF alive'[Boot] THEN (\E f, h, g : Initialising(f, h, g)') ELSE todo'[Boot] = <<>>
  PROVE  IInv'
<1>0. /\ Exec = Tid \cup {Boot} /\ Boot \in Exec /\ Tid \subseteq Exec
      /\ UNCHANGED <<bootDone, ready, open, cache, replay, seen>>
  BY Objects DEF Exec, FreshRest
<1>1. Types'
  <2>1. \A x \in Exec : mem'[x] \in HeapType
    BY <1>0 DEF Types, FreshRest
  <2>2. mem'[Cnt] \in Nat /\ mem'[Flag] \in BOOLEAN
    BY DEF Types, FreshRest
  <2> QED BY <1>0, <2>1, <2>2 DEF Types, FreshRest
<1>2. Turns'
  <2>1. ~ bootDone'
    BY <1>0 DEF Fresh
  <2>2. \A t \in Tid : todo'[t] = <<>>
    BY DEF FreshRest
  <2>3. \A x \in Exec : InCritical(x)' => x = Boot
    BY <1>0, <2>2 DEF InCritical
  <2> QED BY <2>1, <2>2, <2>3 DEF Turns
<1>3. OneHandle'
  <2>1. \A x : Results(x)' = Results(x)
    BY <1>0 DEF Results
  <2> QED BY <2>1 DEF OneHandle
<1>4. \A t \in Tid : Untouched(t)'
  BY <1>0 DEF Fresh, Untouched, FreshRest
<1>5. Fresh'
  BY <1>0, <1>4 DEF Fresh, FreshRest
<1>6. ~ mem'[Flag]
  BY DEF FreshRest
<1> QED BY <1>1, <1>2, <1>3, <1>5, <1>6 DEF IInv

\* The start of boot.
LEMMA FreshStart ==
  ASSUME Types, Turns, OneHandle, Fresh, ~ mem[Flag], StartBoot
  PROVE  IInv'
<1>0. /\ alive' = [alive EXCEPT ![Boot] = TRUE] /\ todo' = [todo EXCEPT ![Boot] = FirstInit]
      /\ UNCHANGED <<mem, bootDone, ready, log, open, cache, replay, given, seen>>
  BY DEF StartBoot, persistent
<1>1. /\ Exec = Tid \cup {Boot} /\ Boot \in Exec /\ Boot \notin Tid
      /\ \A t \in Tid : Untouched(t)
      /\ log[Boot] = <<>> /\ given[Boot] = <<>> /\ mem[Boot].func = NoFunc
  BY Objects DEF Exec, Fresh
<1>2. /\ alive'[Boot] /\ alive' \in [Exec -> BOOLEAN] /\ \A t \in Tid : ~ alive'[t]
      /\ todo'[Boot] = FirstInit /\ DOMAIN todo' = Exec /\ \A t \in Tid : todo'[t] = <<>>
  BY <1>0, <1>1 DEF Types, Untouched
<1>3. FreshRest
  BY <1>0, <1>1, <1>2 DEF FreshRest, Types, Untouched
<1>4. PICK f, h, g : /\ f \in HeapType /\ h \in HeapType /\ g \in GlobRec
                     /\ f.func = NoFunc /\ h.func = NoFunc
                     /\ FirstInit = Init1(f, h, g)
  BY <1>1, FirstInitIs
<1>5. Initialising(f, h, g)'
  BY <1>2, <1>4 DEF Initialising
<1>6. mem'[Boot] \in HeapType /\ mem'[Boot].func = NoFunc /\ mem'[Glob] \in GlobRec
  BY <1>0, <1>1 DEF Types
<1> QED BY <1>2, <1>3, <1>5, <1>6, FreshKept

\* A power failure during heap::init: it starts from the beginning.
LEMMA FreshFailure ==
  ASSUME Types, Turns, OneHandle, Fresh, ~ mem[Flag], PowerFailure
  PROVE  IInv'
<1>0. /\ Recovered(Boot) /\ alive' = [x \in Exec |-> FALSE] /\ todo' = [x \in Exec |-> <<>>]
      /\ given' = [x \in Exec |-> <<>>]
      /\ UNCHANGED <<bootDone, ready, open, cache, replay, seen>>
  BY DEF PowerFailure, Fresh
<1>1. /\ Exec = Tid \cup {Boot} /\ Boot \in Exec /\ Boot \notin Tid /\ Exec \subseteq Obj
      /\ Cnt \in Obj /\ Glob \in Obj /\ Flag \in Obj
      /\ \A t \in Tid : Untouched(t)
      /\ log[Boot] = <<>> /\ mem[Boot].func = NoFunc
  BY Objects DEF Exec, Fresh
<1>2. \A o \in Obj : mem'[o] = mem[o]
  BY <1>0, <1>1, RollBackHeap DEF Recovered
<1>3. DOMAIN mem' = Obj /\ DOMAIN log' = Exec /\ \A x \in Exec : log'[x] = <<>>
  BY <1>0, <1>1 DEF Recovered, RollBack, Types, Untouched
<1>4. /\ alive' \in [Exec -> BOOLEAN] /\ DOMAIN todo' = Exec /\ given' \in [Exec -> Seq(Answer)]
      /\ \A x \in Exec : ~ alive'[x] /\ todo'[x] = <<>> /\ given'[x] = <<>>
  BY <1>0, EmptySeq
<1>5. FreshRest
  BY <1>0, <1>1, <1>2, <1>3, <1>4 DEF FreshRest
<1>6. mem'[Boot] \in HeapType /\ mem'[Boot].func = NoFunc /\ mem'[Glob] \in GlobRec
  BY <1>1, <1>2 DEF Types
<1>7. ~ alive'[Boot] /\ todo'[Boot] = <<>>
  BY <1>1, <1>4
<1> QED BY <1>5, <1>6, <1>7, FreshKept

\* The last store of heap::init.
LEMMA FirstReady ==
  ASSUME Types, Turns, OneHandle, Fresh, Store(Boot), todo[Boot] = Init6,
         mem[Boot] = BootHeap, mem[Glob] = Area
  PROVE  IInv'
<1>0. /\ Exec = Tid \cup {Boot} /\ Boot \in Exec /\ Boot \notin Tid /\ Flag \in Obj /\ Flag \notin Exec
      /\ Cnt # Flag /\ Glob # Flag /\ TaskLimit \in Nat \ {0} /\ Cnt \in Obj /\ Glob \in Obj /\ Exec \subseteq Obj
  BY Objects DEF Exec
<1>1. /\ Advance(Boot, "set") /\ mem' = [mem EXCEPT ![Head(todo[Boot]).obj] = Head(todo[Boot]).val]
      /\ UNCHANGED <<ready, log, open, cache, replay, given, seen>>
  BY DEF Store
<1>2. Front(todo[Boot], Set(Flag, TRUE), <<>>) /\ Set(Flag, TRUE).obj = Flag /\ Set(Flag, TRUE).val = TRUE
  BY InitCodes, Kinds
<1>3. /\ todo'[Boot] = <<>> /\ DOMAIN todo' = Exec /\ \A y \in Exec \ {Boot} : todo'[y] = todo[y]
      /\ bootDone' = bootDone /\ alive' = alive /\ Head(todo[Boot]) = Set(Flag, TRUE)
  BY <1>0, <1>1, <1>2 DEF Advance, Front, Types
<1>4. mem'[Flag] = TRUE /\ DOMAIN mem' = Obj /\ \A o \in Obj \ {Flag} : mem'[o] = mem[o]
  BY <1>0, <1>1, <1>2, <1>3 DEF Types
<1>5. /\ ~ bootDone /\ mem[Cnt] = 0 /\ ready = {} /\ \A t \in Tid : Untouched(t)
      /\ log[Boot] = <<>> /\ cache[Boot] = <<>> /\ replay[Boot] = <<>>
      /\ given[Boot] = <<>> /\ seen[Boot] = <<>> /\ alive[Boot]
  BY <1>2 DEF Fresh, Front
<1>6. Types'
  <2>1. \A x \in Exec : mem'[x] \in HeapType
    BY <1>0, <1>4 DEF Types
  <2>2. mem'[Cnt] \in Nat /\ mem'[Glob] \in GlobRec /\ mem'[Flag] \in BOOLEAN
    BY <1>0, <1>4 DEF Types
  <2> QED BY <1>1, <1>3, <1>4, <2>1, <2>2 DEF Types
<1>7. OneHandle'
  <2>1. \A x : Results(x)' = Results(x)
    BY <1>1 DEF Results
  <2> QED BY <2>1 DEF OneHandle
<1>8. \A t \in Tid : todo'[t] = <<>> /\ Untouched(t)'
  BY <1>0, <1>1, <1>3, <1>5 DEF Untouched
<1>9. Turns'
  BY <1>0, <1>3, <1>5, <1>8 DEF Turns, InCritical
<1>10. PICK B \in [Exec -> HeapType] : \A x \in Exec : B[x] = mem[x]
  <2> DEFINE C == [x \in Exec |-> mem[x]]
  <2>1. C \in [Exec -> HeapType] /\ \A x \in Exec : C[x] = mem[x]
    BY DEF Types
  <2> QED BY <2>1
<1>11. Live(0) = {Boot}
  BY DEF Live
<1>12. Results(Boot)' = <<>> /\ Len(Results(Boot)') = 0 /\ Len(<<>>) = 0 /\ \A i : i \notin 1 .. 0
  <2>1. Results(Boot)' = <<>>
    BY <1>1, <1>5 DEF Results
  <2> QED BY <2>1
<1>13. Good(Boot, 0, Area, B)'
  <2>1. Place(Boot, 0, Area, B)'
    BY <1>0, <1>1, <1>3, <1>4, <1>5, <1>10 DEF Place, Idle, Clean
  <2>2. Answers(Boot)'
    <3>1. given'[Boot] = <<>> /\ seen'[Boot] = <<>> /\ replay'[Boot] = <<>>
      BY <1>1, <1>5
    <3>2. Len(Prog(Boot)') \in Nat
      BY <1>0, <1>6, ProgIs DEF Prog
    <3> QED BY <1>12, <3>1, <3>2 DEF Answers
  <2>3. OwnBlocks(Boot, B)' /\ OwnTasks(Boot, 0)'
    BY <1>12 DEF OwnBlocks, OwnTasks
  <2>4. Same(mem'[Boot], B[Boot])
    BY <1>0, <1>4, <1>10 DEF Same
  <2> QED BY <2>1, <2>2, <2>3, <2>4 DEF Good
<1>14. Counted(0, Area, B)'
  BY <1>0, <1>4, <1>5 DEF Counted, Quiet
<1>15. Apart(0, Area, B)
  <2>1. B[Boot] = BootHeap /\ 0 .. 0 - 1 = {}
    BY <1>0, <1>10
  <2> QED BY <2>1, FirstHeaps DEF Apart
<1>16. Core(0, Area, B)'
  <2>1. 0 \in 0 .. TaskLimit /\ Area \in GlobRec /\ ready' \subseteq 0 .. 0 - 1
    BY <1>0, <1>1, <1>5, FirstHeaps
  <2> QED BY <1>8, <1>10, <1>11, <1>13, <1>14, <1>15, <2>1 DEF Core
<1> QED BY <1>4, <1>6, <1>7, <1>9, <1>16 DEF IInv, Ready

\* A store of heap::init.
LEMMA FreshStore ==
  ASSUME Types, Turns, OneHandle, Fresh, ~ mem[Flag], Store(Boot)
  PROVE  IInv'
<1>0. /\ Exec = Tid \cup {Boot} /\ Boot \in Exec /\ Boot \notin Tid /\ Exec \subseteq Obj
      /\ Cnt \in Obj /\ Glob \in Obj /\ Flag \in Obj /\ Cnt \notin Exec /\ Glob \notin Exec /\ Flag \notin Exec
      /\ Cnt # Glob /\ Glob # Flag
  BY Objects DEF Exec
<1>1. /\ Advance(Boot, "set") /\ mem' = [mem EXCEPT ![Head(todo[Boot]).obj] = Head(todo[Boot]).val]
      /\ UNCHANGED <<ready, log, open, cache, replay, given, seen>>
  BY DEF Store
<1>2. /\ todo[Boot] # <<>> /\ alive[Boot] /\ mem[Boot].func = NoFunc
      /\ \A t \in Tid : Untouched(t)
      /\ log[Boot] = <<>> /\ given[Boot] = <<>>
  BY <1>1 DEF Fresh, Advance
<1>3. PICK f, h, g : Initialising(f, h, g)
  BY <1>2 DEF Fresh
<1>4. /\ f \in HeapType /\ h \in HeapType /\ g \in GlobRec /\ f.func = NoFunc /\ h.func = NoFunc
      /\ BootHeap \in HeapType /\ BootHeap.func = NoFunc /\ Area \in GlobRec
  BY <1>3, FirstHeaps DEF Initialising
<1>5. ASSUME NEW o \in {Boot, Glob}, NEW v, NEW d, Front(todo[Boot], Set(o, v), d),
             o = Boot => v \in HeapType /\ v.func = NoFunc, o = Glob => v \in GlobRec,
             (todo'[Boot] = d /\ mem'[o] = v /\ (o = Glob => mem'[Boot] = mem[Boot])) => Initialising(f, h, g)'
      PROVE  IInv'
  <2>1. Set(o, v).obj = o /\ Set(o, v).val = v /\ o \in Obj /\ o # Cnt /\ o # Flag /\ o \notin Tid
    BY <1>0, Kinds
  <2>2. /\ todo'[Boot] = d /\ DOMAIN todo' = Exec /\ \A y \in Exec \ {Boot} : todo'[y] = todo[y]
        /\ bootDone' = bootDone /\ alive' = alive /\ Head(todo[Boot]) = Set(o, v)
    BY <1>0, <1>1, <1>5 DEF Advance, Front, Types
  <2>3. mem'[o] = v /\ DOMAIN mem' = Obj /\ \A p \in Obj \ {o} : mem'[p] = mem[p]
    BY <1>1, <2>1, <2>2 DEF Types
  <2>4. FreshRest
    <3>1. \A t \in Tid : mem'[t] = mem[t] /\ todo'[t] = <<>> /\ ~ alive'[t]
      BY <1>0, <1>2, <2>1, <2>2, <2>3 DEF Untouched
    <3>2. \A x \in Exec : log'[x] = <<>> /\ given'[x] = <<>>
      BY <1>0, <1>1, <1>2 DEF Untouched
    <3>3. DOMAIN log' = Exec /\ alive' \in [Exec -> BOOLEAN] /\ given' \in [Exec -> Seq(Answer)]
      BY <1>1, <2>2 DEF Types
    <3>4. mem'[Cnt] = mem[Cnt] /\ mem'[Flag] = mem[Flag]
      BY <1>0, <2>1, <2>3
    <3> QED BY <1>1, <2>2, <2>3, <3>1, <3>2, <3>3, <3>4 DEF FreshRest
  <2>5. mem'[Boot] \in HeapType /\ mem'[Boot].func = NoFunc
    BY <1>0, <1>2, <1>5, <2>3 DEF Types
  <2>6. mem'[Glob] \in GlobRec
    BY <1>0, <1>5, <2>3 DEF Types
  <2>7. Initialising(f, h, g)'
    BY <1>0, <1>5, <2>2, <2>3
  <2> QED BY <1>2, <2>2, <2>4, <2>5, <2>6, <2>7, FreshKept
<1>6. /\ Front(Init1(f, h, g), Set(Boot, f), Init2(h, g)) /\ Front(Init2(h, g), Set(Boot, h), Init3(g))
      /\ Front(Init3(g), Set(Boot, BootHeap), Init4(g)) /\ Front(Init4(g), Set(Glob, g), Init5)
      /\ Front(Init5, Set(Glob, Area), Init6)
  BY InitCodes
<1>7. CASE todo[Boot] = Init1(f, h, g)
  BY <1>0, <1>4, <1>5, <1>6, <1>7 DEF Initialising
<1>8. CASE todo[Boot] = Init2(h, g)
  BY <1>0, <1>4, <1>5, <1>6, <1>8 DEF Initialising
<1>9. CASE todo[Boot] = Init3(g)
  BY <1>0, <1>4, <1>5, <1>6, <1>9 DEF Initialising
<1>10. CASE todo[Boot] = Init4(g) /\ mem[Boot] = BootHeap
  BY <1>0, <1>4, <1>5, <1>6, <1>10 DEF Initialising
<1>11. CASE todo[Boot] = Init5 /\ mem[Boot] = BootHeap
  BY <1>0, <1>4, <1>5, <1>6, <1>11 DEF Initialising
<1>12. CASE todo[Boot] = Init6 /\ mem[Boot] = BootHeap /\ mem[Glob] = Area
  BY <1>12, FirstReady
<1> QED BY <1>3, <1>7, <1>8, <1>9, <1>10, <1>11, <1>12 DEF Initialising

(***************************************************************************)
(* The theorems.                                                           *)
(***************************************************************************)
\* Nothing is on record.
LEMMA NoRecord ==
  ASSUME NEW e, replay[e] = <<>>, cache[e] = <<>>
  PROVE  Results(e) = <<>> /\ Len(Results(e)) = 0
<1>1. Results(e) = <<>>
  BY DEF Results
<1> QED BY <1>1

\* Before the first boot.
LEMMA InitHolds == Init => IInv
<1> SUFFICES ASSUME Init PROVE IInv
  OBVIOUS
<1>0. /\ Exec = Tid \cup {Boot} /\ Boot \in Exec /\ Boot \notin Tid /\ Tid \subseteq Exec /\ Exec \subseteq Obj
      /\ Cnt \in Obj /\ Glob \in Obj /\ Flag \in Obj /\ Cnt \notin Exec /\ Glob \notin Exec /\ Flag \notin Exec
      /\ Cnt # Glob /\ Cnt # Flag /\ Glob # Flag
  BY Objects DEF Exec
<1>1. /\ DOMAIN mem = Obj /\ mem[Cnt] = 0 /\ mem[Glob] = [next |-> 0, end |-> 0] /\ mem[Flag] = FALSE
      /\ \A x \in Exec : mem[x] = Empty(NoFunc)
  BY <1>0 DEF Init
<1>2. /\ bootDone = FALSE /\ ready = {}
      /\ log = [e \in Exec |-> <<>>] /\ open = [e \in Exec |-> FALSE]
      /\ cache = [e \in Exec |-> <<>>] /\ replay = [e \in Exec |-> <<>>]
      /\ alive = [e \in Exec |-> FALSE] /\ todo = [e \in Exec |-> <<>>]
      /\ given = [e \in Exec |-> <<>>] /\ seen = [e \in Exec |-> <<>>]
  BY DEF Init
<1>3. Empty(NoFunc) \in HeapType /\ Empty(NoFunc).func = NoFunc
  BY DEF Empty, HeapType
<1>4. Types
  <2>1. \A x \in Exec : mem[x] \in HeapType
    BY <1>1, <1>3
  <2>2. mem[Cnt] \in Nat /\ mem[Glob] \in GlobRec /\ mem[Flag] \in BOOLEAN
    <3>1. mem[Flag] \in BOOLEAN
      BY <1>1, Zenon
    <3>2. mem[Cnt] \in Nat /\ mem[Glob] \in GlobRec
      BY <1>1 DEF GlobRec
    <3> QED BY <3>1, <3>2
  <2>3. /\ cache \in [Exec -> Seq(Answer)] /\ replay \in [Exec -> Seq(Answer)]
        /\ given \in [Exec -> Seq(Answer)] /\ seen \in [Exec -> Seq(Answer)]
    <3>1. <<>> \in Seq(Answer)
      BY EmptySeq
    <3> QED BY <1>2, <3>1
  <2>4. /\ bootDone \in BOOLEAN /\ DOMAIN log = Exec /\ DOMAIN todo = Exec
        /\ open \in [Exec -> BOOLEAN] /\ alive \in [Exec -> BOOLEAN]
    BY <1>2
  <2> QED BY <1>1, <2>1, <2>2, <2>3, <2>4 DEF Types
<1>5. Turns
  BY <1>0, <1>2 DEF Turns, InCritical
<1>6. OneHandle
  <2>1. \A x \in Exec : Len(Results(x)) = 0
    <3>1. \A x \in Exec : replay[x] = <<>> /\ cache[x] = <<>>
      BY <1>2
    <3> QED BY <3>1, NoRecord
  <2> QED BY <2>1 DEF OneHandle
<1>7. Fresh
  <2>1. \A t \in Tid : Untouched(t)
    BY <1>0, <1>2 DEF Untouched
  <2> QED BY <1>0, <1>1, <1>2, <1>3, <2>1 DEF Fresh
<1> QED BY <1>1, <1>4, <1>5, <1>6, <1>7 DEF IInv

\* Whatever happens in a step.
LEMMA NextKeeps == IInv /\ [Next]_vars => IInv'
<1> SUFFICES ASSUME IInv, [Next]_vars PROVE IInv'
  OBVIOUS
<1>0. Types /\ Turns /\ OneHandle
  BY DEF IInv
<1>1. CASE ~ mem[Flag] /\ Fresh
  <2>1. CASE vars' = vars
    <3>1. UNCHANGED <<mem, bootDone, ready, log, open, cache, replay, alive, todo, given, seen>>
      BY <2>1 DEF vars, persistent
    <3>2. /\ Boot \in Exec /\ Tid \subseteq Exec /\ Exec = Tid \cup {Boot}
          /\ log[Boot] = <<>> /\ given[Boot] = <<>> /\ \A t \in Tid : Untouched(t)
      BY <1>1, Objects DEF Fresh, Exec
    <3>3. FreshRest
      BY <1>0, <3>1, <3>2 DEF FreshRest, Types, Untouched
    <3>4. mem'[Boot] \in HeapType /\ mem'[Boot].func = NoFunc /\ mem'[Glob] \in GlobRec
      BY <1>0, <1>1, <3>1, <3>2 DEF Types, Fresh
    <3>5. IF alive'[Boot] THEN (\E f, h, g : Initialising(f, h, g)') ELSE todo'[Boot] = <<>>
      <4>1. \A f, h, g : Initialising(f, h, g) => Initialising(f, h, g)'
        BY <3>1 DEF Initialising
      <4> QED BY <1>1, <3>1, <4>1 DEF Fresh
    <3> QED BY <1>0, <1>1, <3>3, <3>4, <3>5, FreshKept
  <2>2. ASSUME NEW e \in Exec, Step(e) PROVE IInv'
    BY <1>0, <1>1, <2>2, FreshActs, FreshStart, FreshStore
  <2>3. CASE PowerFailure
    BY <1>0, <1>1, <2>3, FreshFailure
  <2> QED BY <2>1, <2>2, <2>3 DEF Next
<1>2. ASSUME NEW K, NEW G, NEW B, Ready(K, G, B) PROVE IInv'
  <2>1. CASE vars' = vars
    <3>1. UNCHANGED <<mem, bootDone, ready, log, open, cache, replay, alive, todo, given, seen>>
      BY <2>1 DEF vars, persistent
    <3> QED BY <1>0, <1>2, <3>1, Still
  <2>2. ASSUME NEW e \in Exec, Step(e) PROVE IInv'
    <3>1. CASE Replay(e)
      BY <1>0, <1>2, <3>1, ReplayStep
    <3>2. CASE Bypass(e)
      BY <1>0, <1>2, <3>2, BypassStep
    <3>3. CASE Begin(e)
      BY <1>0, <1>2, <3>3, BeginStep
    <3>4. CASE AppendLog(e)
      BY <1>0, <1>2, <3>4, AppendLogStep
    <3>5. CASE Store(e)
      BY <1>0, <1>2, <3>5, StoreStep
    <3>6. CASE Commit(e)
      BY <1>0, <1>2, <3>6, CommitStep
    <3>7. CASE Insert(e)
      BY <1>0, <1>2, <3>7, InsertStep
    <3>8. CASE Return(e)
      BY <1>0, <1>2, <3>8, ReturnStep
    <3>9. CASE JitRecovery(e)
      BY <1>0, <1>2, <3>9, JitStep
    <3>10. CASE StartBoot
      BY <1>0, <1>2, <3>10, StartBootStep
    <3>11. CASE CompleteFirstBoot
      BY <1>0, <1>2, <3>11, CompleteStep
    <3> QED BY <2>2, <3>1, <3>2, <3>3, <3>4, <3>5, <3>6, <3>7, <3>8, <3>9, <3>10, <3>11 DEF Step
  <2>3. CASE PowerFailure
    BY <1>0, <1>2, <2>3, FailureStep
  <2> QED BY <2>1, <2>2, <2>3 DEF Next
<1> QED BY <1>1, <1>2 DEF IInv

\* The inductive invariant: behind every state of the heaps there is one that
\* a failure would restore, with the results on record carved out of it, and
\* whoever is in a call is at a step of an allocation or of a creation that
\* leads from that state to the next.
THEOREM Inductive == Spec => []IInv
BY InitHolds, NextKeeps, PTL DEF Spec

\* What is on record of any of them, before and after heap::init.
LEMMA Records ==
  ASSUME IInv
  PROVE  \/ \A e \in Exec : Len(Results(e)) = 0 /\ given[e] = <<>> /\ seen[e] = <<>>
         \/ \E K, G, B : /\ Ready(K, G, B) /\ K \in 0 .. TaskLimit
                         /\ \A e \in Live(K) : e \in Exec /\ Good(e, K, G, B)
                         /\ \A e \in Exec \ Live(K) :
                               e \in Tid /\ Untouched(e) /\ Len(Results(e)) = 0
<1>0. Types /\ Exec = Tid \cup {Boot}
  BY DEF IInv, Exec
<1>1. \A e \in Exec : replay[e] = <<>> /\ cache[e] = <<>> => Len(Results(e)) = 0
  BY NoRecord
<1>2. CASE Fresh
  BY <1>0, <1>1, <1>2 DEF Fresh, Untouched
<1>3. ASSUME NEW K, NEW G, NEW B, Ready(K, G, B)
      PROVE  /\ K \in 0 .. TaskLimit
             /\ \A e \in Live(K) : e \in Exec /\ Good(e, K, G, B)
             /\ \A e \in Exec \ Live(K) : e \in Tid /\ Untouched(e) /\ Len(Results(e)) = 0
  <2>1. /\ K \in 0 .. TaskLimit /\ Live(K) \subseteq Exec
        /\ \A x \in Exec : x \in Live(K) \/ (x \in Tid /\ x >= K)
        /\ \A t \in Tid : t >= K => Untouched(t)
        /\ \A e \in Live(K) : Good(e, K, G, B)
    BY <1>3, Objects DEF Ready, Core
  <2> QED BY <1>1, <2>1 DEF Untouched
<1> QED BY <1>2, <1>3 DEF IInv

\* A program that is run again after power failures is given the answers it
\* was given before, addresses and handles included (syscall_begin!,
\* transaction::run, idempotent_boot).
THEOREM AnswersAgain == Spec => []SameAnswers
<1>1. IInv => SameAnswers
  <2> SUFFICES ASSUME IInv, NEW e \in Exec, NEW i \in DOMAIN given[e]
               PROVE  given[e][i] = seen[e][i]
    BY DEF SameAnswers
  <2>1. Types
    BY DEF IInv
  <2>2. DOMAIN given[e] = 1 .. Len(given[e]) /\ Len(given[e]) \in Nat /\ Len(seen[e]) \in Nat
    BY <2>1, ResultsIs, LenProperties
  <2>3. given[e] # <<>>
    BY <2>2
  <2>4. Answers(e)
    BY <2>3, Records DEF Good, Untouched
  <2>5. i \in 1 .. Len(given[e]) /\ i \in 1 .. Len(seen[e])
    BY <2>2, <2>4 DEF Answers
  <2> QED BY <2>4, <2>5 DEF Answers
<1> QED BY <1>1, Inductive, PTL

\* Every variable keeps its type, no more tasks are created than there is room
\* for, and a journal is empty outside of the transaction of its owner
\* (create_task_static, Transaction::commit, Journal::recover).
THEOREM TypeCorrect == Spec => []TypeOK
<1>1. IInv => TypeOK
  <2> SUFFICES ASSUME IInv PROVE TypeOK
    OBVIOUS
  <2>0. Types /\ TaskLimit \in Nat \ {0}
    BY HeapAssumption DEF IInv
  <2>1. CASE Fresh
    <3>1. \A e \in Exec : log[e] = <<>>
      BY <2>1 DEF Fresh, Untouched, Exec
    <3> QED BY <2>0, <2>1, <3>1 DEF Fresh, TypeOK, Types, GlobRec
  <2>2. ASSUME NEW K, NEW G, NEW B, Ready(K, G, B) PROVE TypeOK
    <3>1. /\ K \in 0 .. TaskLimit /\ ready \subseteq 0 .. K - 1 /\ Counted(K, G, B)
          /\ 0 .. K - 1 \subseteq Tid
          /\ \A x \in Exec : x \in Live(K) \/ (x \in Tid /\ x >= K)
          /\ \A t \in Tid : t >= K => Untouched(t)
          /\ \A e \in Live(K) : Place(e, K, G, B)
      BY <2>2, Objects DEF Ready, Core, Good
    <3>2. mem[Cnt] \in 0 .. TaskLimit
      <4>1. CASE Quiet(K, G)
        BY <3>1, <4>1 DEF Quiet
      <4>2. ASSUME NEW e, NEW f, NEW k, Creating(e, K, G, B, f, k) PROVE mem[Cnt] \in 0 .. TaskLimit
        <5>1. mem[Cnt] = K \/ (K \in Tid /\ mem[Cnt] = K + 1)
          BY <4>2 DEF Creating, Refusing, Quiet, Counting, Carving
        <5> QED BY <2>0, <3>1, <5>1 DEF Tid
      <4> QED BY <3>1, <4>1, <4>2 DEF Counted
    <3>3. \A e \in Exec : ~ open[e] => log[e] = <<>>
      <4>1. \A e \in Live(K) : ~ open[e] => log[e] = <<>>
        BY <3>1 DEF Place, Off, Idle, Returning, Allocating, Creating, Working, Clean, Logged
      <4> QED BY <3>1, <4>1 DEF Untouched
    <3> QED BY <2>0, <3>1, <3>2, <3>3 DEF TypeOK, Types, GlobRec
  <2> QED BY <2>1, <2>2 DEF IInv
<1> QED BY <1>1, Inductive, PTL

\* The tasks that have been created, their heaps, and what is left of the area.
LEMMA MadeIs ==
  ASSUME IInv, NEW t \in Made
  PROVE  \E K, G, B : /\ Ready(K, G, B) /\ K \in 0 .. TaskLimit
                      /\ \A e \in Live(K) : e \in Exec /\ Good(e, K, G, B)
                      /\ \A u \in Made : u \in 0 .. K - 1 /\ Same(mem[u], B[u])
<1>0. Types
  BY DEF IInv
<1>1. \A e \in Exec : DOMAIN Results(e) = 1 .. Len(Results(e)) /\ Len(Results(e)) \in Nat
  BY <1>0, ResultsIs, LenProperties
<1>2. ASSUME NEW u \in Made
      PROVE  u \in Tid /\ \E e \in Exec : \E i \in 1 .. Len(Results(e)) : Results(e)[i] = Handle(u)
  BY <1>1, <1>2 DEF Made
<1>3. PICK K, G, B : /\ Ready(K, G, B) /\ K \in 0 .. TaskLimit
                     /\ \A e \in Live(K) : e \in Exec /\ Good(e, K, G, B)
                     /\ \A e \in Exec \ Live(K) :
                           e \in Tid /\ Untouched(e) /\ Len(Results(e)) = 0
  <2>1. ~ \A e \in Exec : Len(Results(e)) = 0
    BY <1>2
  <2> QED BY <2>1, Records
<1>4. ASSUME NEW u \in Made PROVE u \in 0 .. K - 1 /\ Same(mem[u], B[u])
  <2>1. PICK e \in Exec : \E i \in 1 .. Len(Results(e)) : Results(e)[i] = Handle(u)
    BY <1>2
  <2>2. e \in Live(K)
    BY <1>3, <2>1
  <2>3. OwnTasks(e, K) /\ u \in Tid
    BY <1>2, <1>3, <2>2 DEF Good
  <2>4. u < K
    BY <2>1, <2>3 DEF OwnTasks
  <2>5. u \in 0 .. K - 1
    BY <1>3, <2>3, <2>4 DEF Tid
  <2> QED BY <1>3, <2>5 DEF Live, Good
<1> QED BY <1>3, <1>4

\* The arithmetic of a region in the area.
LEMMA RegionIn ==
  ASSUME NEW h \in HeapType, NEW g, Same(h, g), NEW G \in GlobRec, InArea(g, G), G.next <= G.end,
         G.end = PmStart + PmSize, h.end # 0
  PROVE  PmStart <= h.start /\ h.end <= PmStart + PmSize
<1>1. h.start = g.start /\ h.end = g.end /\ g.end \in Nat /\ G.next \in Nat /\ G.end \in Nat
  BY DEF Same, HeapType, GlobRec
<1>2. PmStart <= g.start /\ g.end <= G.next
  BY <1>1 DEF InArea
<1> QED BY <1>1, <1>2

\* Whatever has been handed out is never handed out again (heap.rs,
\* create_task_static): the regions of the tasks are apart and in the area,
\* blocks are in the heap of their owner and apart, handles are given once.
THEOREM HandedOutOnce == Spec => []NothingSharedOut
<1>1. IInv => NothingSharedOut
  <2> SUFFICES ASSUME IInv PROVE NothingSharedOut
    OBVIOUS
  <2>0. Types /\ OneHandle
    BY DEF IInv
  <2>1. \A e \in Exec : DOMAIN Results(e) = 1 .. Len(Results(e)) /\ Len(Results(e)) \in Nat
    BY <2>0, ResultsIs, LenProperties
  <2>2. ASSUME NEW t \in Made
        PROVE  /\ mem[t].end # 0 => PmStart <= mem[t].start /\ mem[t].end <= PmStart + PmSize
               /\ \A u \in Made \ {t} :
                     Disjoint(<<mem[t].start, mem[t].end>>, <<mem[u].start, mem[u].end>>)
    <3>1. PICK K, G, B : /\ Ready(K, G, B) /\ K \in 0 .. TaskLimit
                         /\ \A u \in Made : u \in 0 .. K - 1 /\ Same(mem[u], B[u])
      BY MadeIs
    <3>2. Apart(K, G, B) /\ G \in GlobRec
      BY <3>1 DEF Ready, Core
    <3>3. t \in 0 .. K - 1 /\ Same(mem[t], B[t]) /\ mem[t] \in HeapType
      BY <2>0, <3>1, Objects DEF Types, Made
    <3>4. mem[t].end # 0 => PmStart <= mem[t].start /\ mem[t].end <= PmStart + PmSize
      BY <3>2, <3>3, RegionIn DEF Apart
    <3>5. ASSUME NEW u \in Made \ {t}
          PROVE  Disjoint(<<mem[t].start, mem[t].end>>, <<mem[u].start, mem[u].end>>)
      <4>1. u \in 0 .. K - 1 /\ Same(mem[u], B[u]) /\ u # t
        BY <3>1
      <4>2. Disjoint(<<B[t].start, B[t].end>>, <<B[u].start, B[u].end>>)
        BY <3>2, <3>3, <4>1 DEF Apart
      <4> QED BY <3>3, <4>1, <4>2 DEF Same
    <3> QED BY <3>4, <3>5
  <2>3. ASSUME NEW e \in Exec
        PROVE  /\ \A b \in Blocks(e) : mem[e].start <= b[1] /\ b[2] <= mem[e].end
               /\ \A i, j \in DOMAIN Results(e) : i # j =>
                     \A b \in Results(e)[i], c \in Results(e)[j] :
                         Len(b) = 2 /\ Len(c) = 2 => Disjoint(b, c)
    <3>1. CASE Len(Results(e)) = 0
      <4>1. DOMAIN Results(e) = {}
        BY <2>1, <3>1
      <4> QED BY <4>1 DEF Blocks
    <3>2. CASE Len(Results(e)) # 0
      <4>1. PICK K, G, B : Ready(K, G, B) /\ Good(e, K, G, B) /\ e \in Live(K)
        BY <3>2, Records
      <4>2. OwnBlocks(e, B) /\ Same(mem[e], B[e]) /\ HeapOK(B[e]) /\ B[e] \in HeapType
        BY <4>1 DEF Ready, Core, Good, Apart, Live
      <4>3. ASSUME NEW b \in Blocks(e) PROVE mem[e].start <= b[1] /\ b[2] <= mem[e].end
        <5>1. PICK i \in 1 .. Len(Results(e)) : b \in Results(e)[i]
          BY <2>1 DEF Blocks
        <5>2. Len(b) = 2
          BY DEF Blocks
        <5>3. B[e].start <= b[1] /\ b[2] <= B[e].next
          BY <4>2, <5>1, <5>2 DEF OwnBlocks
        <5>4. b[2] \in Nat
          <6>1. Results(e) \in Seq(Answer)
            BY <2>0, ResultsIs
          <6>2. Results(e)[i] \in Answer
            BY <2>1, <6>1, ElementOfSeq
          <6>3. b \in Seq(Nat)
            BY <5>1, <6>2 DEF Answer
          <6> QED BY <5>2, <6>3, PairIs
        <5>5. B[e].next \in Nat /\ B[e].end \in Nat /\ B[e].next <= B[e].end
          BY <4>2 DEF HeapOK, HeapType
        <5>6. b[2] <= B[e].end
          BY <5>3, <5>4, <5>5
        <5> QED BY <4>2, <5>3, <5>6 DEF Same
      <4>4. \A i, j \in DOMAIN Results(e) : i # j =>
                \A b \in Results(e)[i], c \in Results(e)[j] :
                    Len(b) = 2 /\ Len(c) = 2 => Disjoint(b, c)
        BY <2>1, <4>2 DEF OwnBlocks
      <4> QED BY <4>3, <4>4
    <3> QED BY <3>1, <3>2
  <2>4. ASSUME NEW e \in Exec, NEW f \in Exec, NEW i \in DOMAIN Results(e), NEW j \in DOMAIN Results(f),
               <<e, i>> # <<f, j>>, Results(e)[i] = Results(f)[j], Results(e)[i] # None,
               Prog(e)[i].op = "create"
        PROVE  FALSE
    <3>1. i \in 1 .. Len(Results(e)) /\ j \in 1 .. Len(Results(f)) /\ Len(Results(e)) # 0
      BY <2>1
    <3>2. PICK K, G, B : Good(e, K, G, B)
      BY <3>1, Records
    <3>3. PICK t \in Tid : Results(e)[i] = Handle(t)
      BY <2>4, <3>1, <3>2 DEF Good, OwnTasks
    <3>4. e = f /\ i = j
      <4>1. \A u \in Tid : Results(e)[i] = Handle(u) /\ Results(f)[j] = Handle(u) => e = f /\ i = j
        BY <2>0, <3>1 DEF OneHandle
      <4>2. Results(f)[j] = Handle(t)
        BY <2>4, <3>3
      <4> QED BY <3>3, <4>1, <4>2
    <3> QED BY <2>4, <3>4
  <2> QED BY <2>2, <2>3, <2>4 DEF NothingSharedOut
<1> QED BY <1>1, Inductive, PTL
=============================================================================
