---------------------------- MODULE Timer_proofs ----------------------------
(***************************************************************************)
(* Proofs about Timer: what a callback writes is kept once for each expiry *)
(* that is served, and every queued command is carried out once, in order. *)
(*                                                                         *)
(* The stores of the list operations matter to neither; what does is where *)
(* the daemon is between them in its transaction, its list transaction and *)
(* their recovery.                                                         *)
(***************************************************************************)
EXTENDS Timer, SequenceTheorems, TLAPS

(***************************************************************************)
(* Stretches of the daemon's code.                                         *)
(***************************************************************************)
IsSeq(s) == s \in Seq({s[i] : i \in DOMAIN s})

\* a store or a call of the part of a list transaction that prepares or
\* carries out its list operation
ListCalls == {"remove", "pop_front", "insert", "activate", "activate_at_command"}

Work(s) ==
    \/ s.obj \in {"node", "list", "timer"}
    \/ s.obj = "log" /\ s.at = "log" /\ s.field \in {"block", "micro"}
    \/ s.obj = "call" /\ s.field \in ListCalls

Works(s) == IsSeq(s) /\ \A i \in DOMAIN s : Work(s[i])

\* the ends of the transactions, behind their list operation
EndExpire  == <<SetCommitted(TRUE), Call("clear_journal", None)>>
EndReceive == <<SetCommitted(TRUE), Call("clear_journal", None), SetReplay(None)>>
EndBoot    == <<Call("clear_journal", None), SetCommitted(TRUE), SetReplay(None), SetTxOp("Invalid")>>

\* the transaction of an expiry behind the callback
Serve(t) ==
    (IF t \in AutoReload
     THEN <<Call("activate", t)>> \o PopReinsertIntoActivelist(t)
     ELSE <<SetActive(t, FALSE)>> \o RemoveFromActivelist(t)) \o CommitNoReplay

LookAndBlock == <<Call("look", None), Call("block", None)>>

(***************************************************************************)
(* What the callbacks wrote, and the expiries served.                      *)
(***************************************************************************)
OpCommitted == "ActiveListTxCommitted"

Agrees(user) == \A t \in Timer : user[t].fired = served[t]

Kept == Agrees(pm.user)

\* rolling back would make it so
UndoKept == Agrees(IF undo # None THEN undo ELSE pm.user)

\* the list operation that is under way will make it so
Ahead ==
    \A t \in Timer :
        pm.user[t].fired = IF t = serving THEN (served[t] + 1) % Wrap ELSE served[t]

\* whatever recovery finds, it can deal with
Recoverable ==
    IF Committed THEN Kept
    ELSE IF ~ Started THEN UndoKept
    ELSE IF Log.op = OpCommitted THEN Kept
    ELSE Ahead /\ UndoKept

\* no transaction is under way
Settled ==
    /\ at # "boot" /\ undo = None /\ Kept
    /\ Committed => (serving = None => Replay = None)
    /\ ~ Committed => ~ Started

EndIs(e) ==
    \/ e = EndExpire /\ serving # None /\ at # "boot"
    \/ e = EndReceive /\ serving = None /\ at # "boot"
    \/ e = EndBoot /\ at = "boot"

(***************************************************************************)
(* Where the daemon is.                                                    *)
(***************************************************************************)
Resting ==
    /\ todo = <<>>
    /\ IF at # "boot" THEN Settled ELSE Recoverable /\ (Committed \/ ~ Started)

Looking ==
    /\ Settled
    /\ todo \in {Invalidate \o LookAndBlock, InvalidateActivelist \o LookAndBlock,
                 LookAndBlock, <<Call("block", None)>>}

\* in front of a transaction that goes on with more
OpeningOf(more) ==
    /\ Settled
    /\ \/ todo = Invalidate \o (Begin \o more)
       \/ todo = InvalidateActivelist \o (Begin \o more)
       \/ todo = Begin \o more /\ Log.op = "Invalid"

Opening ==
    \/ at = "receive" /\ OpeningOf(<<Call("receive", None)>>)
    \/ at = "expired" /\ Head0 # None /\ OpeningOf(Callback(Head0) \o Serve(Head0))

Receiving ==
    /\ todo = <<Call("receive", None)>>
    /\ at = "receive" /\ serving = None /\ ~ Committed /\ undo = None /\ Log.op = "Invalid" /\ Kept

CallingBack ==
    /\ at = "expired" /\ serving # None /\ ~ Committed /\ Log.op = "Invalid" /\ Kept
    /\ \/ undo = None /\ todo = Callback(serving) \o Serve(serving)
       \/ /\ undo = pm.user
          /\ todo = <<SetFired(serving, (pm.user[serving].fired + 1) % Wrap)>> \o Serve(serving)

PreparingWith(n, op, m, e) ==
    /\ todo = n \o (<<SetTxOp(op)>> \o (m \o (CommitActivelist \o e)))
    /\ Works(n) /\ Works(m) /\ op \notin {"Invalid", OpCommitted}
    /\ EndIs(e) /\ e # EndBoot
    /\ ~ Committed /\ Log.op = "Invalid" /\ Ahead /\ UndoKept

OperatingWith(n, e) ==
    /\ todo = n \o (CommitActivelist \o e)
    /\ Works(n) /\ EndIs(e)
    /\ ~ Committed /\ Log.op \notin {"Invalid", OpCommitted} /\ Ahead /\ UndoKept

EndingWith(e) ==
    /\ EndIs(e) /\ ~ Committed /\ Kept
    /\ \/ todo \in {<<StartOpLog("Invalid", 0)>> \o e, e} /\ Log.op = OpCommitted
       \/ todo = e /\ e = EndReceive /\ Log.op = "Invalid" /\ undo = None
       \/ todo = Tail(e) /\ e = EndBoot /\ Log.op = OpCommitted /\ undo = None

Closing ==
    /\ Committed /\ Kept
    /\ \/ todo = Tail(EndExpire) /\ at # "boot" /\ serving # None
       \/ todo = Tail(EndReceive) /\ at # "boot" /\ serving = None
       \/ todo = <<SetReplay(None)>> /\ at # "boot" /\ serving = None /\ undo = None
       \/ todo = <<Call("clear_journal", None), SetReplay(None), SetTxOp("Invalid")>> /\ at = "boot"
       \/ todo \in {<<SetReplay(None), SetTxOp("Invalid")>>, <<SetTxOp("Invalid")>>} /\ at = "boot"

Place ==
    \/ Resting \/ Looking \/ Opening \/ Receiving \/ CallingBack
    \/ \E n, op, m, e : PreparingWith(n, op, m, e)
    \/ \E n, e : OperatingWith(n, e)
    \/ \E e : EndingWith(e)
    \/ Closing

(***************************************************************************)
(* Types, as far as the proofs need them.                                  *)
(***************************************************************************)
MemOK(m) ==
    /\ {"node", "list", "log", "timer", "user", "tx"} \subseteq DOMAIN m
    /\ "log" \in DOMAIN m.log /\ {"op", "block", "micro"} \subseteq DOMAIN m.log["log"]
    /\ "tx" \in DOMAIN m.tx /\ {"committed", "replay"} \subseteq DOMAIN m.tx["tx"]
    /\ m.tx["tx"].committed \in BOOLEAN
    /\ m.tx["tx"].replay \in Queued \cup {None, Invalid}
    /\ m.user \in Written

Types ==
    /\ MemOK(pm)
    /\ undo \in Written \cup {None}
    /\ queue \in Seq(Queued) /\ call \in Given \cup {None}
    /\ script \in Scripts /\ sent \in Nat /\ done \in Seq(Nat)
    /\ served \in [Timer -> Nat]

PInv == Types /\ Place

\* a failure that strikes with a command in hand finds the daemon in the
\* transaction of that command
NotInHand == at = "boot" /\ serving # None => InHand = <<>>

(***************************************************************************)
(* Sequences.                                                              *)
(***************************************************************************)
\* A sequence over any set is one over its own elements.
LEMMA SeqIs == \A S : \A s \in Seq(S) : IsSeq(s) /\ \A i \in DOMAIN s : s[i] \in S
<1> SUFFICES ASSUME NEW S, NEW s \in Seq(S) PROVE IsSeq(s) /\ \A i \in DOMAIN s : s[i] \in S
  OBVIOUS
<1> DEFINE R == {s[i] : i \in DOMAIN s}
<1>1. Len(s) \in Nat /\ DOMAIN s = 1 .. Len(s) /\ \A i \in DOMAIN s : s[i] \in S
  BY LenProperties
<1>2. s \in [1 .. Len(s) -> R]
  BY <1>1, LenProperties
<1>3. s \in Seq(R)
  <2> DEFINE n == Len(s)
  <2>1. n \in Nat /\ s \in [1 .. n -> R]
    BY <1>1, <1>2
  <2> HIDE DEF n, R
  <2> QED BY <2>1
<1> QED BY <1>1, <1>3 DEF IsSeq

\* Two sequences are sequences over the elements of both.
LEMMA SeqJoin ==
  \A a, b : IsSeq(a) /\ IsSeq(b) => \E S : a \in Seq(S) /\ b \in Seq(S)
<1> SUFFICES ASSUME NEW a, NEW b, IsSeq(a), IsSeq(b) PROVE \E S : a \in Seq(S) /\ b \in Seq(S)
  OBVIOUS
<1> DEFINE A == {a[i] : i \in DOMAIN a}
           B == {b[i] : i \in DOMAIN b}
<1>1. a \in Seq(A) /\ b \in Seq(B)
  BY DEF IsSeq
<1> HIDE DEF A, B
<1>2. a \in Seq(A \cup B) /\ b \in Seq(A \cup B)
  BY <1>1, SeqMonotonic, A \subseteq A \cup B, B \subseteq A \cup B
<1> QED BY <1>2

\* Concatenation, from the front.
LEMMA Cat ==
  ASSUME NEW a, NEW b, IsSeq(a), IsSeq(b)
  PROVE  /\ IsSeq(a \o b) /\ <<>> \o b = b /\ a \o <<>> = a
         /\ a # <<>> => /\ a \o b # <<>> /\ Head(a \o b) = Head(a)
                        /\ Tail(a \o b) = Tail(a) \o b /\ IsSeq(Tail(a))
<1>1. PICK S : a \in Seq(S) /\ b \in Seq(S)
  BY SeqJoin
<1>2. IsSeq(a \o b) /\ <<>> \o b = b /\ a \o <<>> = a
  BY <1>1, ConcatProperties, ConcatEmptySeq, SeqIs
<1>3. ASSUME a # <<>>
      PROVE  /\ a \o b # <<>> /\ Head(a \o b) = Head(a)
             /\ Tail(a \o b) = Tail(a) \o b /\ IsSeq(Tail(a))
  <2>1. Len(a) \in Nat \ {0} /\ Len(b) \in Nat
    BY <1>1, <1>3, EmptySeq, LenProperties
  <2>2. a \o b \in Seq(S) /\ Len(a \o b) = Len(a) + Len(b)
    BY <1>1, ConcatProperties
  <2>3. a \o b # <<>>
    BY <2>1, <2>2, EmptySeq
  <2>4. Head(a \o b) = Head(a)
    BY <1>1, <2>1, <2>2
  <2>5. Tail(a) \in Seq(S) /\ Len(Tail(a)) = Len(a) - 1
        /\ \A i \in 1 .. Len(Tail(a)) : Tail(a)[i] = a[i + 1]
    BY <1>1, <1>3, HeadTailProperties
  <2>6. Tail(a \o b) \in Seq(S) /\ Len(Tail(a \o b)) = Len(a) + Len(b) - 1
        /\ \A i \in 1 .. Len(Tail(a \o b)) : Tail(a \o b)[i] = (a \o b)[i + 1]
    BY <2>2, <2>3, HeadTailProperties
  <2>7. Tail(a) \o b \in Seq(S) /\ Len(Tail(a) \o b) = Len(a) - 1 + Len(b)
        /\ \A i \in 1 .. Len(Tail(a)) + Len(b) : (Tail(a) \o b)[i] =
              IF i <= Len(Tail(a)) THEN Tail(a)[i] ELSE b[i - Len(Tail(a))]
    BY <1>1, <2>5, ConcatProperties
  <2>8. \A i \in 1 .. Len(a) + Len(b) : (a \o b)[i] = IF i <= Len(a) THEN a[i] ELSE b[i - Len(a)]
    BY <1>1, ConcatProperties
  <2>9. \A i \in 1 .. Len(a) + Len(b) - 1 : Tail(a \o b)[i] = (Tail(a) \o b)[i]
    BY <2>1, <2>5, <2>6, <2>7, <2>8
  <2>10. Tail(a \o b) = Tail(a) \o b
    BY <2>1, <2>6, <2>7, <2>9, SeqEqual
  <2> QED BY <2>3, <2>4, <2>5, <2>10, SeqIs
<1> QED BY <1>2, <1>3

Assoc(a, b, c) == (a \o b) \o c = a \o (b \o c)

\* Concatenation is associative.
LEMMA CatAssoc ==
  \A a, b, c : IsSeq(a) /\ IsSeq(b) /\ IsSeq(c) => (a \o b) \o c = a \o (b \o c)
<1> SUFFICES ASSUME NEW a, NEW b, NEW c, IsSeq(a), IsSeq(b), IsSeq(c)
             PROVE  (a \o b) \o c = a \o (b \o c)
  OBVIOUS
<1>1. PICK S : a \in Seq(S) /\ b \in Seq(S)
  BY SeqJoin
<1>2. PICK T : c \in Seq(T)
  BY DEF IsSeq
<1>3. a \in Seq(S \cup T) /\ b \in Seq(S \cup T) /\ c \in Seq(S \cup T)
  BY <1>1, <1>2, SeqMonotonic, S \subseteq S \cup T, T \subseteq S \cup T
<1> QED BY <1>3, ConcatAssociative

\* (the same, without the concatenations)
LEMMA Associates == \A a, b, c : IsSeq(a) /\ IsSeq(b) /\ IsSeq(c) => Assoc(a, b, c)
BY CatAssoc DEF Assoc

\* The sequences that are written out.
LEMMA Tuple0 == IsSeq(<<>>)
BY EmptySeq, SeqIs

\* (one step)
LEMMA Tuple1 == \A x : IsSeq(<<x>>) /\ <<x>> # <<>> /\ Head(<<x>>) = x /\ Tail(<<x>>) = <<>>
<1> SUFFICES ASSUME NEW x PROVE IsSeq(<<x>>) /\ <<x>> # <<>> /\ Head(<<x>>) = x /\ Tail(<<x>>) = <<>>
  OBVIOUS
<1>1. <<x>> \in Seq({x})
  OBVIOUS
<1>2. <<x>> # <<>> /\ Head(<<x>>) = x
  OBVIOUS
<1>3. Tail(<<x>>) = <<>>
  <2>1. Len(Tail(<<x>>)) = 0 /\ Tail(<<x>>) \in Seq({x})
    BY <1>1, <1>2, HeadTailProperties
  <2> QED BY <2>1, EmptySeq
<1>4. IsSeq(<<x>>)
  BY <1>1, SeqIs
<1> QED BY <1>2, <1>3, <1>4

\* A step in front of a sequence.
LEMMA Cons ==
  ASSUME NEW x, NEW s, IsSeq(s)
  PROVE  /\ IsSeq(<<x>> \o s) /\ <<x>> \o s # <<>>
         /\ Head(<<x>> \o s) = x /\ Tail(<<x>> \o s) = s
<1>1. IsSeq(<<x>>) /\ <<x>> # <<>> /\ Head(<<x>>) = x /\ Tail(<<x>>) = <<>>
  BY Tuple1
<1>2. /\ IsSeq(<<x>> \o s) /\ <<>> \o s = s /\ <<x>> \o s # <<>>
      /\ Head(<<x>> \o s) = Head(<<x>>) /\ Tail(<<x>> \o s) = Tail(<<x>>) \o s
  BY <1>1, Cat, Zenon
<1> QED BY <1>1, <1>2, Zenon

\* (two steps)
LEMMA Tuple2 ==
  \A x, y :
      /\ <<x, y>> = <<x>> \o <<y>> /\ IsSeq(<<x, y>>) /\ <<x, y>> # <<>>
      /\ Head(<<x, y>>) = x /\ Tail(<<x, y>>) = <<y>>
<1> SUFFICES ASSUME NEW x, NEW y
             PROVE  /\ <<x, y>> = <<x>> \o <<y>> /\ IsSeq(<<x, y>>) /\ <<x, y>> # <<>>
                    /\ Head(<<x, y>>) = x /\ Tail(<<x, y>>) = <<y>>
  OBVIOUS
<1>1. /\ <<x, y>> \in Seq({x, y}) /\ Len(<<x, y>>) = 2
      /\ <<x>> \o <<y>> \in Seq({x, y}) /\ Len(<<x>> \o <<y>>) = 2
  OBVIOUS
<1>2. (<<x>> \o <<y>>)[1] = x /\ (<<x>> \o <<y>>)[2] = y
  OBVIOUS
<1>4. \A i \in 1 .. 2 : <<x, y>>[i] = (<<x>> \o <<y>>)[i]
  BY <1>2
<1>5. <<x, y>> = <<x>> \o <<y>>
  BY <1>1, <1>4, SeqEqual
<1>6. IsSeq(<<y>>)
  BY Tuple1
<1>7. /\ IsSeq(<<x>> \o <<y>>) /\ <<x>> \o <<y>> # <<>>
      /\ Head(<<x>> \o <<y>>) = x /\ Tail(<<x>> \o <<y>>) = <<y>>
  BY <1>6, Cons, Zenon
<1> QED BY <1>5, <1>7, Zenon

\* (three steps)
LEMMA Tuple3 ==
  \A x, y, z :
      /\ <<x, y, z>> = <<x>> \o <<y, z>> /\ IsSeq(<<x, y, z>>) /\ <<x, y, z>> # <<>>
      /\ Head(<<x, y, z>>) = x /\ Tail(<<x, y, z>>) = <<y, z>>
<1> SUFFICES ASSUME NEW x, NEW y, NEW z
             PROVE  /\ <<x, y, z>> = <<x>> \o <<y, z>> /\ IsSeq(<<x, y, z>>) /\ <<x, y, z>> # <<>>
                    /\ Head(<<x, y, z>>) = x /\ Tail(<<x, y, z>>) = <<y, z>>
  OBVIOUS
<1>1. /\ <<x, y, z>> \in Seq({x, y, z}) /\ Len(<<x, y, z>>) = 3
      /\ <<x>> \o <<y, z>> \in Seq({x, y, z}) /\ Len(<<x>> \o <<y, z>>) = 3
  OBVIOUS
<1>2. (<<x>> \o <<y, z>>)[1] = x /\ (<<x>> \o <<y, z>>)[2] = y
  OBVIOUS
<1>3. (<<x>> \o <<y, z>>)[3] = z
  OBVIOUS
<1>4. \A i \in 1 .. 3 : <<x, y, z>>[i] = (<<x>> \o <<y, z>>)[i]
  BY <1>2, <1>3
<1>5. <<x, y, z>> = <<x>> \o <<y, z>>
  BY <1>1, <1>4, SeqEqual
<1>6. IsSeq(<<y, z>>)
  BY Tuple2
<1>7. /\ IsSeq(<<x>> \o <<y, z>>) /\ <<x>> \o <<y, z>> # <<>>
      /\ Head(<<x>> \o <<y, z>>) = x /\ Tail(<<x>> \o <<y, z>>) = <<y, z>>
  BY <1>6, Cons, Zenon
<1> QED BY <1>5, <1>7, Zenon

\* (four steps)
LEMMA Tuple4 ==
  \A w, x, y, z :
      /\ <<w, x, y, z>> = <<w>> \o <<x, y, z>> /\ IsSeq(<<w, x, y, z>>) /\ <<w, x, y, z>> # <<>>
      /\ Head(<<w, x, y, z>>) = w /\ Tail(<<w, x, y, z>>) = <<x, y, z>>
<1> SUFFICES ASSUME NEW w, NEW x, NEW y, NEW z
             PROVE  /\ <<w, x, y, z>> = <<w>> \o <<x, y, z>> /\ IsSeq(<<w, x, y, z>>) /\ <<w, x, y, z>> # <<>>
                    /\ Head(<<w, x, y, z>>) = w /\ Tail(<<w, x, y, z>>) = <<x, y, z>>
  OBVIOUS
<1>1. /\ <<w, x, y, z>> \in Seq({w, x, y, z}) /\ Len(<<w, x, y, z>>) = 4
      /\ <<w>> \o <<x, y, z>> \in Seq({w, x, y, z}) /\ Len(<<w>> \o <<x, y, z>>) = 4
  OBVIOUS
<1>2. (<<w>> \o <<x, y, z>>)[1] = w /\ (<<w>> \o <<x, y, z>>)[2] = x
  OBVIOUS
<1>3. (<<w>> \o <<x, y, z>>)[3] = y /\ (<<w>> \o <<x, y, z>>)[4] = z
  OBVIOUS
<1>4. \A i \in 1 .. 4 : <<w, x, y, z>>[i] = (<<w>> \o <<x, y, z>>)[i]
  BY <1>2, <1>3
<1>5. <<w, x, y, z>> = <<w>> \o <<x, y, z>>
  BY <1>1, <1>4, SeqEqual
<1>6. IsSeq(<<x, y, z>>)
  BY Tuple3
<1>7. /\ IsSeq(<<w>> \o <<x, y, z>>) /\ <<w>> \o <<x, y, z>> # <<>>
      /\ Head(<<w>> \o <<x, y, z>>) = w /\ Tail(<<w>> \o <<x, y, z>>) = <<x, y, z>>
  BY <1>6, Cons, Zenon
<1> QED BY <1>5, <1>7, Zenon

(***************************************************************************)
(* The stretches of work.                                                  *)
(***************************************************************************)
\* No step is work to do,
LEMMA WorksNone == Works(<<>>)
BY Tuple0 DEF Works

\* and so is one step of work,
LEMMA WorksOne == \A x : Work(x) => Works(<<x>>)
<1> SUFFICES ASSUME NEW x, Work(x) PROVE Works(<<x>>)
  OBVIOUS
<1>1. \A i \in DOMAIN <<x>> : <<x>>[i] = x
  OBVIOUS
<1> QED BY <1>1, Tuple1 DEF Works

\* one stretch of work behind another,
LEMMA WorksCat == \A a, b : Works(a) /\ Works(b) => Works(a \o b)
<1> SUFFICES ASSUME NEW a, NEW b, Works(a), Works(b) PROVE Works(a \o b)
  OBVIOUS
<1>1. PICK S : a \in Seq(S) /\ b \in Seq(S)
  BY SeqJoin DEF Works
<1>2. IsSeq(a \o b)
  BY Cat DEF Works
<1>3. ASSUME NEW i \in DOMAIN (a \o b) PROVE Work((a \o b)[i])
  <2>1. /\ DOMAIN a = 1 .. Len(a) /\ Len(a) \in Nat /\ DOMAIN b = 1 .. Len(b) /\ Len(b) \in Nat
        /\ DOMAIN (a \o b) = 1 .. Len(a) + Len(b)
    BY <1>1, LenProperties, ConcatProperties
  <2>2. (a \o b)[i] = IF i <= Len(a) THEN a[i] ELSE b[i - Len(a)]
    BY <1>1, <2>1, ConcatProperties
  <2>3. IF i <= Len(a) THEN i \in DOMAIN a ELSE i - Len(a) \in DOMAIN b
    BY <2>1
  <2> QED BY <2>2, <2>3 DEF Works
<1> QED BY <1>2, <1>3 DEF Works

\* two steps,
LEMMA WorksTwo == \A x, y : Work(x) /\ Work(y) => Works(<<x, y>>)
BY WorksOne, WorksCat, Tuple2

\* three
LEMMA WorksThree == \A x, y, z : Work(x) /\ Work(y) /\ Work(z) => Works(<<x, y, z>>)
<1> SUFFICES ASSUME NEW x, NEW y, NEW z, Work(x), Work(y), Work(z) PROVE Works(<<x, y, z>>)
  OBVIOUS
<1>1. Works(<<x>>) /\ Works(<<y, z>>)
  BY WorksOne, WorksTwo
<1>2. <<x, y, z>> = <<x>> \o <<y, z>>
  BY Tuple3
<1> QED BY <1>1, <1>2, WorksCat, Zenon

\* or four.
LEMMA WorksFour ==
  \A w, x, y, z : Work(w) /\ Work(x) /\ Work(y) /\ Work(z) => Works(<<w, x, y, z>>)
<1> SUFFICES ASSUME NEW w, NEW x, NEW y, NEW z, Work(w), Work(x), Work(y), Work(z)
             PROVE  Works(<<w, x, y, z>>)
  OBVIOUS
<1>1. Works(<<w>>) /\ Works(<<x, y, z>>)
  BY WorksOne, WorksThree
<1>2. <<w, x, y, z>> = <<w>> \o <<x, y, z>>
  BY Tuple4
<1> QED BY <1>1, <1>2, WorksCat, Zenon

\* Work that is done on a condition is work.
LEMMA WorksWhen == \A c, s : (c => Works(s)) => Works(When(c, s))
BY WorksNone DEF When

\* What is behind the first step of work is work.
LEMMA WorksHead == \A s : Works(s) /\ s # <<>> => Work(Head(s)) /\ Works(Tail(s)) /\ IsSeq(s)
<1> SUFFICES ASSUME NEW s, Works(s), s # <<>> PROVE Work(Head(s)) /\ Works(Tail(s)) /\ IsSeq(s)
  OBVIOUS
<1> DEFINE S == {s[i] : i \in DOMAIN s}
<1>1. s \in Seq(S) /\ \A x \in S : Work(x)
  BY DEF Works, IsSeq
<1> HIDE DEF S
<1>2. Head(s) \in S /\ Tail(s) \in Seq(S)
  BY <1>1, HeadTailProperties
<1>3. IsSeq(Tail(s)) /\ \A i \in DOMAIN Tail(s) : Tail(s)[i] \in S
  BY <1>2, SeqIs
<1> QED BY <1>1, <1>2, <1>3 DEF Works

(***************************************************************************)
(* List operations are work.                                               *)
(***************************************************************************)
\* The stores to nodes, lists and the micro-operation log are work.
LEMMA WorkStores ==
  /\ \A n, x : Work(SetPrev(n, x)) /\ Work(SetNext(n, x)) /\ Work(SetContainer(n, x))
  /\ \A l, x : Work(SetLen(l, x)) /\ Work(SetCursor(l, x)) /\ Work(SetHead(l, x))
  /\ \A op, k : Work(StartOpLog(op, k))
BY DEF Work, Store, SetPrev, SetNext, SetContainer, SetLen, SetCursor, SetHead, StartOpLog

\* Unlinking a node is work,
LEMMA UnlinkWorks == \A m, l, n : Works(Unlink(m, l, n))
<1> SUFFICES ASSUME NEW m, NEW l, NEW n PROVE Works(Unlink(m, l, n))
  OBVIOUS
<1> DEFINE p == m.node[n].prev
           x == m.node[n].next
<1>1. /\ Works(When(p # None, <<SetNext(p, x)>>))
      /\ Works(When(x # None, <<SetPrev(x, p)>>))
      /\ Works(When(m.list[l].cursor = n, <<SetCursor(l, x)>>))
      /\ Works(When(m.list[l].head = n, <<SetHead(l, x)>>))
  BY WorkStores, WorksOne, WorksWhen
<1> QED BY <1>1, WorksCat DEF Unlink

\* removing one and recovering the removal,
LEMMA RemoveWorks ==
  \A m, l, n : Works(OptimizedRemove(m, l, n)) /\ Works(RecoverFailedRemove(m, l, n))
<1> SUFFICES ASSUME NEW m, NEW l, NEW n
             PROVE  Works(OptimizedRemove(m, l, n)) /\ Works(RecoverFailedRemove(m, l, n))
  OBVIOUS
<1>1. Works(<<SetCursor(l, None), SetHead(l, None)>>)
  BY WorkStores, WorksTwo
<1>2. \A k : Works(<<SetLen(l, k), SetContainer(n, None)>>)
  BY WorkStores, WorksTwo
<1>3. Works(<<StartOpLog("Remove", m.list[l].len)>>)
  BY WorkStores, WorksOne
<1>4. Works(IF m.list[l].len = 1 THEN <<SetCursor(l, None), SetHead(l, None)>> ELSE Unlink(m, l, n))
  BY <1>1, UnlinkWorks
<1>5. Works((IF m.list[l].len = 1 THEN <<SetCursor(l, None), SetHead(l, None)>> ELSE Unlink(m, l, n))
            \o <<SetLen(l, m.list[l].len - 1), SetContainer(n, None)>>)
  BY <1>2, <1>4, WorksCat
<1>6. Works(OptimizedRemove(m, l, n))
  BY <1>3, <1>5, WorksCat, WorksWhen DEF OptimizedRemove
<1>7. Works(RecoverFailedRemove(m, l, n))
  BY <1>2, UnlinkWorks, WorksCat DEF RecoverFailedRemove
<1> QED BY <1>6, <1>7

\* popping the head and recovering that,
LEMMA PopFrontWorks ==
  \A m, l, h : Works(OptimizedPopFront(m, l)) /\ Works(RecoverFailedPopFront(m, l, h))
<1> SUFFICES ASSUME NEW m, NEW l, NEW g
             PROVE  Works(OptimizedPopFront(m, l)) /\ Works(RecoverFailedPopFront(m, l, g))
  OBVIOUS
<1> DEFINE h == m.list[l].head
           x == m.node[h].next
<1>1. Works(OptimizedPopFront(m, l))
  <2>1. /\ Works(<<StartOpLog("PopFront", m.list[l].len), SetHead(l, x)>>)
        /\ Works(When(x # None, <<SetPrev(x, None)>>))
        /\ Works(When(m.list[l].cursor = h, <<SetCursor(l, x)>>))
        /\ Works(<<SetLen(l, m.list[l].len - 1), SetContainer(h, None)>>)
    BY WorkStores, WorksOne, WorksTwo, WorksWhen
  <2>2. Works(<<StartOpLog("PopFront", m.list[l].len), SetHead(l, x)>>
              \o When(x # None, <<SetPrev(x, None)>>)
              \o When(m.list[l].cursor = h, <<SetCursor(l, x)>>)
              \o <<SetLen(l, m.list[l].len - 1), SetContainer(h, None)>>)
    BY <2>1, WorksCat
  <2> QED BY <2>2, WorksWhen DEF OptimizedPopFront
<1>2. Works(RecoverFailedPopFront(m, l, g))
  <2>1. /\ Works(When(h # None, <<SetPrev(h, None)>>))
        /\ Works(When(m.list[l].cursor = g, <<SetCursor(l, h)>>))
        /\ Works(<<SetLen(l, OldLen(m) - 1), SetContainer(g, None)>>)
    BY WorkStores, WorksOne, WorksTwo, WorksWhen
  <2>2. Works(When(h # None, <<SetPrev(h, None)>>)
              \o When(m.list[l].cursor = g, <<SetCursor(l, h)>>)
              \o <<SetLen(l, OldLen(m) - 1), SetContainer(g, None)>>)
    BY <2>1, WorksCat
  <2> QED BY <1>1, <2>2 DEF RecoverFailedPopFront
<1> QED BY <1>1, <1>2

\* linking a node at its place,
LEMMA InsertSortedWorks ==
  \A m, l, n, smaller : Works(InsertSortedImpl(m, l, n, smaller))
<1> SUFFICES ASSUME NEW m, NEW l, NEW n, NEW smaller
             PROVE  Works(InsertSortedImpl(m, l, n, smaller))
  OBVIOUS
<1> DEFINE s    == Chain(m, l)
           stop == {k \in DOMAIN s : s[k] \notin smaller}
           x    == s[CHOOSE k \in stop : \A j \in stop : k <= j]
           last == s[Len(s)]
           p    == m.node[x].prev
<1>1. Works(<<SetContainer(n, l)>>) /\ Works(<<SetHead(l, n)>>) /\ Works(<<SetLen(l, m.list[l].len + 1)>>)
  BY WorkStores, WorksOne
<1>2. Works(<<SetPrev(n, last), SetNext(n, None), SetNext(last, n)>>)
  <2> HIDE DEF last
  <2> QED BY WorkStores, WorksThree
<1>3. Works(<<SetNext(n, x), SetPrev(n, p), SetPrev(x, n),
              IF p # None THEN SetNext(p, n) ELSE SetHead(l, n)>>)
  <2> HIDE DEF x, p
  <2>1. Work(IF p # None THEN SetNext(p, n) ELSE SetHead(l, n))
    BY WorkStores
  <2> QED BY <2>1, WorkStores, WorksFour
<1>4. Works(IF s = <<>> THEN <<SetHead(l, n)>>
            ELSE IF stop = {} THEN <<SetPrev(n, last), SetNext(n, None), SetNext(last, n)>>
            ELSE <<SetNext(n, x), SetPrev(n, p), SetPrev(x, n),
                   IF p # None THEN SetNext(p, n) ELSE SetHead(l, n)>>)
  <2> HIDE DEF s, stop, x, last, p
  <2> QED BY <1>1, <1>2, <1>3
<1>5. Works(<<SetContainer(n, l)>>
            \o (IF s = <<>> THEN <<SetHead(l, n)>>
                ELSE IF stop = {} THEN <<SetPrev(n, last), SetNext(n, None), SetNext(last, n)>>
                ELSE <<SetNext(n, x), SetPrev(n, p), SetPrev(x, n),
                       IF p # None THEN SetNext(p, n) ELSE SetHead(l, n)>>)
            \o <<SetLen(l, m.list[l].len + 1)>>)
  <2> HIDE DEF s, stop, x, last, p
  <2> QED BY <1>1, <1>4, WorksCat
<1> QED BY <1>5, Zenon DEF InsertSortedImpl

\* and inserting one and recovering the insertion.
LEMMA InsertWorks ==
  \A m, l, n, op, smaller :
      Works(OptimizedInsertSorted(m, l, n, op, smaller)) /\ Works(RecoverFailedInsertSorted(m, l, n, smaller))
<1> SUFFICES ASSUME NEW m, NEW l, NEW n, NEW op, NEW smaller
             PROVE  /\ Works(OptimizedInsertSorted(m, l, n, op, smaller))
                    /\ Works(RecoverFailedInsertSorted(m, l, n, smaller))
  OBVIOUS
<1>1. Works(OptimizedInsertSorted(m, l, n, op, smaller))
  <2>1. Works(<<StartOpLog(op, m.list[l].len), SetNext(n, None), SetPrev(n, None)>>)
    BY WorkStores, WorksThree
  <2> QED BY <2>1, InsertSortedWorks, WorksCat DEF OptimizedInsertSorted
<1>2. Works(RecoverFailedInsertSorted(m, l, n, smaller))
  <2> DEFINE x    == m.node[n].next
             p    == IF m.node[x].prev = n THEN m.node[n].prev ELSE m.node[x].prev
             redo == Apply(m, SetLen(l, OldLen(m)))
             fin  == <<SetContainer(n, l), SetLen(l, OldLen(m) + 1)>>
  <2>1. Works(fin)
    BY WorkStores, WorksTwo
  <2>2. Works(<<SetNext(n, None), SetPrev(n, None)>> \o InsertSortedImpl(m, l, n, smaller))
    BY WorkStores, WorksTwo, InsertSortedWorks, WorksCat
  <2>3. Works(When(m.node[x].prev # n, <<SetPrev(n, p), SetPrev(x, n)>>)
              \o <<IF p # None THEN SetNext(p, n) ELSE SetHead(l, n)>> \o fin)
    <3>1. Work(IF p # None THEN SetNext(p, n) ELSE SetHead(l, n))
      BY WorkStores
    <3>2. Works(When(m.node[x].prev # n, <<SetPrev(n, p), SetPrev(x, n)>>))
      BY WorkStores, WorksTwo, WorksWhen
    <3> HIDE DEF x, p, fin
    <3> QED BY <2>1, <3>1, <3>2, WorksOne, WorksCat
  <2>4. Works(<<SetNext(n, None), SetNext(m.node[n].prev, n)>> \o fin)
    <3>1. Works(<<SetNext(n, None), SetNext(m.node[n].prev, n)>>)
      BY WorkStores, WorksTwo
    <3> HIDE DEF fin
    <3> QED BY <2>1, <3>1, WorksCat
  <2>5. Works(<<SetLen(l, OldLen(m) + 1)>>)
    BY WorkStores, WorksOne
  <2>6. Works(<<SetLen(l, OldLen(m))>> \o InsertSortedImpl(redo, l, n, smaller))
    BY WorkStores, WorksOne, InsertSortedWorks, WorksCat
  <2>7. Works(IF m.node[n].list # l
              THEN <<SetNext(n, None), SetPrev(n, None)>> \o InsertSortedImpl(m, l, n, smaller)
              ELSE IF x # None
              THEN When(m.node[x].prev # n, <<SetPrev(n, p), SetPrev(x, n)>>)
                   \o <<IF p # None THEN SetNext(p, n) ELSE SetHead(l, n)>> \o fin
              ELSE IF m.node[n].prev # None
              THEN <<SetNext(n, None), SetNext(m.node[n].prev, n)>> \o fin
              ELSE IF m.list[l].head = n
              THEN <<SetLen(l, OldLen(m) + 1)>>
              ELSE <<SetLen(l, OldLen(m))>> \o InsertSortedImpl(redo, l, n, smaller))
    <3> HIDE DEF x, p, fin, redo
    <3> QED BY <2>2, <2>3, <2>4, <2>5, <2>6
  <2> QED BY <2>7, Zenon DEF RecoverFailedInsertSorted
<1> QED BY <1>1, <1>2

\* What a call stands for is work.
LEMMA BodyWorks ==
  ASSUME NEW c, c.field \in ListCalls
  PROVE  Works(Body(c))
<1>1. CASE c.field = "remove"
  <2>1. Body(c) = OptimizedRemove(pm, Active, c.val)
    BY <1>1 DEF Body
  <2> QED BY <2>1, RemoveWorks
<1>2. CASE c.field = "pop_front"
  <2>1. Body(c) = OptimizedPopFront(pm, Active)
    BY <1>2 DEF Body
  <2> QED BY <2>1, PopFrontWorks
<1>3. CASE c.field = "insert"
  <2>1. Body(c) = InsertTimer(c.val)
    BY <1>3 DEF Body
  <2> QED BY <2>1, InsertWorks DEF InsertTimer
<1>4. \A t, k : Work(SetActive(t, TRUE)) /\ Work(SetExpiry(t, k))
  BY DEF Work, SetActive, SetExpiry, Store
<1>5. CASE c.field = "activate"
  <2>1. Body(c) = <<SetActive(c.val, TRUE), SetExpiry(c.val, pm.timer[c.val].period)>>
    BY <1>5 DEF Body
  <2> QED BY <2>1, <1>4, WorksTwo
<1>6. CASE c.field = "activate_at_command"
  <2>1. Body(c) = <<SetActive(c.val, TRUE), SetExpiry(c.val, Replay.opaque + pm.timer[c.val].period)>>
    BY <1>6 DEF Body
  <2> QED BY <2>1, <1>4, WorksTwo
<1> QED BY <1>1, <1>2, <1>3, <1>5, <1>6 DEF ListCalls

(***************************************************************************)
(* What a store changes.                                                   *)
(***************************************************************************)
\* A store of work keeps the transaction's flags, what callbacks wrote and the
\* operation that is logged.
LEMMA ApplyWork ==
  ASSUME NEW m, MemOK(m), NEW s, Work(s), s.obj # "call"
  PROVE  /\ MemOK(Apply(m, s)) /\ Apply(m, s).tx = m.tx /\ Apply(m, s).user = m.user
         /\ Apply(m, s).log["log"].op = m.log["log"].op
<1>1. CASE s.obj \in {"node", "list", "timer"}
  <2>1. /\ Apply(m, s).tx = m.tx /\ Apply(m, s).user = m.user /\ Apply(m, s).log = m.log
        /\ DOMAIN Apply(m, s) = DOMAIN m
    BY <1>1 DEF MemOK, Apply
  <2> QED BY <2>1 DEF MemOK
<1>2. CASE s.obj = "log" /\ s.at = "log" /\ s.field \in {"block", "micro"}
  <2>1. /\ Apply(m, s).tx = m.tx /\ Apply(m, s).user = m.user
        /\ DOMAIN Apply(m, s) = DOMAIN m /\ DOMAIN Apply(m, s).log = DOMAIN m.log
        /\ DOMAIN Apply(m, s).log["log"] = DOMAIN m.log["log"]
        /\ Apply(m, s).log["log"].op = m.log["log"].op
    BY <1>2 DEF MemOK, Apply
  <2> QED BY <2>1 DEF MemOK
<1> QED BY <1>1, <1>2 DEF Work

\* SetTxOp changes the logged operation only,
LEMMA ApplyOp ==
  ASSUME NEW m, MemOK(m), NEW v
  PROVE  LET r == Apply(m, SetTxOp(v))
         IN  /\ MemOK(r) /\ r.tx = m.tx /\ r.user = m.user /\ r.list = m.list
             /\ r.log["log"].op = v /\ r.log["log"].micro = m.log["log"].micro
<1> DEFINE r == Apply(m, SetTxOp(v))
<1>1. /\ r.tx = m.tx /\ r.user = m.user /\ r.list = m.list
      /\ DOMAIN r = DOMAIN m /\ DOMAIN r.log = DOMAIN m.log
      /\ DOMAIN r.log["log"] = DOMAIN m.log["log"]
      /\ r.log["log"].op = v /\ r.log["log"].micro = m.log["log"].micro
  BY DEF MemOK, Apply, SetTxOp, Store
<1> HIDE DEF r
<1>2. MemOK(r)
  BY <1>1 DEF MemOK
<1> QED BY <1>1, <1>2 DEF r

\* StartOpLog the micro-operation,
LEMMA ApplyMicro ==
  ASSUME NEW m, MemOK(m)
  PROVE  LET r == Apply(m, StartOpLog("Invalid", 0))
         IN  /\ MemOK(r) /\ r.tx = m.tx /\ r.user = m.user /\ r.list = m.list
             /\ r.log["log"].op = m.log["log"].op /\ r.log["log"].micro.op = "Invalid"
<1> DEFINE r == Apply(m, StartOpLog("Invalid", 0))
<1>1. /\ r.tx = m.tx /\ r.user = m.user /\ r.list = m.list
      /\ DOMAIN r = DOMAIN m /\ DOMAIN r.log = DOMAIN m.log
      /\ DOMAIN r.log["log"] = DOMAIN m.log["log"]
      /\ r.log["log"].op = m.log["log"].op /\ r.log["log"].micro.op = "Invalid"
  BY DEF MemOK, Apply, StartOpLog, Store
<1> HIDE DEF r
<1>2. MemOK(r)
  BY <1>1 DEF MemOK
<1> QED BY <1>1, <1>2 DEF r

\* SetCommitted the flag TX_COMMITTED,
LEMMA ApplyCommitted ==
  ASSUME NEW m, MemOK(m), NEW b \in BOOLEAN
  PROVE  LET r == Apply(m, SetCommitted(b))
         IN  /\ MemOK(r) /\ r.log = m.log /\ r.user = m.user /\ r.list = m.list
             /\ r.tx["tx"].committed = b /\ r.tx["tx"].replay = m.tx["tx"].replay
<1> DEFINE r == Apply(m, SetCommitted(b))
<1>1. /\ r.log = m.log /\ r.user = m.user /\ r.list = m.list
      /\ DOMAIN r = DOMAIN m /\ DOMAIN r.tx = DOMAIN m.tx
      /\ DOMAIN r.tx["tx"] = DOMAIN m.tx["tx"]
      /\ r.tx["tx"].committed = b /\ r.tx["tx"].replay = m.tx["tx"].replay
  BY DEF MemOK, Apply, SetCommitted, Store
<1> HIDE DEF r
<1>2. MemOK(r)
  BY <1>1 DEF MemOK
<1> QED BY <1>1, <1>2 DEF r

\* SetReplay the recorded command,
LEMMA ApplyReplay ==
  ASSUME NEW m, MemOK(m), NEW x \in Queued \cup {None, Invalid}
  PROVE  LET r == Apply(m, SetReplay(x))
         IN  /\ MemOK(r) /\ r.log = m.log /\ r.user = m.user /\ r.list = m.list
             /\ r.tx["tx"].committed = m.tx["tx"].committed /\ r.tx["tx"].replay = x
<1> DEFINE r == Apply(m, SetReplay(x))
<1>1. /\ r.log = m.log /\ r.user = m.user /\ r.list = m.list
      /\ DOMAIN r = DOMAIN m /\ DOMAIN r.tx = DOMAIN m.tx
      /\ DOMAIN r.tx["tx"] = DOMAIN m.tx["tx"]
      /\ r.tx["tx"].committed = m.tx["tx"].committed /\ r.tx["tx"].replay = x
  BY DEF MemOK, Apply, SetReplay, Store
<1> HIDE DEF r
<1>2. MemOK(r)
  BY <1>1 DEF MemOK
<1> QED BY <1>1, <1>2 DEF r

\* and SetFired what the callback of one timer wrote.
LEMMA ApplyFired ==
  ASSUME NEW m, MemOK(m), NEW t, NEW v, t \in Timer => v \in 0 .. Wrap - 1
  PROVE  LET r == Apply(m, SetFired(t, v))
         IN  /\ MemOK(r) /\ r.log = m.log /\ r.tx = m.tx
             /\ \A x \in Timer : r.user[x].fired = IF x = t THEN v ELSE m.user[x].fired
<1> DEFINE r == Apply(m, SetFired(t, v))
<1>1. r.log = m.log /\ r.tx = m.tx /\ DOMAIN r = DOMAIN m
      /\ r.user = [m.user EXCEPT ![t] = [m.user[t] EXCEPT !["fired"] = v]]
  BY DEF MemOK, Apply, SetFired, Store
<1>2. m.user \in [Timer -> [fired : 0 .. Wrap - 1]]
  BY DEF MemOK, Written
<1>3. r.user \in Written
  BY <1>1, <1>2 DEF Written
<1>4. \A x \in Timer : r.user[x].fired = IF x = t THEN v ELSE m.user[x].fired
  BY <1>1, <1>2
<1> HIDE DEF r
<1>5. MemOK(r)
  BY <1>1, <1>3 DEF MemOK
<1> QED BY <1>1, <1>4, <1>5 DEF r

(***************************************************************************)
(* The steps of the daemon's code.                                         *)
(***************************************************************************)
Run ==
    \/ Receive \/ Look \/ QueueBlockUntilNotEmpty \/ UseJournal \/ Reach \/ StoreNext

rest == <<queue, call, asleep, until, ticks, script, sent, slip>>

\* The first step of todo tells which action is taken.
LEMMA Which ==
  ASSUME Run
  PROVE  /\ todo # <<>>
         /\ Head(todo).obj # "call" => StoreNext
         /\ Head(todo).obj = "call" =>
               /\ Head(todo).field = "receive" => Receive
               /\ Head(todo).field = "look" => Look
               /\ Head(todo).field = "block" => QueueBlockUntilNotEmpty
               /\ Head(todo).field \in {"log", "clear_journal"} => UseJournal
               /\ Head(todo).field \in ListCalls => Reach
<1>1. Receive => Reached("receive")
  BY DEF Receive
<1>2. Look => Reached("look")
  BY DEF Look
<1>3. QueueBlockUntilNotEmpty => Reached("block")
  BY DEF QueueBlockUntilNotEmpty
<1>4. UseJournal => Reached("log") \/ Reached("clear_journal")
  BY DEF UseJournal
<1>5. Reach => \E f \in ListCalls : Reached(f)
  BY DEF Reach, ListCalls
<1>6. StoreNext => todo # <<>> /\ Head(todo).obj # "call"
  BY DEF StoreNext
<1> QED BY <1>1, <1>2, <1>3, <1>4, <1>5, <1>6 DEF Run, Reached, ListCalls

\* A store that is none of the two the history takes note of.
LEMMA PlainStore ==
  ASSUME Types, Run, NEW s, Head(todo) = s, s.obj # "call", s.obj # "tx",
         s # SetTxOp(OpCommitted)
  PROVE  /\ pm' = Apply(pm, s) /\ todo' = Tail(todo)
         /\ UNCHANGED <<undo, at, serving, served, done, rest>>
<1>1. StoreNext
  BY Which
<1>2. s # SetCommitted(FALSE) /\ s # SetCommitted(TRUE)
  BY DEF SetCommitted, Store
<1>3. s # SetTxOp("ActiveListTxCommitted")
  BY DEF OpCommitted
<1> QED BY <1>1, <1>2, <1>3 DEF StoreNext, rest

\* Types are kept where memory and the journal keep theirs.
LEMMA TypesAre ==
  ASSUME Types, MemOK(pm'), undo' \in Written \cup {None},
         UNCHANGED <<served, done, rest>>
  PROVE  Types'
BY DEF Types, rest

\* A step of work leaves work in front of the same code.
LEMMA WorkStep ==
  ASSUME Types, Run, NEW n, NEW K, todo = n \o K, Works(n), n # <<>>, IsSeq(K)
  PROVE  /\ \E w : Works(w) /\ todo' = w \o K
         /\ Types' /\ pm'.tx = pm.tx /\ pm'.user = pm.user /\ Log'.op = Log.op
         /\ UNCHANGED <<undo, at, serving, served, done, rest>>
<1> DEFINE s == Head(n)
<1>1. Work(s) /\ Works(Tail(n)) /\ IsSeq(n)
  BY WorksHead
<1>2. Head(todo) = s /\ Tail(todo) = Tail(n) \o K /\ IsSeq(Tail(n))
  BY <1>1, Cat
<1> HIDE DEF s
<1>3. CASE s.obj = "call"
  <2>1. s.field \in ListCalls
    BY <1>1, <1>3 DEF Work
  <2>2. Reach
    BY <1>2, <1>3, <2>1, Which
  <2>3. /\ todo' = Body(s) \o Tail(todo)
        /\ UNCHANGED <<pm, undo, at, serving, served, done, rest>>
    BY <1>2, <2>2 DEF Reach, rest, history
  <2>4. Works(Body(s))
    BY <2>1, BodyWorks
  <2>5. Works(Body(s) \o Tail(n))
    BY <1>1, <2>4, WorksCat
  <2>6. todo' = (Body(s) \o Tail(n)) \o K
    <3>1. IsSeq(Body(s)) /\ IsSeq(Tail(n)) /\ IsSeq(K)
      BY <1>2, <2>4 DEF Works
    <3>2. (Body(s) \o Tail(n)) \o K = Body(s) \o (Tail(n) \o K)
      <4> DEFINE x == Body(s)
                 y == Tail(n)
      <4>1. IsSeq(x) /\ IsSeq(y)
        BY <3>1
      <4> HIDE DEF x, y
      <4>2. (x \o y) \o K = x \o (y \o K)
        <5>1. Assoc(x, y, K)
          BY <3>1, <4>1, Associates
        <5> QED BY <5>1 DEF Assoc
      <4> QED BY <4>2 DEF x, y
    <3>3. todo' = Body(s) \o (Tail(n) \o K)
      BY <1>2, <2>3, Zenon
    <3> QED BY <3>2, <3>3, Zenon
  <2>7. Types'
    BY <2>3, TypesAre DEF Types
  <2> QED BY <2>3, <2>5, <2>6, <2>7 DEF Log
<1>4. CASE s.obj # "call"
  <2>1. s.obj # "tx" /\ s # SetTxOp(OpCommitted)
    BY <1>1 DEF Work, SetTxOp, Store
  <2>2. /\ pm' = Apply(pm, s) /\ todo' = Tail(todo)
        /\ UNCHANGED <<undo, at, serving, served, done, rest>>
    BY <1>2, <1>4, <2>1, PlainStore
  <2>3. MemOK(pm)
    BY DEF Types
  <2>4. /\ MemOK(pm') /\ pm'.tx = pm.tx /\ pm'.user = pm.user
        /\ pm'.log["log"].op = pm.log["log"].op
    BY <1>1, <1>4, <2>2, <2>3, ApplyWork
  <2>5. Types'
    BY <2>2, <2>4, TypesAre DEF Types
  <2> QED BY <1>1, <1>2, <2>2, <2>4, <2>5 DEF Log
<1> QED BY <1>3, <1>4

\* The step of SetTxOp; behind ActiveListTxCommitted an expiry is served.
LEMMA OpStep ==
  ASSUME Types, Run, NEW v, Head(todo) = SetTxOp(v)
  PROVE  /\ todo' = Tail(todo) /\ Types'
         /\ pm'.tx = pm.tx /\ pm'.user = pm.user /\ pm'.list = pm.list
         /\ Log'.op = v /\ MicroOp(pm)' = MicroOp(pm)
         /\ v # OpCommitted => UNCHANGED served
         /\ v = OpCommitted => served' = [t \in Timer |-> IF t = serving THEN (served[t] + 1) % Wrap
                                                          ELSE served[t]]
         /\ UNCHANGED <<undo, at, serving, done, rest>>
<1>1. StoreNext
  BY Which DEF SetTxOp, Store
<1>2. /\ SetTxOp(v) # SetCommitted(FALSE) /\ SetTxOp(v) # SetCommitted(TRUE)
      /\ (SetTxOp(v) = SetTxOp("ActiveListTxCommitted") <=> v = OpCommitted)
  BY DEF SetCommitted, SetTxOp, Store, OpCommitted
<1>3. /\ pm' = Apply(pm, SetTxOp(v)) /\ todo' = Tail(todo)
      /\ UNCHANGED <<undo, at, serving, done, rest>>
      /\ served' = IF v = OpCommitted /\ serving # None
                   THEN [served EXCEPT ![serving] = (@ + 1) % Wrap] ELSE served
  BY <1>1, <1>2 DEF StoreNext, rest
<1>4. LET r == Apply(pm, SetTxOp(v))
      IN  /\ MemOK(r) /\ r.tx = pm.tx /\ r.user = pm.user /\ r.list = pm.list
          /\ r.log["log"].op = v /\ r.log["log"].micro = pm.log["log"].micro
  BY ApplyOp DEF Types
<1>5. /\ MemOK(pm') /\ pm'.tx = pm.tx /\ pm'.user = pm.user /\ pm'.list = pm.list
      /\ Log'.op = v /\ MicroOp(pm)' = MicroOp(pm)
  BY <1>3, <1>4 DEF Log, MicroOp
<1>6. served \in [Timer -> Nat] /\ None \notin Timer /\ Wrap \in Nat \ {0}
  BY TimerAssumption DEF Types
<1>7. v = OpCommitted => served' = [t \in Timer |-> IF t = serving THEN (served[t] + 1) % Wrap
                                                    ELSE served[t]]
  BY <1>3, <1>6
<1>8. served' \in [Timer -> Nat]
  <2>1. \A t \in Timer : (served[t] + 1) % Wrap \in Nat
    BY <1>6
  <2> QED BY <1>3, <1>6, <1>7, <2>1
<1>9. Types'
  BY <1>3, <1>5, <1>8 DEF Types, rest
<1> QED BY <1>3, <1>5, <1>7, <1>9

\* The step that clears the micro-operation.
LEMMA MicroStep ==
  ASSUME Types, Run, Head(todo) = StartOpLog("Invalid", 0)
  PROVE  /\ todo' = Tail(todo) /\ Types'
         /\ pm'.tx = pm.tx /\ pm'.user = pm.user /\ pm'.list = pm.list
         /\ Log'.op = Log.op /\ MicroOp(pm)' = "Invalid"
         /\ UNCHANGED <<undo, at, serving, served, done, rest>>
<1>1. /\ StartOpLog("Invalid", 0).obj = "log"
      /\ StartOpLog("Invalid", 0) # SetTxOp(OpCommitted)
  BY DEF StartOpLog, SetTxOp, Store
<1>2. /\ pm' = Apply(pm, StartOpLog("Invalid", 0)) /\ todo' = Tail(todo)
      /\ UNCHANGED <<undo, at, serving, served, done, rest>>
  BY <1>1, PlainStore
<1>3. LET r == Apply(pm, StartOpLog("Invalid", 0))
      IN  /\ MemOK(r) /\ r.tx = pm.tx /\ r.user = pm.user /\ r.list = pm.list
          /\ r.log["log"].op = pm.log["log"].op /\ r.log["log"].micro.op = "Invalid"
  BY ApplyMicro DEF Types
<1>4. /\ MemOK(pm') /\ pm'.tx = pm.tx /\ pm'.user = pm.user /\ pm'.list = pm.list
      /\ Log'.op = Log.op /\ MicroOp(pm)' = "Invalid"
  BY <1>2, <1>3 DEF Log, MicroOp
<1>5. Types'
  BY <1>2, <1>4, TypesAre DEF Types
<1> QED BY <1>2, <1>4, <1>5

\* The step with which a callback counts its call.
LEMMA FiredStep ==
  ASSUME Types, Run, NEW t, NEW v, t \in Timer => v \in 0 .. Wrap - 1, Head(todo) = SetFired(t, v)
  PROVE  /\ todo' = Tail(todo) /\ Types' /\ pm'.tx = pm.tx /\ pm'.log = pm.log
         /\ \A x \in Timer : pm'.user[x].fired = IF x = t THEN v ELSE pm.user[x].fired
         /\ UNCHANGED <<undo, at, serving, served, done, rest>>
<1>1. SetFired(t, v).obj = "user" /\ SetFired(t, v) # SetTxOp(OpCommitted)
  BY DEF SetFired, SetTxOp, Store
<1>2. /\ pm' = Apply(pm, SetFired(t, v)) /\ todo' = Tail(todo)
      /\ UNCHANGED <<undo, at, serving, served, done, rest>>
  BY <1>1, PlainStore
<1>3. LET r == Apply(pm, SetFired(t, v))
      IN  /\ MemOK(r) /\ r.log = pm.log /\ r.tx = pm.tx
          /\ \A x \in Timer : r.user[x].fired = IF x = t THEN v ELSE pm.user[x].fired
  BY ApplyFired DEF Types
<1>4. MemOK(pm') /\ pm'.log = pm.log /\ pm'.tx = pm.tx
      /\ \A x \in Timer : pm'.user[x].fired = IF x = t THEN v ELSE pm.user[x].fired
  BY <1>2, <1>3
<1>5. Types'
  BY <1>2, <1>4, TypesAre DEF Types
<1> QED BY <1>2, <1>4, <1>5

\* Committing notes the command in hand as done.
LEMMA CommittedStep ==
  ASSUME Types, Run, NEW b \in BOOLEAN, Head(todo) = SetCommitted(b)
  PROVE  /\ todo' = Tail(todo) /\ Types'
         /\ pm'.log = pm.log /\ pm'.user = pm.user /\ pm'.list = pm.list
         /\ Committed' = b /\ Replay' = Replay
         /\ serving' = IF b THEN serving ELSE IF at = "expired" THEN Head0 ELSE None
         /\ done' = IF b /\ serving = None /\ Replay # None /\ Replay.cmd # "Invalid"
                    THEN Append(done, Replay.id) ELSE done
         /\ UNCHANGED <<undo, at, served, rest>>
<1>1. StoreNext
  BY Which DEF SetCommitted, Store
<1>2. /\ (SetCommitted(b) # SetCommitted(FALSE)) <=> b
      /\ (SetCommitted(b) = SetCommitted(TRUE)) <=> b
      /\ SetCommitted(b) # SetTxOp("ActiveListTxCommitted")
  <2>1. CASE b = TRUE
    BY <2>1 DEF SetCommitted, SetTxOp, Store
  <2>2. CASE b = FALSE
    BY <2>2 DEF SetCommitted, SetTxOp, Store
  <2> QED BY <2>1, <2>2
<1>3. /\ pm' = Apply(pm, SetCommitted(b)) /\ todo' = Tail(todo)
      /\ UNCHANGED <<undo, at, served, rest>>
      /\ serving' = IF b THEN serving ELSE IF at = "expired" THEN Head0 ELSE None
      /\ done' = IF b /\ serving = None /\ Replay # None /\ Replay.cmd # "Invalid"
                 THEN Append(done, Replay.id) ELSE done
  BY <1>1, <1>2, Zenon DEF StoreNext, rest
<1>4. LET r == Apply(pm, SetCommitted(b))
      IN  /\ MemOK(r) /\ r.log = pm.log /\ r.user = pm.user /\ r.list = pm.list
          /\ r.tx["tx"].committed = b /\ r.tx["tx"].replay = pm.tx["tx"].replay
  BY ApplyCommitted DEF Types
<1>5. /\ MemOK(pm') /\ pm'.log = pm.log /\ pm'.user = pm.user /\ pm'.list = pm.list
      /\ pm'.tx["tx"].committed = b /\ pm'.tx["tx"].replay = pm.tx["tx"].replay
  BY <1>3, <1>4, Zenon
<1>6. done' \in Seq(Nat)
  <2>1. Replay \in Queued \cup {None, Invalid} /\ done \in Seq(Nat)
    BY DEF Types, MemOK, Replay
  <2>2. Replay # None /\ Replay.cmd # "Invalid" => Replay.id \in Nat
    BY <2>1 DEF Queued, Invalid
  <2> QED BY <1>3, <2>1, <2>2
<1>7. Types'
  BY <1>3, <1>5, <1>6 DEF Types, rest
<1> QED BY <1>3, <1>5, <1>7 DEF Committed, Replay

\* The step that forgets the recorded command.
LEMMA ReplayStep ==
  ASSUME Types, Run, Head(todo) = SetReplay(None)
  PROVE  /\ todo' = Tail(todo) /\ Types'
         /\ pm'.log = pm.log /\ pm'.user = pm.user /\ pm'.list = pm.list
         /\ Committed' = Committed /\ Replay' = None
         /\ UNCHANGED <<undo, at, serving, served, done, rest>>
<1>1. StoreNext
  BY Which DEF SetReplay, Store
<1>2. /\ SetReplay(None) # SetCommitted(FALSE) /\ SetReplay(None) # SetCommitted(TRUE)
      /\ SetReplay(None) # SetTxOp("ActiveListTxCommitted")
  BY DEF SetReplay, SetCommitted, SetTxOp, Store
<1>3. /\ pm' = Apply(pm, SetReplay(None)) /\ todo' = Tail(todo)
      /\ UNCHANGED <<undo, at, serving, served, done, rest>>
  BY <1>1, <1>2 DEF StoreNext, rest
<1>4. LET r == Apply(pm, SetReplay(None))
      IN  /\ MemOK(r) /\ r.log = pm.log /\ r.user = pm.user /\ r.list = pm.list
          /\ r.tx["tx"].committed = pm.tx["tx"].committed /\ r.tx["tx"].replay = None
  BY ApplyReplay DEF Types
<1>5. /\ MemOK(pm') /\ pm'.log = pm.log /\ pm'.user = pm.user /\ pm'.list = pm.list
      /\ pm'.tx["tx"].committed = pm.tx["tx"].committed /\ pm'.tx["tx"].replay = None
  BY <1>3, <1>4
<1>6. Types'
  BY <1>3, <1>5, TypesAre DEF Types
<1> QED BY <1>3, <1>5, <1>6 DEF Committed, Replay

\* The steps that log the old value and that clear the journal.
LEMMA JournalStep ==
  ASSUME Types, Run, NEW f \in {"log", "clear_journal"}, Head(todo) = Call(f, None)
  PROVE  /\ todo' = Tail(todo) /\ Types'
         /\ undo' = IF f = "log" THEN pm.user ELSE None
         /\ UNCHANGED <<pm, at, serving, served, done, rest>>
<1>1. UseJournal /\ Head(todo).field = f /\ Head(todo).obj = "call" /\ todo # <<>>
  BY Which DEF Call
<1>2. Reached("log") <=> f = "log"
  BY <1>1 DEF Reached
<1>3. /\ todo' = Tail(todo) /\ undo' = IF f = "log" THEN pm.user ELSE None
      /\ UNCHANGED <<pm, at, serving, served, done, rest>>
  BY <1>1, <1>2 DEF UseJournal, rest, history
<1>4. undo' \in Written \cup {None}
  BY <1>3 DEF Types, MemOK
<1>5. Types'
  BY <1>3, <1>4, TypesAre DEF Types
<1> QED BY <1>3, <1>5

(***************************************************************************)
(* The shapes of the code.                                                 *)
(***************************************************************************)
\* The ends of the transactions, step by step.
LEMMA Ends ==
  /\ IsSeq(EndExpire) /\ EndExpire # <<>> /\ Head(EndExpire) = SetCommitted(TRUE)
  /\ Tail(EndExpire) = <<Call("clear_journal", None)>>
  /\ IsSeq(EndReceive) /\ EndReceive # <<>> /\ Head(EndReceive) = SetCommitted(TRUE)
  /\ Tail(EndReceive) = <<Call("clear_journal", None), SetReplay(None)>>
  /\ IsSeq(EndBoot) /\ EndBoot # <<>> /\ Head(EndBoot) = Call("clear_journal", None)
  /\ Tail(EndBoot) = <<SetCommitted(TRUE), SetReplay(None), SetTxOp("Invalid")>>
  /\ EndExpire = CommitNoReplay
<1>1. EndExpire = CommitNoReplay
  BY DEF EndExpire, CommitNoReplay
<1>2. /\ IsSeq(EndExpire) /\ EndExpire # <<>> /\ Head(EndExpire) = SetCommitted(TRUE)
      /\ Tail(EndExpire) = <<Call("clear_journal", None)>>
  BY Tuple2, Zenon DEF EndExpire
<1>3. /\ IsSeq(EndReceive) /\ EndReceive # <<>> /\ Head(EndReceive) = SetCommitted(TRUE)
      /\ Tail(EndReceive) = <<Call("clear_journal", None), SetReplay(None)>>
  <2> DEFINE x == SetCommitted(TRUE)
             y == Call("clear_journal", None)
             z == SetReplay(None)
  <2> HIDE DEF x, y, z
  <2>1. IsSeq(<<x, y, z>>) /\ <<x, y, z>> # <<>> /\ Head(<<x, y, z>>) = x /\ Tail(<<x, y, z>>) = <<y, z>>
    BY Tuple3
  <2> QED BY <2>1 DEF EndReceive, x, y, z
<1>4. /\ IsSeq(EndBoot) /\ EndBoot # <<>> /\ Head(EndBoot) = Call("clear_journal", None)
      /\ Tail(EndBoot) = <<SetCommitted(TRUE), SetReplay(None), SetTxOp("Invalid")>>
  <2> DEFINE w == Call("clear_journal", None)
             x == SetCommitted(TRUE)
             y == SetReplay(None)
             z == SetTxOp("Invalid")
  <2> HIDE DEF w, x, y, z
  <2>1. /\ IsSeq(<<w, x, y, z>>) /\ <<w, x, y, z>> # <<>> /\ Head(<<w, x, y, z>>) = w
        /\ Tail(<<w, x, y, z>>) = <<x, y, z>>
    BY Tuple4
  <2> QED BY <2>1 DEF EndBoot, w, x, y, z
<1> QED BY <1>1, <1>2, <1>3, <1>4

\* Each of them is a sequence with a first step.
LEMMA EndSeq == \A e : EndIs(e) => IsSeq(e) /\ e # <<>>
BY Ends DEF EndIs

\* The code in front of a transaction and behind its list operation, step by step.
LEMMA Fronts ==
  ASSUME NEW K, IsSeq(K)
  PROVE  /\ IsSeq(Invalidate \o K) /\ Head(Invalidate \o K) = StartOpLog("Invalid", 0)
         /\ Tail(Invalidate \o K) = InvalidateActivelist \o K
         /\ IsSeq(InvalidateActivelist \o K)
         /\ Head(InvalidateActivelist \o K) = SetTxOp("Invalid")
         /\ Tail(InvalidateActivelist \o K) = K
         /\ IsSeq(Begin \o K) /\ Head(Begin \o K) = SetCommitted(FALSE) /\ Tail(Begin \o K) = K
         /\ IsSeq(CommitActivelist \o K) /\ Head(CommitActivelist \o K) = SetTxOp(OpCommitted)
         /\ Tail(CommitActivelist \o K) = <<StartOpLog("Invalid", 0)>> \o K
<1>1. ASSUME NEW x, NEW y
      PROVE  /\ IsSeq(<<x, y>> \o K) /\ Head(<<x, y>> \o K) = x /\ Tail(<<x, y>> \o K) = <<y>> \o K
  <2>1. IsSeq(<<x, y>>) /\ <<x, y>> # <<>> /\ Head(<<x, y>>) = x /\ Tail(<<x, y>>) = <<y>>
    BY Tuple2
  <2> DEFINE a == <<x, y>>
  <2>2. IsSeq(a) /\ a # <<>> /\ Head(a) = x /\ Tail(a) = <<y>>
    BY <2>1
  <2> HIDE DEF a
  <2>3. IsSeq(a \o K) /\ Head(a \o K) = Head(a) /\ Tail(a \o K) = Tail(a) \o K
    BY <2>2, Cat, Zenon
  <2>4. IsSeq(a \o K) /\ Head(a \o K) = x /\ Tail(a \o K) = <<y>> \o K
    BY <2>2, <2>3, Zenon
  <2> QED BY <2>4 DEF a
<1>2. /\ IsSeq(Invalidate \o K) /\ Head(Invalidate \o K) = StartOpLog("Invalid", 0)
      /\ Tail(Invalidate \o K) = InvalidateActivelist \o K
  BY <1>1, Zenon DEF Invalidate, InvalidateActivelist
<1>3. /\ IsSeq(CommitActivelist \o K) /\ Head(CommitActivelist \o K) = SetTxOp(OpCommitted)
      /\ Tail(CommitActivelist \o K) = <<StartOpLog("Invalid", 0)>> \o K
  BY <1>1, Zenon DEF CommitActivelist, OpCommitted
<1>4. /\ IsSeq(InvalidateActivelist \o K) /\ Tail(InvalidateActivelist \o K) = K
      /\ Head(InvalidateActivelist \o K) = SetTxOp("Invalid")
  BY Cons, Zenon DEF InvalidateActivelist
<1>5. IsSeq(Begin \o K) /\ Head(Begin \o K) = SetCommitted(FALSE) /\ Tail(Begin \o K) = K
  BY Cons, Zenon DEF Begin
<1> QED BY <1>2, <1>3, <1>4, <1>5

\* A list transaction behind a and in front of e.
TxAssoc(a, b, o, m, C, e) ==
    (a \o ((b \o (o \o m)) \o C)) \o e = (a \o b) \o (o \o (m \o (C \o e)))

\* The parts of a transaction, grouped from the front.
LEMMA TxShape ==
  \A a, b, o, m, C, e :
      IsSeq(a) /\ IsSeq(b) /\ IsSeq(o) /\ IsSeq(m) /\ IsSeq(C) /\ IsSeq(e) => TxAssoc(a, b, o, m, C, e)
<1> SUFFICES ASSUME NEW a, NEW b, NEW o, NEW m, NEW C, NEW e,
                    IsSeq(a), IsSeq(b), IsSeq(o), IsSeq(m), IsSeq(C), IsSeq(e)
             PROVE  TxAssoc(a, b, o, m, C, e)
  OBVIOUS
<1> DEFINE om == o \o m
           mC == m \o C
           Ce == C \o e
           ab == a \o b
           X  == o \o mC
<1>1. IsSeq(om)
  BY Cat
<1>9. IsSeq(mC)
  BY Cat
<1>10. IsSeq(ab)
  BY Cat
<1>2. om \o C = X
  <2>1. Assoc(o, m, C)
    BY Associates
  <2> QED BY <2>1 DEF Assoc
<1>3. mC \o e = m \o Ce
  <2>1. Assoc(m, C, e)
    BY Associates
  <2> QED BY <2>1 DEF Assoc
<1> HIDE DEF om, mC, Ce, ab
<1>4. X \o e = o \o (m \o Ce) /\ IsSeq(X)
  <2>1. (o \o mC) \o e = o \o (mC \o e)
    <3>1. Assoc(o, mC, e)
      BY <1>9, Associates
    <3> QED BY <3>1 DEF Assoc
  <2>2. IsSeq(o \o mC)
    BY <1>9, Cat
  <2> QED BY <1>3, <2>1, <2>2
<1> HIDE DEF X
<1>5. (b \o om) \o C = b \o X
  <2>1. (b \o om) \o C = b \o (om \o C)
    <3>1. Assoc(b, om, C)
      BY <1>1, Associates
    <3> QED BY <3>1 DEF Assoc
  <2> QED BY <1>2, <2>1
<1>6. a \o (b \o X) = ab \o X
  <2>1. IsSeq(X)
    BY <1>4
  <2>2. Assoc(a, b, X)
    BY <2>1, Associates
  <2> QED BY <2>2 DEF Assoc, ab
<1>7. (ab \o X) \o e = ab \o (X \o e)
  <2>1. IsSeq(X)
    BY <1>4
  <2>2. Assoc(ab, X, e)
    BY <1>10, <2>1, Associates
  <2> QED BY <2>2 DEF Assoc
<1>8. (a \o ((b \o om) \o C)) \o e = ab \o (o \o (m \o Ce))
  BY <1>4, <1>5, <1>6, <1>7
<1> QED BY <1>8 DEF TxAssoc, om, Ce, ab

IsTx(s, e) ==
    \E n, op, m : /\ s = n \o (<<SetTxOp(op)>> \o (m \o (CommitActivelist \o e)))
                  /\ Works(n) /\ Works(m) /\ op \notin {"Invalid", OpCommitted}

\* The calls of list operations and the stores in front of them are work.
LEMMA WorkCalls ==
  /\ \A f \in ListCalls : \A x : Work(Call(f, x))
  /\ \A x, b : Work(SetActive(x, b)) /\ Work(SetPeriod(x, b)) /\ Work(SetBlockNode(x))
BY DEF Work, Call, SetActive, SetPeriod, SetBlockNode, Store

\* A list transaction behind some work has the form of IsTx.
LEMMA ListTxs ==
  ASSUME NEW a, Works(a), NEW t, NEW e, IsSeq(e)
  PROVE  /\ IsTx((a \o RemoveFromActivelist(t)) \o e, e)
         /\ IsTx((a \o RemoveReinsertIntoActivelist(t)) \o e, e)
         /\ IsTx((a \o PopReinsertIntoActivelist(t)) \o e, e)
<1>1. IsSeq(CommitActivelist)
  BY Tuple2 DEF CommitActivelist
<1>2. Works(a \o <<SetBlockNode(t)>>)
  BY WorkCalls, WorksOne, WorksCat
<1>3. /\ Works(<<Call("remove", t)>>) /\ Works(<<Call("remove", t), Call("insert", t)>>)
      /\ Works(<<Call("pop_front", t), Call("insert", t)>>)
  BY WorkCalls, WorksOne, WorksTwo DEF ListCalls
<1>4. ASSUME NEW op, op \notin {"Invalid", OpCommitted}, NEW m, Works(m), NEW s,
             s = <<SetBlockNode(t)>> \o (<<SetTxOp(op)>> \o m)
      PROVE  IsTx((a \o (s \o CommitActivelist)) \o e, e)
  <2>1. (a \o (s \o CommitActivelist)) \o e
        = (a \o <<SetBlockNode(t)>>) \o (<<SetTxOp(op)>> \o (m \o (CommitActivelist \o e)))
    <3> DEFINE b == <<SetBlockNode(t)>>
               o == <<SetTxOp(op)>>
    <3>1. IsSeq(b) /\ IsSeq(o)
      BY Tuple1
    <3>2. IsSeq(a) /\ IsSeq(m)
      BY <1>4 DEF Works
    <3>3. s = b \o (o \o m)
      BY <1>4
    <3> HIDE DEF b, o
    <3>4. (a \o ((b \o (o \o m)) \o CommitActivelist)) \o e
          = (a \o b) \o (o \o (m \o (CommitActivelist \o e)))
      <4>1. TxAssoc(a, b, o, m, CommitActivelist, e)
        BY <1>1, <3>1, <3>2, TxShape
      <4> QED BY <4>1 DEF TxAssoc
    <3> QED BY <3>3, <3>4 DEF b, o
  <2> QED BY <1>2, <1>4, <2>1 DEF IsTx
<1>5. IsTx((a \o RemoveFromActivelist(t)) \o e, e)
  <2>1. <<SetBlockNode(t), SetTxOp("ActiveListRemove"), Call("remove", t)>>
        = <<SetBlockNode(t)>> \o (<<SetTxOp("ActiveListRemove")>> \o <<Call("remove", t)>>)
    <3> DEFINE w == SetBlockNode(t)
               x == SetTxOp("ActiveListRemove")
               y == Call("remove", t)
    <3> HIDE DEF w, x, y
    <3>1. <<w, x, y>> = <<w>> \o <<x, y>>
      BY Tuple3
    <3>2. <<x, y>> = <<x>> \o <<y>>
      BY Tuple2
    <3> QED BY <3>1, <3>2 DEF w, x, y
  <2> QED BY <1>3, <1>4, <2>1 DEF RemoveFromActivelist, OpCommitted
<1>6. IsTx((a \o RemoveReinsertIntoActivelist(t)) \o e, e)
  <2>1. <<SetBlockNode(t), SetTxOp("ActiveListRemoveReInsert"), Call("remove", t), Call("insert", t)>>
        = <<SetBlockNode(t)>> \o (<<SetTxOp("ActiveListRemoveReInsert")>>
                                  \o <<Call("remove", t), Call("insert", t)>>)
    <3> DEFINE w == SetBlockNode(t)
               x == SetTxOp("ActiveListRemoveReInsert")
               y == Call("remove", t)
               z == Call("insert", t)
    <3> HIDE DEF w, x, y, z
    <3>1. <<w, x, y, z>> = <<w>> \o <<x, y, z>>
      BY Tuple4
    <3>2. <<x, y, z>> = <<x>> \o <<y, z>>
      BY Tuple3
    <3> QED BY <3>1, <3>2 DEF w, x, y, z
  <2> QED BY <1>3, <1>4, <2>1 DEF RemoveReinsertIntoActivelist, OpCommitted
<1>7. IsTx((a \o PopReinsertIntoActivelist(t)) \o e, e)
  <2>1. <<SetBlockNode(t), SetTxOp("ActiveListPopReInsert"), Call("pop_front", t), Call("insert", t)>>
        = <<SetBlockNode(t)>> \o (<<SetTxOp("ActiveListPopReInsert")>>
                                  \o <<Call("pop_front", t), Call("insert", t)>>)
    <3> DEFINE w == SetBlockNode(t)
               x == SetTxOp("ActiveListPopReInsert")
               y == Call("pop_front", t)
               z == Call("insert", t)
    <3> HIDE DEF w, x, y, z
    <3>1. <<w, x, y, z>> = <<w>> \o <<x, y, z>>
      BY Tuple4
    <3>2. <<x, y, z>> = <<x>> \o <<y, z>>
      BY Tuple3
    <3> QED BY <3>1, <3>2 DEF w, x, y, z
  <2> QED BY <1>3, <1>4, <2>1 DEF PopReinsertIntoActivelist, OpCommitted
<1> QED BY <1>5, <1>6, <1>7

\* A transaction of that form is a sequence.
LEMMA TxSeq == \A s, e : IsTx(s, e) /\ IsSeq(e) => IsSeq(s)
<1> SUFFICES ASSUME NEW s, NEW e, IsTx(s, e), IsSeq(e) PROVE IsSeq(s)
  OBVIOUS
<1>1. PICK n, op, m : /\ s = n \o (<<SetTxOp(op)>> \o (m \o (CommitActivelist \o e)))
                      /\ Works(n) /\ Works(m)
  BY DEF IsTx
<1>2. IsSeq(CommitActivelist \o e)
  BY Fronts
<1>3. IsSeq(m \o (CommitActivelist \o e))
  BY <1>1, <1>2, Cat DEF Works
<1>4. IsSeq(<<SetTxOp(op)>> \o (m \o (CommitActivelist \o e)))
  BY <1>3, Cons
<1> QED BY <1>1, <1>4, Cat DEF Works

\* The transaction of an expiry has that form.
LEMMA ServeIs == \A t : IsTx(Serve(t), EndExpire) /\ IsSeq(Serve(t))
<1> SUFFICES ASSUME NEW t PROVE IsTx(Serve(t), EndExpire)
  BY TxSeq, Ends
<1>1. Works(<<Call("activate", t)>>) /\ Works(<<SetActive(t, FALSE)>>)
  BY WorkCalls, WorksOne DEF ListCalls
<1>2. CASE t \in AutoReload
  <2>1. Serve(t) = (<<Call("activate", t)>> \o PopReinsertIntoActivelist(t)) \o EndExpire
    BY <1>2, Ends DEF Serve
  <2>2. IsTx((<<Call("activate", t)>> \o PopReinsertIntoActivelist(t)) \o EndExpire, EndExpire)
    BY <1>1, Ends, ListTxs
  <2> QED BY <2>1, <2>2
<1>3. CASE t \notin AutoReload
  <2>1. Serve(t) = (<<SetActive(t, FALSE)>> \o RemoveFromActivelist(t)) \o EndExpire
    BY <1>3, Ends DEF Serve
  <2>2. IsTx((<<SetActive(t, FALSE)>> \o RemoveFromActivelist(t)) \o EndExpire, EndExpire)
    BY <1>1, Ends, ListTxs
  <2> QED BY <2>1, <2>2
<1> QED BY <1>2, <1>3

\* The end of the transaction of a command is its commit and user_tx_end.
LEMMA EndReceiveIs == EndReceive = CommitNoReplay \o UserTxEnd /\ IsSeq(CommitNoReplay) /\ IsSeq(UserTxEnd)
<1> DEFINE x == SetCommitted(TRUE)
           y == Call("clear_journal", None)
           z == SetReplay(None)
<1> HIDE DEF x, y, z
<1>1. <<x, y, z>> = <<x>> \o <<y, z>>
  BY Tuple3
<1>2. <<y, z>> = <<y>> \o <<z>> /\ <<x, y>> = <<x>> \o <<y>> /\ IsSeq(<<x, y>>)
  BY Tuple2
<1>3. IsSeq(<<x>>) /\ IsSeq(<<y>>) /\ IsSeq(<<z>>)
  BY Tuple1
<1>4. (<<x>> \o <<y>>) \o <<z>> = <<x>> \o (<<y>> \o <<z>>)
  <2>1. Assoc(<<x>>, <<y>>, <<z>>)
    BY <1>3, Associates
  <2> QED BY <2>1, Zenon DEF Assoc
<1>5. <<x, y, z>> = <<x, y>> \o <<z>>
  BY <1>1, <1>2, <1>4, Zenon
<1> QED BY <1>2, <1>3, <1>5, Zenon DEF EndReceive, CommitNoReplay, UserTxEnd, x, y, z

\* What a received command leads to.
LEMMA DispatchIs ==
  ASSUME NEW msg \in Queued \cup {Invalid}
  PROVE  LET s == When(msg.cmd # "Invalid", Dispatch(msg)) \o CommitNoReplay \o UserTxEnd
         IN  s = EndReceive \/ IsTx(s, EndReceive)
<1> DEFINE d == When(msg.cmd # "Invalid", Dispatch(msg))
           t == msg.timer
<1>1. d = <<>> \/ \E a : Works(a) /\ \/ d = a \o RemoveFromActivelist(t)
                                     \/ d = a \o RemoveReinsertIntoActivelist(t)
  <2>1. CASE msg = Invalid
    BY <2>1 DEF Invalid, When
  <2>2. CASE msg \in Queued
    <3>1. msg.cmd \in Cmds /\ d = Dispatch(msg)
      BY <2>2 DEF Queued, When, Cmds
    <3>2. CASE msg.cmd \in {"Start", "Reset"}
      <4>1. Dispatch(msg) = <<Call("activate_at_command", t)>> \o RemoveReinsertIntoActivelist(t)
        BY <3>2 DEF Dispatch
      <4>2. Works(<<Call("activate_at_command", t)>>)
        BY WorkCalls, WorksOne DEF ListCalls
      <4> QED BY <3>1, <4>1, <4>2, Zenon
    <3>3. CASE msg.cmd \in {"Stop", "Delete"}
      <4>1. Dispatch(msg) = <<SetActive(t, FALSE)>> \o RemoveFromActivelist(t)
        BY <3>3 DEF Dispatch
      <4>2. Works(<<SetActive(t, FALSE)>>)
        BY WorkCalls, WorksOne
      <4> QED BY <3>1, <4>1, <4>2, Zenon
    <3>4. CASE msg.cmd = "SetPeriod"
      <4>1. Dispatch(msg) = When(ValidPeriod(msg.opaque),
                                 <<SetPeriod(t, msg.opaque), Call("activate", t)>>
                                 \o RemoveReinsertIntoActivelist(t))
        BY <3>4 DEF Dispatch
      <4>2. Works(<<SetPeriod(t, msg.opaque), Call("activate", t)>>)
        BY WorkCalls, WorksTwo DEF ListCalls
      <4>3. \/ Dispatch(msg) = <<>>
            \/ Dispatch(msg) = <<SetPeriod(t, msg.opaque), Call("activate", t)>>
                               \o RemoveReinsertIntoActivelist(t)
        BY <4>1 DEF When
      <4> QED BY <3>1, <4>2, <4>3, Zenon
    <3> QED BY <3>1, <3>2, <3>3, <3>4 DEF Cmds
  <2> QED BY <2>1, <2>2
<1>2. IsSeq(RemoveFromActivelist(t)) /\ IsSeq(RemoveReinsertIntoActivelist(t))
  <2>1. IsSeq(CommitActivelist)
    BY Tuple2 DEF CommitActivelist
  <2> QED BY <2>1, Tuple3, Tuple4, Cat DEF RemoveFromActivelist, RemoveReinsertIntoActivelist
<1>3. IsSeq(d)
  <2>1. CASE d = <<>>
    BY <2>1, Tuple0
  <2>2. ASSUME NEW a, Works(a), NEW r, IsSeq(r), d = a \o r PROVE IsSeq(d)
    <3>1. IsSeq(a)
      BY <2>2 DEF Works
    <3> HIDE DEF d
    <3> QED BY <2>2, <3>1, Cat
  <2> HIDE DEF d
  <2> QED BY <1>1, <1>2, <2>1, <2>2
<1> HIDE DEF d
<1>4. (d \o CommitNoReplay) \o UserTxEnd = d \o EndReceive
  BY <1>3, EndReceiveIs, CatAssoc
<1>5. CASE d = <<>>
  BY <1>4, <1>5, Ends, Tuple0, Cat DEF d
<1>6. CASE \E a : Works(a) /\ (d = a \o RemoveFromActivelist(t) \/ d = a \o RemoveReinsertIntoActivelist(t))
  <2>1. IsTx(d \o EndReceive, EndReceive)
    BY <1>6, Ends, ListTxs
  <2> QED BY <1>4, <2>1 DEF d
<1> QED BY <1>1, <1>5, <1>6

\* What recovery has to do for a list operation that has begun.
LEMMA RollForwardIs ==
  LET s == RollForward \o CommitRollForward \o UserTxEnd \o InvalidateActivelist
  IN  IF Log.op = OpCommitted THEN s = EndBoot
      ELSE \E w : Works(w) /\ s = w \o (CommitActivelist \o EndBoot)
<1> DEFINE n == Log.block
           again == CASE MicroOp(pm) = "Remove" ->
                           When(pm.node[n].list # None, RecoverFailedRemove(pm, Active, n))
                           \o <<Call("insert", n)>>
                      [] MicroOp(pm) = "PopFront" ->
                           When(pm.node[n].list # None, RecoverFailedPopFront(pm, Active, n))
                           \o <<Call("insert", n)>>
                      [] OTHER -> RecoverFailedInsertSorted(pm, Active, n, Earlier(n))
           R == RollForward
<1>1. IsSeq(CommitRollForward) /\ IsSeq(UserTxEnd) /\ IsSeq(InvalidateActivelist) /\ IsSeq(CommitActivelist)
  BY Tuple1, Tuple2 DEF CommitRollForward, UserTxEnd, InvalidateActivelist, CommitActivelist
<1>2. CommitRollForward \o (UserTxEnd \o InvalidateActivelist) = EndBoot
  <2> DEFINE w == Call("clear_journal", None)
             x == SetCommitted(TRUE)
             y == SetReplay(None)
             z == SetTxOp("Invalid")
  <2> HIDE DEF w, x, y, z
  <2>1. <<w, x, y, z>> = <<w>> \o <<x, y, z>>
    BY Tuple4
  <2>5. <<x, y, z>> = <<x>> \o <<y, z>>
    BY Tuple3
  <2>6. <<y, z>> = <<y>> \o <<z>> /\ <<w, x>> = <<w>> \o <<x>>
    BY Tuple2
  <2>2. IsSeq(<<w>>) /\ IsSeq(<<x>>) /\ IsSeq(<<y, z>>)
    BY Tuple1, Tuple2
  <2>3. (<<w>> \o <<x>>) \o <<y, z>> = <<w>> \o (<<x>> \o <<y, z>>)
    BY <2>2, CatAssoc
  <2>4. <<w, x>> \o (<<y>> \o <<z>>) = <<w, x, y, z>>
    BY <2>1, <2>3, <2>5, <2>6, Zenon
  <2> QED BY <2>4, Zenon DEF CommitRollForward, UserTxEnd, InvalidateActivelist, EndBoot, w, x, y, z
<1>3. ASSUME IsSeq(R)
      PROVE  R \o CommitRollForward \o UserTxEnd \o InvalidateActivelist = R \o EndBoot
  <2> HIDE DEF R
  <2>1. IsSeq(R \o CommitRollForward) /\ IsSeq(UserTxEnd \o InvalidateActivelist)
    BY <1>1, <1>3, Cat
  <2>2. ((R \o CommitRollForward) \o UserTxEnd) \o InvalidateActivelist
        = (R \o CommitRollForward) \o (UserTxEnd \o InvalidateActivelist)
    <3> DEFINE X == R \o CommitRollForward
    <3>1. IsSeq(X)
      BY <2>1
    <3> HIDE DEF X
    <3>2. Assoc(X, UserTxEnd, InvalidateActivelist)
      BY <1>1, <3>1, Associates
    <3> QED BY <3>2 DEF Assoc, X
  <2>3. (R \o CommitRollForward) \o (UserTxEnd \o InvalidateActivelist)
        = R \o (CommitRollForward \o (UserTxEnd \o InvalidateActivelist))
    <3> DEFINE X == UserTxEnd \o InvalidateActivelist
    <3>1. IsSeq(X)
      BY <2>1
    <3> HIDE DEF X
    <3>2. (R \o CommitRollForward) \o X = R \o (CommitRollForward \o X)
      <4>1. Assoc(R, CommitRollForward, X)
        BY <1>1, <1>3, <3>1, Associates
      <4> QED BY <4>1 DEF Assoc
    <3> QED BY <3>2 DEF X
  <2> QED BY <1>2, <2>2, <2>3, Zenon
<1>4. CASE Log.op = OpCommitted
  <2>1. R = <<>>
    BY <1>4 DEF RollForward, OpCommitted
  <2>2. R \o EndBoot = EndBoot /\ IsSeq(R)
    BY <2>1, Ends, Tuple0, Cat
  <2> QED BY <1>3, <1>4, <2>2
<1>5. CASE Log.op # OpCommitted
  <2>1. Works(<<Call("insert", n)>>)
    BY WorkCalls, WorksOne DEF ListCalls
  <2>2. Works(again)
    <3>1. \A c : Works(When(c, RecoverFailedRemove(pm, Active, n)) \o <<Call("insert", n)>>)
      BY <2>1, RemoveWorks, WorksWhen, WorksCat
    <3>2. \A c : Works(When(c, RecoverFailedPopFront(pm, Active, n)) \o <<Call("insert", n)>>)
      BY <2>1, PopFrontWorks, WorksWhen, WorksCat
    <3>3. Works(RecoverFailedInsertSorted(pm, Active, n, Earlier(n)))
      BY InsertWorks
    <3>4. CASE MicroOp(pm) = "Remove"
      <4>1. again = When(pm.node[n].list # None, RecoverFailedRemove(pm, Active, n)) \o <<Call("insert", n)>>
        BY <3>4
      <4> QED BY <3>1, <4>1
    <3>5. CASE MicroOp(pm) = "PopFront"
      <4>1. again = When(pm.node[n].list # None, RecoverFailedPopFront(pm, Active, n))
                    \o <<Call("insert", n)>>
        BY <3>5
      <4> QED BY <3>2, <4>1
    <3>6. CASE MicroOp(pm) \notin {"Remove", "PopFront"}
      <4>1. again = RecoverFailedInsertSorted(pm, Active, n, Earlier(n))
        BY <3>6
      <4> QED BY <3>3, <4>1
    <3> QED BY <3>4, <3>5, <3>6
  <2> HIDE DEF again
  <2>3. \E w : Works(w) /\ R = w \o CommitActivelist
    <3>1. CASE Log.op = "ActiveListRemove"
      <4>1. R = RecoverFailedRemove(pm, Active, n) \o CommitActivelist
        BY <3>1 DEF RollForward
      <4> QED BY <4>1, RemoveWorks
    <3>2. CASE Log.op # "ActiveListRemove"
      <4>1. R = again \o CommitActivelist
        BY <1>5, <3>2 DEF RollForward, again, OpCommitted
      <4> QED BY <2>2, <4>1
    <3> QED BY <3>1, <3>2
  <2> HIDE DEF R
  <2>4. PICK w : Works(w) /\ R = w \o CommitActivelist
    BY <2>3
  <2>5. IsSeq(R)
    BY <1>1, <2>4, Cat DEF Works
  <2>6. R \o EndBoot = w \o (CommitActivelist \o EndBoot)
    <3>1. IsSeq(w) /\ IsSeq(EndBoot)
      BY <2>4, Ends DEF Works
    <3>2. (w \o CommitActivelist) \o EndBoot = w \o (CommitActivelist \o EndBoot)
      <4>1. Assoc(w, CommitActivelist, EndBoot)
        BY <1>1, <3>1, Associates
      <4> QED BY <4>1 DEF Assoc
    <3> QED BY <2>4, <3>2
  <2> QED BY <1>3, <1>5, <2>4, <2>5, <2>6 DEF R
<1> QED BY <1>4, <1>5

(***************************************************************************)
(* From place to place.                                                    *)
(***************************************************************************)
\* With an invalid log no list operation has begun.
LEMMA NotStarted == Log.op = "Invalid" => ~ Started
BY DEF Started

\* A transaction that serves no expiry moves none ahead.
LEMMA NoneAhead == serving = None /\ Kept => Ahead
BY TimerAssumption DEF Kept, Agrees, Ahead

\* With an empty journal rolling back changes nothing.
LEMMA NothingToUndo == undo = None /\ Kept => UndoKept
BY DEF Kept, UndoKept, Agrees

\* Wherever the power fails, recovery can deal with it.
LEMMA PlaceRecoverable == Types /\ Place => Recoverable
<1> SUFFICES ASSUME Types, Place PROVE Recoverable
  OBVIOUS
<1>1. ASSUME Settled PROVE Recoverable
  BY <1>1, NothingToUndo DEF Settled, Recoverable
<1>2. CASE Resting
  BY <1>1, <1>2 DEF Resting
<1>3. CASE Looking \/ Opening
  BY <1>1, <1>3 DEF Looking, Opening, OpeningOf
<1>4. CASE Receiving
  BY <1>4, NotStarted, NothingToUndo DEF Receiving, Recoverable
<1>5. CASE CallingBack
  <2>1. UndoKept
    BY <1>5 DEF CallingBack, UndoKept, Kept, Agrees
  <2> QED BY <1>5, <2>1, NotStarted DEF CallingBack, Recoverable
<1>6. CASE \E n, op, m, e : PreparingWith(n, op, m, e)
  BY <1>6, NotStarted DEF PreparingWith, Recoverable
<1>7. CASE \E n, e : OperatingWith(n, e)
  BY <1>7 DEF OperatingWith, Recoverable
<1>8. CASE \E e : EndingWith(e)
  <2>1. Log.op = OpCommitted => Started
    BY DEF Started, OpCommitted
  <2> QED BY <1>8, <2>1, NotStarted, NothingToUndo DEF EndingWith, Recoverable
<1>9. CASE Closing
  BY <1>9 DEF Closing, Recoverable
<1> QED BY <1>2, <1>3, <1>4, <1>5, <1>6, <1>7, <1>8, <1>9 DEF Place

\* The places do not depend on the list, the queue and the clock.
LEMMA Frame ==
  ASSUME Place, UNCHANGED <<todo, at, undo, serving, served>>,
         pm'.log = pm.log, pm'.user = pm.user, pm'.list = pm.list,
         Committed' = Committed, Replay = None => Replay' = None
  PROVE  Place'
<1>1. /\ Log' = Log /\ Started' = Started /\ Kept' = Kept /\ Ahead' = Ahead /\ UndoKept' = UndoKept
      /\ Head0' = Head0
  BY DEF Log, Started, MicroOp, Kept, Ahead, UndoKept, Agrees, Head0
<1>2. Recoverable => Recoverable'
  BY <1>1 DEF Recoverable
<1>3. Settled => Settled'
  BY <1>1 DEF Settled
<1>4. CASE Resting
  BY <1>1, <1>2, <1>3, <1>4 DEF Resting, Place
<1>5. CASE Looking
  BY <1>3, <1>5 DEF Looking, Place
<1>6. ASSUME NEW K PROVE OpeningOf(K) => OpeningOf(K)'
  BY <1>1, <1>3 DEF OpeningOf
<1>7. Callback(Head0)' = Callback(Head0) /\ Callback(serving)' = Callback(serving)
  BY <1>1 DEF Callback
<1>8. CASE Opening
  <2>1. OpeningOf(<<Call("receive", None)>>) => OpeningOf(<<Call("receive", None)>>)'
    BY <1>6
  <2>2. OpeningOf(Callback(Head0) \o Serve(Head0)) => OpeningOf(Callback(Head0) \o Serve(Head0))'
    <3> DEFINE K == Callback(Head0) \o Serve(Head0)
    <3>1. K' = K
      BY <1>1, <1>7 DEF Serve
    <3> HIDE DEF K
    <3>2. OpeningOf(K) => OpeningOf(K)'
      BY <1>1, <1>3, <3>1 DEF OpeningOf
    <3> QED BY <3>2 DEF K
  <2>3. Opening'
    BY <1>1, <1>8, <2>1, <2>2 DEF Opening
  <2> QED BY <2>3 DEF Place
<1>9. CASE Receiving
  BY <1>1, <1>9 DEF Receiving, Place
<1>10. CASE CallingBack
  <2>1. Serve(serving)' = Serve(serving)
    BY DEF Serve
  <2>2. CallingBack'
    BY <1>1, <1>7, <1>10, <2>1 DEF CallingBack
  <2> QED BY <2>2 DEF Place
<1>11. ASSUME NEW e PROVE EndIs(e) => EndIs(e)'
  BY DEF EndIs
<1>12. CASE \E n, op, m, e : PreparingWith(n, op, m, e)
  <2>1. PICK n, op, m, e : PreparingWith(n, op, m, e)
    BY <1>12
  <2>2. PreparingWith(n, op, m, e)'
    BY <1>1, <1>11, <2>1 DEF PreparingWith
  <2> QED BY <2>2 DEF Place
<1>13. CASE \E n, e : OperatingWith(n, e)
  <2>1. PICK n, e : OperatingWith(n, e)
    BY <1>13
  <2>2. OperatingWith(n, e)'
    BY <1>1, <1>11, <2>1 DEF OperatingWith
  <2> QED BY <2>2 DEF Place
<1>14. CASE \E e : EndingWith(e)
  <2>1. PICK e : EndingWith(e)
    BY <1>14
  <2>2. EndingWith(e)'
    BY <1>1, <1>11, <2>1 DEF EndingWith
  <2> QED BY <2>2 DEF Place
<1>15. CASE Closing
  BY <1>1, <1>15 DEF Closing, Place
<1> QED BY <1>4, <1>5, <1>8, <1>9, <1>10, <1>12, <1>13, <1>14, <1>15 DEF Place

\* Invalidating the logs leaves the daemon settled.
LEMMA SettledLog ==
  ASSUME Settled, UNCHANGED <<at, undo, serving, served>>,
         pm'.tx = pm.tx, pm'.user = pm.user,
         \/ Log'.op = Log.op /\ MicroOp(pm)' = "Invalid"
         \/ Log'.op = "Invalid"
  PROVE  Settled'
<1>1. Committed' = Committed /\ Replay' = Replay /\ Kept' = Kept
  BY DEF Committed, Replay, Kept, Agrees
<1>2. ~ Started => ~ Started'
  BY DEF Started
<1> QED BY <1>1, <1>2 DEF Settled

\* One step of the code: while the daemon looks at the clock and blocks,
LEMMA LookingStep == Types /\ Looking /\ Run => PInv'
<1> SUFFICES ASSUME Types, Looking, Run PROVE PInv'
  OBVIOUS
<1>1. IsSeq(LookAndBlock) /\ Head(LookAndBlock) = Call("look", None)
      /\ Tail(LookAndBlock) = <<Call("block", None)>>
  BY Tuple2 DEF LookAndBlock
<1>2. CASE todo = Invalidate \o LookAndBlock
  <2>1. Head(todo) = StartOpLog("Invalid", 0) /\ Tail(todo) = InvalidateActivelist \o LookAndBlock
    BY <1>1, <1>2, Fronts
  <2>2. Settled' /\ Types' /\ todo' = InvalidateActivelist \o LookAndBlock
    BY <2>1, MicroStep, SettledLog DEF Looking
  <2> QED BY <2>2 DEF Looking, Place, PInv
<1>3. CASE todo = InvalidateActivelist \o LookAndBlock
  <2>1. Head(todo) = SetTxOp("Invalid") /\ Tail(todo) = LookAndBlock
    BY <1>1, <1>3, Fronts
  <2>2. /\ todo' = Tail(todo) /\ Types' /\ pm'.tx = pm.tx /\ pm'.user = pm.user
        /\ Log'.op = "Invalid" /\ UNCHANGED <<at, undo, serving, served>>
    BY <2>1, OpStep DEF OpCommitted
  <2>3. Settled'
    BY <2>2, SettledLog DEF Looking
  <2> QED BY <2>1, <2>2, <2>3 DEF Looking, Place, PInv
<1>4. ASSUME UNCHANGED <<pm, undo, at, serving, served>> PROVE Settled'
  BY <1>4 DEF Looking, Settled, Committed, Replay, Kept, Agrees, Started, Log, MicroOp
<1>5. CASE todo = LookAndBlock
  <2>1. Head(todo).obj = "call" /\ Head(todo).field = "look"
    BY <1>1, <1>5 DEF Call
  <2>2. Look
    BY <2>1, Which
  <2>3. /\ todo' \in {<<>>, <<Call("block", None)>>}
        /\ UNCHANGED <<pm, undo, queue, call, asleep, until, at, script, sent, done, serving, served>>
    BY <1>1, <1>5, <2>2 DEF Look
  <2>4. Types'
    BY <2>3 DEF Types
  <2>5. Settled'
    BY <1>4, <2>3
  <2>6. Resting' \/ Looking'
    BY <2>3, <2>5 DEF Resting, Looking, Settled
  <2> QED BY <2>4, <2>6 DEF PInv, Place
<1>6. CASE todo = <<Call("block", None)>>
  <2>1. Head(todo).obj = "call" /\ Head(todo).field = "block" /\ Tail(todo) = <<>>
    BY <1>6, Tuple1 DEF Call
  <2>2. QueueBlockUntilNotEmpty
    BY <2>1, Which
  <2>3. todo' = <<>> /\ UNCHANGED <<pm, undo, queue, call, at, history>>
    BY <2>1, <2>2 DEF QueueBlockUntilNotEmpty
  <2>4. Types'
    BY <2>3 DEF Types, history
  <2>5. Settled'
    BY <1>4, <2>3 DEF history
  <2>6. Resting'
    BY <2>3, <2>5 DEF Resting, Settled
  <2> QED BY <2>4, <2>6 DEF PInv, Place
<1> QED BY <1>2, <1>3, <1>5, <1>6 DEF Looking

\* A callback and what is behind it are a sequence.
LEMMA CallbackSeq == \A t : IsSeq(Callback(t) \o Serve(t))
<1> SUFFICES ASSUME NEW t PROVE IsSeq(Callback(t) \o Serve(t))
  OBVIOUS
<1>1. IsSeq(Callback(t))
  BY Tuple2 DEF Callback
<1> QED BY <1>1, ServeIs, Cat

\* up to the begin of a transaction,
LEMMA OpeningStep == Types /\ Opening /\ Run => PInv'
<1> SUFFICES ASSUME Types, Opening, Run PROVE PInv'
  OBVIOUS
<1> DEFINE K == IF at = "receive" THEN <<Call("receive", None)>> ELSE Callback(Head0) \o Serve(Head0)
<1>1. IsSeq(K)
  BY Tuple1, CallbackSeq
<1>2. OpeningOf(K) /\ (at = "receive" \/ (at = "expired" /\ Head0 # None))
  <2>1. CASE at = "receive" /\ OpeningOf(<<Call("receive", None)>>)
    <3> DEFINE R == <<Call("receive", None)>>
    <3>1. K = R /\ OpeningOf(R)
      BY <2>1
    <3> HIDE DEF K, R
    <3> QED BY <2>1, <3>1
  <2>2. CASE at = "expired" /\ Head0 # None /\ OpeningOf(Callback(Head0) \o Serve(Head0))
    <3>1. K = Callback(Head0) \o Serve(Head0)
      BY <2>2
    <3> HIDE DEF K
    <3> QED BY <2>2, <3>1
  <2> QED BY <2>1, <2>2 DEF Opening
<1>3. ASSUME pm'.user = pm.user, pm'.list = pm.list, at' = at PROVE K' = K
  <2>1. Head0' = Head0
    BY <1>3 DEF Head0
  <2>2. Callback(Head0)' = Callback(Head0) /\ Serve(Head0)' = Serve(Head0)
    BY <1>3, <2>1 DEF Callback, Serve
  <2> QED BY <1>3, <2>2
<1>4. ASSUME OpeningOf(K)', at' = at, Head0' = Head0 PROVE Opening'
  BY <1>2, <1>4 DEF Opening
<1> HIDE DEF K
<1>5. CASE todo = Invalidate \o (Begin \o K)
  <2>1. IsSeq(Begin \o K)
    BY <1>1, Fronts
  <2>2. Head(todo) = StartOpLog("Invalid", 0) /\ Tail(todo) = InvalidateActivelist \o (Begin \o K)
    BY <1>5, <2>1, Fronts
  <2>3. /\ todo' = Tail(todo) /\ Types' /\ pm'.tx = pm.tx /\ pm'.user = pm.user /\ pm'.list = pm.list
        /\ Log'.op = Log.op /\ MicroOp(pm)' = "Invalid" /\ UNCHANGED <<at, undo, serving, served>>
    BY <2>2, MicroStep
  <2>4. Settled'
    BY <1>2, <2>3, SettledLog DEF OpeningOf
  <2>5. K' = K
    BY <1>3, <2>3
  <2>6. OpeningOf(K)'
    BY <2>2, <2>3, <2>4, <2>5 DEF OpeningOf, InvalidateActivelist, Begin, SetTxOp, SetCommitted, Store
  <2> QED BY <1>4, <2>3, <2>6 DEF PInv, Place, Head0
<1>6. CASE todo = InvalidateActivelist \o (Begin \o K)
  <2>1. IsSeq(Begin \o K)
    BY <1>1, Fronts
  <2>2. Head(todo) = SetTxOp("Invalid") /\ Tail(todo) = Begin \o K
    BY <1>6, <2>1, Fronts
  <2>3. /\ todo' = Tail(todo) /\ Types' /\ pm'.tx = pm.tx /\ pm'.user = pm.user /\ pm'.list = pm.list
        /\ Log'.op = "Invalid" /\ UNCHANGED <<at, undo, serving, served>>
    BY <2>2, OpStep DEF OpCommitted
  <2>4. Settled'
    BY <1>2, <2>3, SettledLog DEF OpeningOf
  <2>5. K' = K
    BY <1>3, <2>3
  <2>6. OpeningOf(K)'
    BY <2>2, <2>3, <2>4, <2>5 DEF OpeningOf, Begin, SetCommitted, Store
  <2> QED BY <1>4, <2>3, <2>6 DEF PInv, Place, Head0
<1>7. CASE todo = Begin \o K /\ Log.op = "Invalid"
  <2>1. Head(todo) = SetCommitted(FALSE) /\ Tail(todo) = K
    BY <1>1, <1>7, Fronts
  <2>2. /\ todo' = K /\ Types' /\ pm'.log = pm.log /\ pm'.user = pm.user /\ pm'.list = pm.list
        /\ Committed' = FALSE /\ serving' = IF at = "expired" THEN Head0 ELSE None
        /\ UNCHANGED <<undo, at, served>>
    BY <2>1, CommittedStep
  <2>3. Log'.op = "Invalid" /\ Kept' /\ undo' = None
    BY <1>2, <1>7, <2>2 DEF Log, Kept, Agrees, OpeningOf, Settled
  <2>4. CASE at = "receive"
    <3>1. Receiving'
      BY <2>2, <2>3, <2>4 DEF Receiving, K
    <3> QED BY <2>2, <3>1 DEF PInv, Place
  <2>5. CASE at = "expired" /\ Head0 # None
    <3>1. serving' = Head0 /\ todo' = Callback(Head0) \o Serve(Head0)
      BY <2>2, <2>5 DEF K
    <3>2. Callback(serving)' = Callback(Head0) /\ Serve(serving)' = Serve(Head0)
      BY <2>2, <3>1 DEF Callback, Serve
    <3>3. CallingBack'
      BY <2>2, <2>3, <2>5, <3>1, <3>2 DEF CallingBack
    <3> QED BY <2>2, <3>3 DEF PInv, Place
  <2> QED BY <1>2, <2>4, <2>5
<1> QED BY <1>2, <1>5, <1>6, <1>7 DEF OpeningOf

\* at the receive of a command,
LEMMA ReceivingStep == Types /\ Receiving /\ Run => PInv'
<1> SUFFICES ASSUME Types, Receiving, Run PROVE PInv'
  OBVIOUS
<1> DEFINE msg == IF Replay # None THEN Replay ELSE IF queue # <<>> THEN Head(queue) ELSE Invalid
           s == When(msg.cmd # "Invalid", Dispatch(msg)) \o CommitNoReplay \o UserTxEnd
<1>1. Head(todo).obj = "call" /\ Head(todo).field = "receive"
  BY Tuple1 DEF Receiving, Call
<1>2. Receive
  BY <1>1, Which
<1>3. msg \in Queued \cup {Invalid}
  <2>1. Replay \in Queued \cup {None, Invalid} /\ queue \in Seq(Queued)
    BY DEF Types, MemOK, Replay
  <2> QED BY <2>1
<1>4. /\ pm' = Apply(pm, SetReplay(msg)) /\ todo' = s
      /\ queue' = IF Replay = None /\ queue # <<>> THEN Tail(queue) ELSE queue
      /\ at' \in {at, "exit"}
      /\ UNCHANGED <<undo, call, script, sent, done, serving, served>>
  BY <1>2, Zenon DEF Receive, history
<1>5. s = EndReceive \/ IsTx(s, EndReceive)
  BY <1>3, DispatchIs
<1> HIDE DEF msg, s
<1>6. /\ MemOK(pm') /\ pm'.log = pm.log /\ pm'.user = pm.user
      /\ pm'.tx["tx"].committed = pm.tx["tx"].committed
  BY <1>3, <1>4, ApplyReplay DEF Types
<1>7. queue' \in Seq(Queued)
  <2>1. queue \in Seq(Queued)
    BY DEF Types
  <2> QED BY <1>4, <2>1
<1>8. Types'
  BY <1>4, <1>6, <1>7 DEF Types
<1>9. /\ Committed' = Committed /\ Log'.op = "Invalid" /\ Kept' /\ undo' = None
      /\ serving' = None /\ at' # "boot"
  BY <1>4, <1>6 DEF Committed, Log, Kept, Agrees, Receiving
<1>10. Ahead' /\ UndoKept'
  BY <1>9, TimerAssumption DEF Kept, Ahead, UndoKept, Agrees
<1>11. EndIs(EndReceive)' /\ EndReceive # EndBoot
  <2>1. Head(EndReceive) # Head(EndBoot)
    BY Ends DEF SetCommitted, Store, Call
  <2> QED BY <1>9, <2>1 DEF EndIs
<1>12. CASE s = EndReceive
  <2>1. EndingWith(EndReceive)'
    BY <1>4, <1>9, <1>11, <1>12 DEF EndingWith, Receiving
  <2> QED BY <1>8, <2>1 DEF PInv, Place
<1>13. CASE IsTx(s, EndReceive)
  <2>1. PICK n, op, m : /\ s = n \o (<<SetTxOp(op)>> \o (m \o (CommitActivelist \o EndReceive)))
                        /\ Works(n) /\ Works(m) /\ op \notin {"Invalid", OpCommitted}
    BY <1>13 DEF IsTx
  <2>2. PreparingWith(n, op, m, EndReceive)'
    BY <1>4, <1>9, <1>10, <1>11, <2>1 DEF PreparingWith, Receiving
  <2> QED BY <1>8, <2>2 DEF PInv, Place
<1> QED BY <1>5, <1>12, <1>13

\* in the callback,
LEMMA CallingBackStep == Types /\ CallingBack /\ Run => PInv'
<1> SUFFICES ASSUME Types, CallingBack, Run PROVE PInv'
  OBVIOUS
<1> DEFINE v == (pm.user[serving].fired + 1) % Wrap
<1>1. IsSeq(Serve(serving))
  BY ServeIs
<1>2. CASE undo = None /\ todo = Callback(serving) \o Serve(serving)
  <2>1. /\ Head(todo) = Call("log", None)
        /\ Tail(todo) = <<SetFired(serving, v)>> \o Serve(serving)
    <3> DEFINE a == Callback(serving)
    <3>1. IsSeq(a) /\ a # <<>> /\ Head(a) = Call("log", None) /\ Tail(a) = <<SetFired(serving, v)>>
      BY Tuple2, Zenon DEF Callback
    <3> HIDE DEF a
    <3>2. Head(a \o Serve(serving)) = Head(a) /\ Tail(a \o Serve(serving)) = Tail(a) \o Serve(serving)
      BY <1>1, <3>1, Cat
    <3> QED BY <1>2, <3>1, <3>2 DEF a
  <2>2. /\ todo' = Tail(todo) /\ Types' /\ undo' = pm.user
        /\ UNCHANGED <<pm, at, serving, served>>
    BY <2>1, JournalStep
  <2>3. CallingBack'
    <3>1. todo' = (<<SetFired(serving, (pm.user[serving].fired + 1) % Wrap)>> \o Serve(serving))'
      BY <2>1, <2>2 DEF SetFired, Store, Serve
    <3>2. Kept' /\ Log' = Log /\ Committed' = Committed
      BY <2>2 DEF CallingBack, Kept, Agrees, Log, Committed
    <3> QED BY <2>2, <3>1, <3>2 DEF CallingBack
  <2> QED BY <2>2, <2>3 DEF PInv, Place
<1>3. CASE undo = pm.user /\ todo = <<SetFired(serving, v)>> \o Serve(serving)
  <2>1. Head(todo) = SetFired(serving, v) /\ Tail(todo) = Serve(serving)
    BY <1>1, <1>3, Cons
  <2>2. serving \in Timer => v \in 0 .. Wrap - 1
    <3>1. Wrap \in Nat \ {0}
      BY TimerAssumption
    <3>2. serving \in Timer => pm.user[serving].fired \in 0 .. Wrap - 1
      BY DEF Types, MemOK, Written
    <3> QED BY <3>1, <3>2
  <2>3. /\ todo' = Tail(todo) /\ Types' /\ pm'.tx = pm.tx /\ pm'.log = pm.log
        /\ \A x \in Timer : pm'.user[x].fired = IF x = serving THEN v ELSE pm.user[x].fired
        /\ UNCHANGED <<undo, at, serving, served>>
    BY <2>1, <2>2, FiredStep
  <2>4. undo # None
    BY <1>3, NoneAssumption DEF Types, MemOK
  <2>5. Ahead' /\ UndoKept'
    <3>1. \A x \in Timer : pm.user[x].fired = served[x]
      BY DEF CallingBack, Kept, Agrees
    <3>2. Ahead'
      BY <2>3, <3>1 DEF Ahead
    <3>3. UndoKept'
      BY <1>3, <2>3, <2>4, <3>1 DEF UndoKept, Agrees
    <3> QED BY <3>2, <3>3
  <2>6. Committed' = Committed /\ Log' = Log
    BY <2>3 DEF Committed, Log
  <2>7. EndIs(EndExpire)' /\ EndExpire # EndBoot
    <3>1. Head(EndExpire) # Head(EndBoot)
      BY Ends DEF SetCommitted, Store, Call
    <3> QED BY <2>3, <3>1 DEF EndIs, CallingBack
  <2>8. PICK n, op, m :
            /\ Serve(serving) = n \o (<<SetTxOp(op)>> \o (m \o (CommitActivelist \o EndExpire)))
            /\ Works(n) /\ Works(m) /\ op \notin {"Invalid", OpCommitted}
    BY ServeIs DEF IsTx
  <2>9. PreparingWith(n, op, m, EndExpire)'
    BY <2>1, <2>3, <2>5, <2>6, <2>7, <2>8 DEF PreparingWith, CallingBack
  <2> QED BY <2>3, <2>9 DEF PInv, Place
<1> QED BY <1>2, <1>3 DEF CallingBack

\* up to the log of the list operation,
LEMMA PreparingStep ==
  ASSUME Types, Run, NEW n, NEW op, NEW m, NEW e, PreparingWith(n, op, m, e)
  PROVE  PInv'
<1> DEFINE L == m \o (CommitActivelist \o e)
           K == <<SetTxOp(op)>> \o L
<1>1. IsSeq(L) /\ IsSeq(m) /\ IsSeq(n)
  <2>1. IsSeq(CommitActivelist \o e)
    BY EndSeq, Fronts DEF PreparingWith
  <2>2. IsSeq(m) /\ IsSeq(n)
    BY DEF PreparingWith, Works
  <2>3. IsSeq(m \o (CommitActivelist \o e))
    BY <2>1, <2>2, Cat
  <2> QED BY <2>2, <2>3
<1>2. todo = n \o K
  BY DEF PreparingWith
<1> HIDE DEF L
<1>3. IsSeq(K) /\ Head(K) = SetTxOp(op) /\ Tail(K) = L
  BY <1>1, Cons
<1> HIDE DEF K
<1>4. ASSUME UNCHANGED <<at, serving>> PROVE EndIs(e)'
  BY <1>4 DEF PreparingWith, EndIs
<1>5. ASSUME pm'.user = pm.user, UNCHANGED <<undo, serving, served>> PROVE Ahead' /\ UndoKept'
  BY <1>5 DEF PreparingWith, Ahead, UndoKept, Agrees
<1>6. CASE n # <<>>
  <2>1. Works(n)
    BY DEF PreparingWith
  <2>2. PICK w : Works(w) /\ todo' = w \o K
    BY <1>2, <1>3, <1>6, <2>1, WorkStep
  <2>3. /\ Types' /\ pm'.tx = pm.tx /\ pm'.user = pm.user /\ Log'.op = Log.op
        /\ UNCHANGED <<undo, at, serving, served>>
    BY <1>2, <1>3, <1>6, <2>1, WorkStep
  <2>4. ~ Committed' /\ Log'.op = "Invalid"
    BY <2>3 DEF PreparingWith, Committed
  <2>5. PreparingWith(w, op, m, e)'
    BY <1>4, <1>5, <2>2, <2>3, <2>4 DEF PreparingWith, K, L
  <2> QED BY <2>3, <2>5 DEF PInv, Place
<1>7. CASE n = <<>>
  <2>1. todo = K
    BY <1>1, <1>2, <1>3, <1>7, Cat
  <2>2. /\ todo' = L /\ Types' /\ pm'.tx = pm.tx /\ pm'.user = pm.user /\ Log'.op = op
        /\ UNCHANGED <<undo, at, serving, served>>
    BY <1>3, <2>1, OpStep DEF PreparingWith
  <2>3. ~ Committed'
    BY <2>2 DEF PreparingWith, Committed
  <2>4. OperatingWith(m, e)'
    BY <1>4, <1>5, <2>2, <2>3 DEF PreparingWith, OperatingWith, L
  <2> QED BY <2>2, <2>4 DEF PInv, Place
<1> QED BY <1>6, <1>7

\* in the list operation,
LEMMA OperatingStep ==
  ASSUME Types, Run, NEW n, NEW e, OperatingWith(n, e)
  PROVE  PInv'
<1> DEFINE K == CommitActivelist \o e
<1>1. IsSeq(K) /\ IsSeq(n) /\ Head(K) = SetTxOp(OpCommitted)
      /\ Tail(K) = <<StartOpLog("Invalid", 0)>> \o e
  BY EndSeq, Fronts DEF OperatingWith, Works
<1>2. todo = n \o K
  BY DEF OperatingWith
<1> HIDE DEF K
<1>3. ASSUME UNCHANGED <<at, serving>> PROVE EndIs(e)'
  BY <1>3 DEF OperatingWith, EndIs
<1>4. CASE n # <<>>
  <2>1. Works(n)
    BY DEF OperatingWith
  <2>2. PICK w : Works(w) /\ todo' = w \o K
    BY <1>1, <1>2, <1>4, <2>1, WorkStep
  <2>3. /\ Types' /\ pm'.tx = pm.tx /\ pm'.user = pm.user /\ Log'.op = Log.op
        /\ UNCHANGED <<undo, at, serving, served>>
    BY <1>1, <1>2, <1>4, <2>1, WorkStep
  <2>4. Committed' = Committed /\ Ahead' /\ UndoKept'
    BY <2>3 DEF OperatingWith, Committed, Ahead, UndoKept, Agrees
  <2>5. OperatingWith(w, e)'
    BY <1>3, <2>2, <2>3, <2>4 DEF OperatingWith, K
  <2> QED BY <2>3, <2>5 DEF PInv, Place
<1>5. CASE n = <<>>
  <2>1. todo = K
    BY <1>1, <1>2, <1>5, Cat
  <2>2. /\ todo' = Tail(K) /\ Types' /\ pm'.tx = pm.tx /\ pm'.user = pm.user /\ Log'.op = OpCommitted
        /\ served' = [t \in Timer |-> IF t = serving THEN (served[t] + 1) % Wrap ELSE served[t]]
        /\ UNCHANGED <<undo, at, serving>>
    BY <1>1, <2>1, OpStep
  <2>3. Kept' /\ Committed' = Committed
    BY <2>2 DEF OperatingWith, Ahead, Kept, Agrees, Committed
  <2>4. EndingWith(e)'
    BY <1>1, <1>3, <2>2, <2>3 DEF EndingWith, OperatingWith
  <2> QED BY <2>2, <2>4 DEF PInv, Place
<1> QED BY <1>4, <1>5

\* up to the commit,
LEMMA EndingStep ==
  ASSUME Types, Run, NEW e, EndingWith(e)
  PROVE  PInv'
<1>1. IsSeq(e) /\ EndIs(e) /\ ~ Committed /\ Kept
  BY EndSeq DEF EndingWith
<1>2. ASSUME UNCHANGED <<at, serving>> PROVE EndIs(e)'
  BY <1>1, <1>2 DEF EndIs
<1>3. ASSUME pm'.user = pm.user, UNCHANGED served PROVE Kept'
  BY <1>1, <1>3 DEF Kept, Agrees
<1>4. CASE todo = <<StartOpLog("Invalid", 0)>> \o e /\ Log.op = OpCommitted
  <2>1. Head(todo) = StartOpLog("Invalid", 0) /\ Tail(todo) = e
    BY <1>1, <1>4, Cons
  <2>2. /\ todo' = e /\ Types' /\ pm'.tx = pm.tx /\ pm'.user = pm.user /\ Log'.op = Log.op
        /\ UNCHANGED <<undo, at, serving, served>>
    BY <2>1, MicroStep
  <2>3. Committed' = Committed
    BY <2>2 DEF Committed
  <2>4. EndingWith(e)'
    BY <1>1, <1>2, <1>3, <1>4, <2>2, <2>3 DEF EndingWith
  <2> QED BY <2>2, <2>4 DEF PInv, Place
<1>5. CASE todo = e /\ e # EndBoot
  <2>1. /\ Head(todo) = SetCommitted(TRUE) /\ at # "boot"
        /\ \/ Tail(todo) = Tail(EndExpire) /\ serving # None
           \/ Tail(todo) = Tail(EndReceive) /\ serving = None
    BY <1>1, <1>5, Ends DEF EndIs
  <2>2. /\ todo' = Tail(todo) /\ Types' /\ pm'.user = pm.user /\ Committed'
        /\ UNCHANGED <<undo, at, serving, served>>
    BY <2>1, CommittedStep
  <2>3. Closing'
    BY <1>3, <2>1, <2>2 DEF Closing
  <2> QED BY <2>2, <2>3 DEF PInv, Place
<1>6. CASE todo = EndBoot /\ e = EndBoot /\ Log.op = OpCommitted
  <2>1. Head(todo) = Call("clear_journal", None) /\ at = "boot"
    BY <1>1, <1>6, Ends DEF EndIs, SetCommitted, Store, Call
  <2>2. /\ todo' = Tail(EndBoot) /\ Types' /\ undo' = None /\ UNCHANGED <<pm, at, serving, served>>
    BY <1>6, <2>1, JournalStep
  <2>3. Committed' = Committed /\ Log' = Log
    BY <2>2 DEF Committed, Log
  <2>4. EndingWith(e)'
    BY <1>1, <1>2, <1>3, <1>6, <2>2, <2>3 DEF EndingWith
  <2> QED BY <2>2, <2>4 DEF PInv, Place
<1>7. CASE todo = Tail(EndBoot) /\ e = EndBoot
  <2>1. /\ Head(todo) = SetCommitted(TRUE) /\ Tail(todo) = <<SetReplay(None), SetTxOp("Invalid")>>
    <3> DEFINE x == SetCommitted(TRUE)
               y == SetReplay(None)
               z == SetTxOp("Invalid")
    <3>1. todo = <<x, y, z>>
      BY <1>7, Ends
    <3> HIDE DEF x, y, z
    <3>2. Head(<<x, y, z>>) = x /\ Tail(<<x, y, z>>) = <<y, z>>
      BY Tuple3
    <3> QED BY <3>1, <3>2 DEF x, y, z
  <2>2. /\ todo' = Tail(todo) /\ Types' /\ pm'.user = pm.user /\ Committed'
        /\ UNCHANGED <<undo, at, serving, served>>
    BY <2>1, CommittedStep
  <2>3. at = "boot"
    <3>1. Head(EndReceive) # Head(EndBoot) /\ Head(EndExpire) # Head(EndBoot)
      BY Ends DEF SetCommitted, Store, Call
    <3> QED BY <1>1, <1>7, <3>1 DEF EndIs
  <2>4. Closing'
    BY <1>3, <2>1, <2>2, <2>3 DEF Closing
  <2> QED BY <2>2, <2>4 DEF PInv, Place
<1>8. EndReceive # EndBoot
  <2>1. Head(EndReceive) # Head(EndBoot)
    BY Ends DEF SetCommitted, Store, Call
  <2> QED BY <2>1
<1> QED BY <1>4, <1>5, <1>6, <1>7, <1>8 DEF EndingWith

\* and behind it.
LEMMA ClosingStep == Types /\ Closing /\ Run => PInv'
<1> SUFFICES ASSUME Types, Closing, Run PROVE PInv'
  OBVIOUS
<1>1. Committed /\ Kept
  BY DEF Closing
<1>2. ASSUME pm'.user = pm.user, UNCHANGED served PROVE Kept'
  BY <1>1, <1>2 DEF Kept, Agrees
<1>3. CASE todo = Tail(EndExpire) /\ at # "boot" /\ serving # None
  <2>1. Head(todo) = Call("clear_journal", None) /\ Tail(todo) = <<>>
    BY <1>3, Ends, Tuple1
  <2>2. /\ todo' = <<>> /\ Types' /\ undo' = None /\ UNCHANGED <<pm, at, serving, served>>
    BY <2>1, JournalStep
  <2>3. Resting'
    BY <1>1, <1>2, <1>3, <2>2 DEF Resting, Settled, Committed
  <2> QED BY <2>2, <2>3 DEF PInv, Place
<1>4. CASE todo = Tail(EndReceive) /\ at # "boot" /\ serving = None
  <2>1. Head(todo) = Call("clear_journal", None) /\ Tail(todo) = <<SetReplay(None)>>
    BY <1>4, Ends, Tuple2
  <2>2. /\ todo' = <<SetReplay(None)>> /\ Types' /\ undo' = None /\ UNCHANGED <<pm, at, serving, served>>
    BY <2>1, JournalStep
  <2>3. Closing'
    BY <1>1, <1>2, <1>4, <2>2 DEF Closing, Committed
  <2> QED BY <2>2, <2>3 DEF PInv, Place
<1>5. CASE todo = <<SetReplay(None)>> /\ at # "boot" /\ serving = None /\ undo = None
  <2>1. Head(todo) = SetReplay(None) /\ Tail(todo) = <<>>
    BY <1>5, Tuple1
  <2>2. /\ todo' = <<>> /\ Types' /\ pm'.user = pm.user /\ Committed' = Committed /\ Replay' = None
        /\ UNCHANGED <<undo, at, serving, served>>
    BY <2>1, ReplayStep
  <2>3. Resting'
    BY <1>1, <1>2, <1>5, <2>2 DEF Resting, Settled
  <2> QED BY <2>2, <2>3 DEF PInv, Place
<1>6. CASE todo = <<Call("clear_journal", None), SetReplay(None), SetTxOp("Invalid")>> /\ at = "boot"
  <2>1. Head(todo) = Call("clear_journal", None) /\ Tail(todo) = <<SetReplay(None), SetTxOp("Invalid")>>
    <3> DEFINE x == Call("clear_journal", None)
               y == SetReplay(None)
               z == SetTxOp("Invalid")
    <3>1. todo = <<x, y, z>>
      BY <1>6
    <3> HIDE DEF x, y, z
    <3>2. Head(todo) = x /\ Tail(todo) = <<y, z>>
      BY <3>1, Tuple3
    <3> QED BY <3>2 DEF x, y, z
  <2>2. /\ todo' = <<SetReplay(None), SetTxOp("Invalid")>> /\ Types'
        /\ UNCHANGED <<pm, at, serving, served>>
    BY <2>1, JournalStep
  <2>3. Closing'
    BY <1>1, <1>2, <1>6, <2>2 DEF Closing, Committed
  <2> QED BY <2>2, <2>3 DEF PInv, Place
<1>7. CASE todo = <<SetReplay(None), SetTxOp("Invalid")>> /\ at = "boot"
  <2>1. Head(todo) = SetReplay(None) /\ Tail(todo) = <<SetTxOp("Invalid")>>
    BY <1>7, Tuple2, Zenon
  <2>2. /\ todo' = <<SetTxOp("Invalid")>> /\ Types' /\ pm'.user = pm.user /\ Committed' = Committed
        /\ UNCHANGED <<at, served>>
    BY <2>1, ReplayStep
  <2>3. Closing'
    BY <1>1, <1>2, <1>7, <2>2 DEF Closing
  <2> QED BY <2>2, <2>3 DEF PInv, Place
<1>8. CASE todo = <<SetTxOp("Invalid")>> /\ at = "boot"
  <2>1. Head(todo) = SetTxOp("Invalid") /\ Tail(todo) = <<>>
    BY <1>8, Tuple1
  <2>4. /\ todo' = Tail(todo) /\ Types' /\ pm'.tx = pm.tx /\ pm'.user = pm.user
        /\ UNCHANGED <<at, undo, serving, served>>
    BY <2>1, OpStep DEF OpCommitted
  <2>2. /\ todo' = <<>> /\ Types' /\ pm'.tx = pm.tx /\ pm'.user = pm.user /\ UNCHANGED <<at, served>>
    BY <2>1, <2>4
  <2>3. Resting'
    BY <1>1, <1>2, <1>8, <2>2 DEF Resting, Recoverable, Committed
  <2> QED BY <2>2, <2>3 DEF PInv, Place
<1> QED BY <1>3, <1>4, <1>5, <1>6, <1>7, <1>8 DEF Closing

\* Every step of the daemon's code leads from place to place.
LEMMA RunStep == PInv /\ Run => PInv'
<1> SUFFICES ASSUME PInv, Run PROVE PInv'
  OBVIOUS
<1>1. Types /\ Place
  BY DEF PInv
<1>2. CASE Resting
  BY <1>2, Which DEF Resting
<1>3. CASE Looking \/ Opening \/ Receiving \/ CallingBack \/ Closing
  BY <1>1, <1>3, LookingStep, OpeningStep, ReceivingStep, CallingBackStep, ClosingStep
<1>4. CASE \E n, op, m, e : PreparingWith(n, op, m, e)
  BY <1>1, <1>4, PreparingStep
<1>5. CASE \E n, e : OperatingWith(n, e)
  BY <1>1, <1>5, OperatingStep
<1>6. CASE \E e : EndingWith(e)
  BY <1>1, <1>6, EndingStep
<1> QED BY <1>1, <1>2, <1>3, <1>4, <1>5, <1>6 DEF Place

(***************************************************************************)
(* The other actions.                                                      *)
(***************************************************************************)
\* The code of an expiry begins the transaction, calls back and serves.
LEMMA ExpireIs == \A t : Expire(t) = Begin \o (Callback(t) \o Serve(t))
<1> SUFFICES ASSUME NEW t PROVE Expire(t) = Begin \o (Callback(t) \o Serve(t))
  OBVIOUS
<1> DEFINE X == IF t \in AutoReload
                THEN <<Call("activate", t)>> \o PopReinsertIntoActivelist(t)
                ELSE <<SetActive(t, FALSE)>> \o RemoveFromActivelist(t)
           B == Begin
           C == Callback(t)
           N == CommitNoReplay
<1>1. IsSeq(B) /\ IsSeq(C) /\ IsSeq(N)
  BY Tuple1, Tuple2 DEF Begin, Callback, CommitNoReplay
<1>2. IsSeq(X)
  <2>1. IsSeq(CommitActivelist)
    BY Tuple2 DEF CommitActivelist
  <2>2. IsSeq(PopReinsertIntoActivelist(t)) /\ IsSeq(RemoveFromActivelist(t))
    BY <2>1, Tuple3, Tuple4, Cat DEF PopReinsertIntoActivelist, RemoveFromActivelist
  <2>3. /\ IsSeq(<<Call("activate", t)>> \o PopReinsertIntoActivelist(t))
        /\ IsSeq(<<SetActive(t, FALSE)>> \o RemoveFromActivelist(t))
    BY <2>2, Cons
  <2> QED BY <2>3
<1>3. Expire(t) = ((B \o C) \o X) \o N
  BY DEF Expire
<1>4. Serve(t) = X \o N
  BY DEF Serve
<1> HIDE DEF X, B, C, N
<1> DEFINE BC == B \o C
           XN == X \o N
<1>5. IsSeq(BC) /\ IsSeq(XN)
  BY <1>1, <1>2, Cat
<1>6. (B \o C) \o XN = B \o (C \o XN)
  <2> HIDE DEF XN
  <2>1. Assoc(B, C, XN)
    BY <1>1, <1>5, Associates
  <2> QED BY <2>1 DEF Assoc
<1>7. (BC \o X) \o N = BC \o (X \o N)
  <2> HIDE DEF BC
  <2>1. Assoc(BC, X, N)
    BY <1>1, <1>2, <1>5, Associates
  <2> QED BY <2>1 DEF Assoc
<1> QED BY <1>3, <1>4, <1>6, <1>7 DEF B, C

\* With nothing left to do the daemon rests.
LEMMA NothingLeft == Place /\ todo = <<>> => Resting
<1> SUFFICES ASSUME Place, todo = <<>> PROVE Resting
  OBVIOUS
<1>0. Settled => Resting
  BY DEF Settled, Resting
<1>1. \A e : EndIs(e) => e # <<>> /\ IsSeq(e)
  BY EndSeq
<1>2. ASSUME NEW K, IsSeq(K) PROVE CommitActivelist \o K # <<>> /\ IsSeq(CommitActivelist \o K)
  <2> DEFINE C == CommitActivelist
  <2>1. IsSeq(C) /\ C # <<>>
    BY Tuple2 DEF CommitActivelist
  <2> HIDE DEF C
  <2>2. C \o K # <<>> /\ IsSeq(C \o K)
    BY <1>2, <2>1, Cat
  <2> QED BY <2>2 DEF C
<1>4. CASE Looking
  BY <1>0, <1>4 DEF Looking
<1>5. CASE Opening
  BY <1>0, <1>5 DEF Opening, OpeningOf
<1>6. CASE Resting
  BY <1>6
<1>7. CASE Receiving
  BY <1>7, Tuple1 DEF Receiving
<1>8. CASE CallingBack
  <2>1. IsSeq(Serve(serving)) /\ IsSeq(Callback(serving)) /\ Callback(serving) # <<>>
    BY ServeIs, Tuple2 DEF Callback
  <2>2. Callback(serving) \o Serve(serving) # <<>>
    BY <2>1, Cat
  <2>3. <<SetFired(serving, (pm.user[serving].fired + 1) % Wrap)>> \o Serve(serving) # <<>>
    BY <2>1, Cons
  <2> QED BY <1>8, <2>2, <2>3 DEF CallingBack
<1>9. ASSUME NEW n, NEW K, IsSeq(n), IsSeq(K), K # <<>> PROVE n \o K # <<>>
  <2>1. CASE n = <<>>
    BY <1>9, <2>1, Cat
  <2>2. CASE n # <<>>
    BY <1>9, <2>2, Cat
  <2> QED BY <2>1, <2>2
<1>10. CASE \E n, op, m, e : PreparingWith(n, op, m, e)
  <2>1. PICK n, op, m, e : PreparingWith(n, op, m, e)
    BY <1>10
  <2>2. IsSeq(CommitActivelist \o e) /\ IsSeq(n) /\ IsSeq(m)
    BY <1>1, <1>2, <2>1 DEF PreparingWith, Works
  <2>3. IsSeq(m \o (CommitActivelist \o e))
    BY <2>2, Cat
  <2> DEFINE K == <<SetTxOp(op)>> \o (m \o (CommitActivelist \o e))
  <2>4. IsSeq(K) /\ K # <<>>
    BY <2>3, Cons
  <2>5. todo = n \o K
    BY <2>1 DEF PreparingWith
  <2> HIDE DEF K
  <2> QED BY <1>9, <2>2, <2>4, <2>5
<1>11. CASE \E n, e : OperatingWith(n, e)
  <2>1. PICK n, e : OperatingWith(n, e)
    BY <1>11
  <2> DEFINE K == CommitActivelist \o e
  <2>2. IsSeq(K) /\ K # <<>> /\ IsSeq(n)
    BY <1>1, <1>2, <2>1 DEF OperatingWith, Works
  <2>3. todo = n \o K
    BY <2>1 DEF OperatingWith
  <2> HIDE DEF K
  <2> QED BY <1>9, <2>2, <2>3
<1>12. CASE \E e : EndingWith(e)
  <2>1. PICK e : EndingWith(e)
    BY <1>12
  <2>2. <<StartOpLog("Invalid", 0)>> \o e # <<>> /\ e # <<>>
    BY <1>1, <2>1, Cons DEF EndingWith
  <2>3. Tail(EndBoot) # <<>>
    BY Ends
  <2> QED BY <2>1, <2>2, <2>3 DEF EndingWith
<1>13. CASE Closing
  BY <1>13, Ends DEF Closing
<1> QED BY <1>4, <1>5, <1>6, <1>7, <1>8, <1>10, <1>11, <1>12, <1>13 DEF Place

\* What leaves memory and journal alone leaves the daemon settled.
LEMMA SettledSame ==
  ASSUME Settled, at' # "boot", UNCHANGED <<pm, undo, serving, served>>
  PROVE  Settled'
BY DEF Settled, Committed, Replay, Kept, Agrees, Started, Log, MicroOp

\* The daemon's loop opens a transaction, or looks at the clock.
LEMMA ProcessStep == PInv /\ (ProcessExpiredTimer \/ ProcessReceiveTimerCmd) => PInv'
<1> SUFFICES ASSUME PInv, ProcessExpiredTimer \/ ProcessReceiveTimerCmd PROVE PInv'
  OBVIOUS
<1>1. /\ UNCHANGED <<pm, undo, queue, call, asleep, until, ticks, history>> /\ Running /\ at # "boot"
      /\ at' # "boot"
  BY DEF ProcessExpiredTimer, ProcessReceiveTimerCmd
<1>2. Settled
  BY <1>1, NothingLeft DEF PInv, Running, Resting
<1>3. Settled'
  BY <1>1, <1>2, SettledSame DEF history
<1>4. Types'
  BY <1>1 DEF PInv, Types, history
<1>5. CASE ProcessReceiveTimerCmd
  <2>1. at' = "receive" /\ todo' = (Invalidate \o Begin) \o <<Call("receive", None)>>
    BY <1>5 DEF ProcessReceiveTimerCmd
  <2> DEFINE I == Invalidate
             B == Begin
             R == <<Call("receive", None)>>
  <2>2. IsSeq(I) /\ IsSeq(B) /\ IsSeq(R)
    BY Tuple1, Tuple2 DEF Invalidate, Begin
  <2>3. Assoc(I, B, R)
    <3> HIDE DEF I, B, R
    <3> QED BY <2>2, Associates
  <2>4. todo' = Invalidate \o (Begin \o <<Call("receive", None)>>)
    BY <2>1, <2>3 DEF Assoc
  <2>5. OpeningOf(<<Call("receive", None)>>)'
    BY <1>3, <2>4 DEF OpeningOf
  <2> QED BY <1>4, <2>1, <2>5 DEF PInv, Place, Opening
<1>6. CASE ProcessExpiredTimer
  <2>1. at' = "expired"
    BY <1>6 DEF ProcessExpiredTimer
  <2>2. CASE Head0 # None /\ Expiry(Head0) <= 0
    <3>1. todo' = Invalidate \o Expire(Head0)
      BY <1>6, <2>2 DEF ProcessExpiredTimer
    <3>2. todo' = Invalidate \o (Begin \o (Callback(Head0) \o Serve(Head0)))
      BY <3>1, ExpireIs
    <3>3. Head0' = Head0 /\ Callback(Head0)' = Callback(Head0) /\ Serve(Head0)' = Serve(Head0)
      BY <1>1 DEF Head0, Callback, Serve
    <3> DEFINE K == Callback(Head0) \o Serve(Head0)
    <3>4. K' = K /\ todo' = Invalidate \o (Begin \o K)
      BY <3>2, <3>3
    <3>6. Opening' <=> \/ at' = "receive" /\ OpeningOf(<<Call("receive", None)>>)'
                       \/ at' = "expired" /\ Head0' # None /\ OpeningOf(K)'
      BY DEF Opening
    <3> HIDE DEF K
    <3>5. OpeningOf(K)'
      BY <1>3, <3>4 DEF OpeningOf
    <3> QED BY <1>4, <2>1, <2>2, <3>3, <3>5, <3>6 DEF PInv, Place
  <2>3. CASE ~ (Head0 # None /\ Expiry(Head0) <= 0)
    <3>1. todo' = Invalidate \o LookAndBlock
      BY <1>6, <2>3 DEF ProcessExpiredTimer, LookAndBlock
    <3>2. Looking'
      BY <1>3, <3>1 DEF Looking
    <3> QED BY <1>4, <3>2 DEF PInv, Place
  <2> QED BY <2>2, <2>3
<1> QED BY <1>5, <1>6

\* Wherever the power fails, the code of recovery begins at a place.
LEMMA PowerFailureStep == PInv /\ PowerFailure => PInv'
<1> SUFFICES ASSUME PInv, PowerFailure PROVE PInv'
  OBVIOUS
<1>1. /\ at' = "boot" /\ todo' = RecoverDaemon
      /\ call' = IF Dated(call) THEN [call EXCEPT !.opaque = 0] ELSE call
      /\ UNCHANGED <<pm, undo, queue, history>>
  BY DEF PowerFailure
<1>2. Types'
  <2>1. call' \in Given \cup {None}
    <3>1. call \in Given \cup {None}
      BY DEF PInv, Types
    <3>2. Dated(call) => call \in Given
      BY <3>1 DEF Dated
    <3>3. \A c \in Given : [c EXCEPT !.opaque = 0] \in Given
      BY DEF Given
    <3> QED BY <1>1, <3>1, <3>2, <3>3
  <2>2. Types /\ UNCHANGED <<pm, undo, queue, history>>
    BY <1>1 DEF PInv
  <2> QED BY <2>1, <2>2 DEF Types, history
<1>3. Recoverable
  BY PlaceRecoverable DEF PInv
<1>4. /\ Committed' = Committed /\ Started' = Started /\ Log' = Log /\ Kept' = Kept
      /\ Ahead' = Ahead /\ UndoKept' = UndoKept /\ (Recoverable' <=> Recoverable)
  BY <1>1 DEF Committed, Started, Log, MicroOp, Kept, Agrees, Ahead, UndoKept, Recoverable, history
<1>5. EndIs(EndBoot)'
  BY <1>1 DEF EndIs
<1>6. CASE Committed
  <2> DEFINE x == Call("clear_journal", None)
             y == SetReplay(None)
             z == SetTxOp("Invalid")
  <2>1. todo' = (<<x>> \o <<y>>) \o <<z>>
    BY <1>1, <1>6 DEF RecoverDaemon, UserTxEnd, InvalidateActivelist
  <2> HIDE DEF x, y, z
  <2>2. IsSeq(<<x>>) /\ IsSeq(<<y>>) /\ IsSeq(<<z>>)
    BY Tuple1
  <2>3. (<<x>> \o <<y>>) \o <<z>> = <<x>> \o (<<y>> \o <<z>>)
    <3>1. Assoc(<<x>>, <<y>>, <<z>>)
      BY <2>2, Associates
    <3> QED BY <3>1, Zenon DEF Assoc
  <2>4. <<y>> \o <<z>> = <<y, z>>
    BY Tuple2
  <2>5. <<x>> \o <<y, z>> = <<x, y, z>>
    <3>1. \A u, v, w : <<u, v, w>> = <<u>> \o <<v, w>>
      BY Tuple3, Zenon
    <3> QED BY <3>1, Zenon
  <2>6. todo' = <<x, y, z>>
    BY <2>1, <2>3, <2>4, <2>5, Zenon
  <2>7. Closing'
    BY <1>1, <1>3, <1>4, <1>6, <2>6 DEF Closing, Recoverable, x, y, z
  <2> QED BY <1>2, <2>7 DEF PInv, Place
<1>7. CASE ~ Committed /\ ~ Started
  <2>1. todo' = <<>>
    BY <1>1, <1>7 DEF RecoverDaemon
  <2>2. Resting'
    BY <1>1, <1>3, <1>4, <1>7, <2>1 DEF Resting
  <2> QED BY <1>2, <2>2 DEF PInv, Place
<1>8. CASE ~ Committed /\ Started
  <2>1. todo' = RollForward \o CommitRollForward \o UserTxEnd \o InvalidateActivelist
    BY <1>1, <1>8 DEF RecoverDaemon
  <2>2. CASE Log.op = OpCommitted
    <3>1. todo' = EndBoot
      BY <2>1, <2>2, RollForwardIs
    <3>2. EndingWith(EndBoot)'
      BY <1>3, <1>4, <1>5, <1>8, <2>2, <3>1 DEF EndingWith, Recoverable
    <3> QED BY <1>2, <3>2 DEF PInv, Place
  <2>3. CASE Log.op # OpCommitted
    <3>1. PICK w : Works(w) /\ todo' = w \o (CommitActivelist \o EndBoot)
      BY <2>1, <2>3, RollForwardIs
    <3>2. Log.op # "Invalid"
      BY <1>8, <2>3 DEF Started, OpCommitted
    <3>3. OperatingWith(w, EndBoot)'
      BY <1>3, <1>4, <1>5, <1>8, <2>3, <3>1, <3>2 DEF OperatingWith, Recoverable
    <3> QED BY <1>2, <3>3 DEF PInv, Place
  <2> QED BY <2>2, <2>3
<1> QED BY <1>6, <1>7, <1>8

\* jit_recovery leaves the daemon settled.
LEMMA JitStep == PInv /\ JitRecovery => PInv'
<1> SUFFICES ASSUME PInv, JitRecovery PROVE PInv'
  OBVIOUS
<1>1. /\ todo = <<>> /\ at = "boot" /\ at' = "start" /\ undo' = None
      /\ pm' = IF Committed THEN Apply(pm, SetReplay(None))
               ELSE IF undo # None THEN [pm EXCEPT !.user = undo] ELSE pm
      /\ UNCHANGED <<queue, call, todo, history>>
  BY DEF JitRecovery, Running
<1>2. Recoverable /\ (Committed \/ ~ Started)
  BY <1>1, NothingLeft DEF PInv, Resting
<1>3. MemOK(pm)
  BY DEF PInv, Types
<1>4. CASE Committed
  <2>1. /\ MemOK(pm') /\ pm'.user = pm.user
        /\ pm'.tx["tx"].committed = pm.tx["tx"].committed /\ pm'.tx["tx"].replay = None
    BY <1>1, <1>3, <1>4, ApplyReplay
  <2>2. Committed' /\ Replay' = None
    BY <1>4, <2>1 DEF Committed, Replay
  <2>3. Kept'
    BY <1>1, <1>2, <1>4, <2>1 DEF Recoverable, Kept, Agrees, history
  <2>4. Resting'
    BY <1>1, <2>2, <2>3 DEF Resting, Settled
  <2>5. Types'
    BY <1>1, <2>1 DEF PInv, Types, history
  <2> QED BY <2>4, <2>5 DEF PInv, Place
<1>5. CASE ~ Committed
  <2>1. /\ MemOK(pm') /\ pm'.tx = pm.tx /\ pm'.log = pm.log
        /\ pm'.user = IF undo # None THEN undo ELSE pm.user
    <3>1. CASE undo = None
      BY <1>1, <1>3, <1>5, <3>1
    <3>2. CASE undo # None
      <4>1. undo \in Written
        BY <3>2 DEF PInv, Types
      <4>2. /\ pm'.tx = pm.tx /\ pm'.log = pm.log /\ pm'.user = undo /\ DOMAIN pm' = DOMAIN pm
        BY <1>1, <1>3, <1>5, <3>2 DEF MemOK
      <4>3. MemOK(pm')
        BY <1>3, <4>1, <4>2 DEF MemOK
      <4> QED BY <3>2, <4>2, <4>3
    <3> QED BY <3>1, <3>2
  <2>2. Kept'
    BY <1>1, <1>2, <1>5, <2>1 DEF Recoverable, UndoKept, Kept, Agrees, history
  <2>3. Committed' = Committed /\ Started' = Started
    BY <2>1 DEF Committed, Started, Log, MicroOp
  <2>4. Resting'
    BY <1>1, <1>2, <1>5, <2>2, <2>3 DEF Resting, Settled
  <2>5. Types'
    BY <1>1, <2>1 DEF PInv, Types, history
  <2> QED BY <2>4, <2>5 DEF PInv, Place
<1> QED BY <1>4, <1>5

\* A command that gets older is the same command.
LEMMA AgedIs ==
  /\ \A m \in Queued : Aged(m) \in Queued /\ Aged(m).cmd = m.cmd /\ Aged(m).id = m.id
  /\ \A m \in Given : Aged(m) \in Given
  /\ Aged(None) = None /\ Aged(Invalid) = Invalid
<1>1. \A k \in Int : Later(k) \in Int
  BY TimerAssumption DEF Later
<1>2. ASSUME NEW m \in Queued PROVE Aged(m) \in Queued /\ Aged(m).cmd = m.cmd /\ Aged(m).id = m.id
  BY <1>1 DEF Aged, Queued
<1>3. ASSUME NEW m \in Given PROVE Aged(m) \in Given
  BY <1>1 DEF Aged, Given
<1>4. Aged(None) = None
  BY DEF Aged, Dated
<1>5. Aged(Invalid) = Invalid
  BY DEF Aged, Dated, Invalid
<1> QED BY <1>2, <1>3, <1>4, <1>5

\* A tick changes expiry times and the time of the recorded command only.
LEMMA TickMem ==
  ASSUME MemOK(pm), Tick
  PROVE  /\ MemOK(pm') /\ pm'.log = pm.log /\ pm'.user = pm.user /\ pm'.list = pm.list
         /\ Committed' = Committed /\ Replay' = Aged(Replay)
<1> DEFINE N == [t \in Timer |-> [pm.node[t] EXCEPT !.expiry = Later(@)]]
<1>1. pm' = [pm EXCEPT !.node = N, !.tx["tx"].replay = Aged(@)]
  BY DEF Tick
<1> HIDE DEF N
<1>2. /\ pm'.log = pm.log /\ pm'.user = pm.user /\ pm'.list = pm.list
      /\ DOMAIN pm' = DOMAIN pm /\ DOMAIN pm'.tx = DOMAIN pm.tx
      /\ DOMAIN pm'.tx["tx"] = DOMAIN pm.tx["tx"]
      /\ pm'.tx["tx"].committed = pm.tx["tx"].committed
      /\ pm'.tx["tx"].replay = Aged(pm.tx["tx"].replay)
  BY <1>1 DEF MemOK
<1>3. pm'.tx["tx"].replay \in Queued \cup {None, Invalid}
  <2>1. pm.tx["tx"].replay \in Queued \cup {None, Invalid}
    BY DEF MemOK
  <2> QED BY <1>2, <2>1, AgedIs
<1>4. MemOK(pm')
  BY <1>2, <1>3 DEF MemOK
<1> QED BY <1>2, <1>4 DEF Committed, Replay

\* Tasks and ticks leave the daemon where it is.
LEMMA TaskStep == PInv /\ (Command \/ Send \/ CmdQueueBusy \/ Tick) => PInv'
<1> SUFFICES ASSUME Types, Place, Command \/ Send \/ CmdQueueBusy \/ Tick PROVE Types' /\ Place'
  BY DEF PInv
<1>1. ASSUME pm' = pm, UNCHANGED <<todo, at, undo, serving, served>> PROVE Place'
  <2>1. /\ pm'.log = pm.log /\ pm'.user = pm.user /\ pm'.list = pm.list
        /\ Committed' = Committed /\ Replay' = Replay
    BY <1>1 DEF Committed, Replay
  <2> QED BY <1>1, <2>1, Frame
<1>2. CASE Command
  <2>1. /\ pm' = pm /\ call' = script[sent + 1] /\ sent < Len(script)
        /\ UNCHANGED <<undo, queue, todo, at, history>>
    BY <1>2 DEF Command
  <2>2. call' \in Given
    <3>1. script \in Seq([cmd : Cmds, timer : Timer, opaque : 0 .. Never - 1]) /\ sent \in Nat
      BY TimerAssumption DEF Types
    <3>2. script[sent + 1] \in [cmd : Cmds, timer : Timer, opaque : 0 .. Never - 1]
      <4> DEFINE S == [cmd : Cmds, timer : Timer, opaque : 0 .. Never - 1]
      <4>1. script \in Seq(S) /\ sent \in Nat
        BY <3>1
      <4> HIDE DEF S
      <4>2. Len(script) \in Nat
        BY <4>1, LenProperties
      <4>3. sent + 1 \in 1 .. Len(script)
        BY <2>1, <4>1, <4>2
      <4>4. script[sent + 1] \in S
        BY <4>1, <4>3, ElementOfSeq
      <4> QED BY <4>4 DEF S
    <3>3. [cmd : Cmds, timer : Timer, opaque : 0 .. Never - 1] \subseteq Given
      BY TimerAssumption DEF Given
    <3> QED BY <2>1, <3>2, <3>3
  <2> QED BY <1>1, <2>1, <2>2 DEF Types, history
<1>3. CASE Send
  <2>1. /\ pm' = pm /\ sent' = sent + 1 /\ call' = None /\ call # None
        /\ queue' = Append(queue, [cmd |-> call.cmd, timer |-> call.timer, opaque |-> call.opaque,
                                   id |-> sent + 1])
        /\ UNCHANGED <<undo, todo, at, script, done, serving, served>>
    BY <1>3 DEF Send
  <2>2. queue' \in Seq(Queued)
    <3>1. call \in Given /\ sent \in Nat /\ queue \in Seq(Queued)
      BY <2>1 DEF Types
    <3>2. [cmd |-> call.cmd, timer |-> call.timer, opaque |-> call.opaque, id |-> sent + 1] \in Queued
      BY <3>1 DEF Given, Queued
    <3> QED BY <2>1, <3>1, <3>2
  <2>3. Types'
    BY <2>1, <2>2 DEF Types
  <2> QED BY <1>1, <2>1, <2>3
<1>4. CASE CmdQueueBusy
  <2>1. pm' = pm /\ call' = None /\ UNCHANGED <<undo, queue, todo, at, history>>
    BY <1>4 DEF CmdQueueBusy
  <2> QED BY <1>1, <2>1 DEF Types, history
<1>5. CASE Tick
  <2>1. /\ queue' = [i \in DOMAIN queue |-> Aged(queue[i])] /\ call' = Aged(call)
        /\ UNCHANGED <<undo, todo, at, script, sent, done, serving, served>>
    BY <1>5 DEF Tick
  <2>2. /\ MemOK(pm') /\ pm'.log = pm.log /\ pm'.user = pm.user /\ pm'.list = pm.list
        /\ Committed' = Committed /\ Replay' = Aged(Replay)
    BY <1>5, TickMem DEF Types
  <2>3. queue' \in Seq(Queued)
    <3>1. queue \in Seq(Queued) /\ DOMAIN queue = 1 .. Len(queue) /\ Len(queue) \in Nat
      BY DEF Types
    <3>2. \A i \in 1 .. Len(queue) : Aged(queue[i]) \in Queued
      BY <3>1, AgedIs
    <3> QED BY <2>1, <3>1, <3>2
  <2>4. call' \in Given \cup {None}
    BY <2>1, AgedIs DEF Types
  <2>5. Types'
    BY <2>1, <2>2, <2>3, <2>4 DEF Types
  <2>6. Place'
    BY <2>1, <2>2, AgedIs, Frame
  <2> QED BY <2>5, <2>6
<1> QED BY <1>2, <1>3, <1>4, <1>5

\* At first the daemon rests.
LEMMA PlaceInit == Init => PInv
<1> SUFFICES ASSUME Init PROVE PInv
  OBVIOUS
<1>1. 0 \in 0 .. Wrap - 1
  BY TimerAssumption
<1>2. /\ pm.log["log"] = [op |-> "Invalid", block |-> None, micro |-> [op |-> "Invalid", len |-> 0]]
      /\ pm.tx["tx"] = [committed |-> FALSE, replay |-> None]
      /\ pm.user = [t \in Timer |-> [fired |-> 0]]
      /\ DOMAIN pm = {"node", "list", "log", "timer", "user", "tx"}
      /\ DOMAIN pm.log = {"log"} /\ DOMAIN pm.tx = {"tx"}
  BY DEF Init
<1>3. MemOK(pm)
  BY <1>1, <1>2 DEF MemOK, Written
<1>4. Types
  BY <1>3 DEF Types, Init
<1>5. ~ Committed /\ Log.op = "Invalid"
  BY <1>2 DEF Committed, Log
<1>6. Kept
  BY <1>2 DEF Kept, Agrees, Init
<1>7. Resting
  BY <1>5, <1>6, NotStarted DEF Resting, Settled, Init
<1> QED BY <1>4, <1>7 DEF PInv, Place

\* Every step keeps the invariant.
LEMMA PlaceStep == PInv /\ [Next]_vars => PInv'
<1> SUFFICES ASSUME PInv, [Next]_vars PROVE PInv'
  OBVIOUS
<1>1. CASE UNCHANGED vars
  <2>1. UNCHANGED <<pm, todo, at, undo, queue, call, serving, served, script, sent, done>>
    BY <1>1 DEF vars, history
  <2>2. Types'
    BY <2>1 DEF PInv, Types
  <2>3. /\ pm'.log = pm.log /\ pm'.user = pm.user /\ pm'.list = pm.list
        /\ Committed' = Committed /\ Replay' = Replay
    BY <2>1 DEF Committed, Replay
  <2> QED BY <2>1, <2>2, <2>3, Frame DEF PInv
<1>2. CASE Daemon
  BY <1>2, RunStep, ProcessStep, JitStep DEF Daemon, Run
<1>3. CASE Command \/ Send \/ CmdQueueBusy \/ Tick
  BY <1>3, TaskStep
<1>4. CASE PowerFailure
  BY <1>4, PowerFailureStep
<1> QED BY <1>1, <1>2, <1>3, <1>4 DEF Next

\* The daemon is always at one of the places, whatever stores the power fails
\* between: the inductive invariant of what follows.
THEOREM Inductive == Spec => []PInv
BY PlaceInit, PlaceStep, PTL DEF Spec

\* What the callback of a timer wrote is kept exactly once for each expiry whose
\* list operation is completed, in all windows: recovery rolls both back, or
\* both forward.
THEOREM CallbacksKept == Spec => []CallbackOncePerExpiry
<1>1. PInv => CallbackOncePerExpiry
  BY NothingLeft DEF PInv, Resting, Settled, Kept, Agrees, CallbackOncePerExpiry, AtRest
<1> QED BY <1>1, Inductive, PTL


(***************************************************************************)
(* The commands: those carried out, the one in hand and those in the       *)
(* queue.                                                                  *)
(***************************************************************************)
Ids(q) == [i \in DOMAIN q |-> q[i].id]

UpTo(n) == [i \in 1 .. n |-> i]

\* A queue of commands has as many numbers.
LEMMA IdsIs == \A q \in Seq(Queued) : Ids(q) \in Seq(Nat) /\ Len(Ids(q)) = Len(q)
<1> SUFFICES ASSUME NEW q \in Seq(Queued) PROVE Ids(q) \in Seq(Nat) /\ Len(Ids(q)) = Len(q)
  OBVIOUS
<1>1. Len(q) \in Nat /\ DOMAIN q = 1 .. Len(q) /\ \A i \in 1 .. Len(q) : q[i] \in Queued
  BY LenProperties, ElementOfSeq
<1>2. \A i \in 1 .. Len(q) : q[i].id \in Nat
  BY <1>1 DEF Queued
<1>3. Ids(q) \in [1 .. Len(q) -> Nat]
  BY <1>1, <1>2 DEF Ids
<1> QED BY <1>1, <1>3

\* A command that is sent comes last.
LEMMA IdsAppend ==
  ASSUME NEW q \in Seq(Queued), NEW m \in Queued
  PROVE  Ids(Append(q, m)) = Append(Ids(q), m.id)
<1>1. /\ Append(q, m) \in Seq(Queued) /\ Len(Append(q, m)) = Len(q) + 1 /\ Len(q) \in Nat
      /\ \A i \in 1 .. Len(q) : Append(q, m)[i] = q[i]
      /\ Append(q, m)[Len(q) + 1] = m
  BY AppendProperties, LenProperties
<1>2. m.id \in Nat
  BY DEF Queued
<1>3. Ids(q) \in Seq(Nat) /\ Len(Ids(q)) = Len(q)
  BY IdsIs
<1>4. Ids(Append(q, m)) \in Seq(Nat) /\ Len(Ids(Append(q, m))) = Len(q) + 1
  BY <1>1, IdsIs
<1>5. /\ Append(Ids(q), m.id) \in Seq(Nat) /\ Len(Append(Ids(q), m.id)) = Len(q) + 1
      /\ \A i \in 1 .. Len(q) : Append(Ids(q), m.id)[i] = Ids(q)[i]
      /\ Append(Ids(q), m.id)[Len(q) + 1] = m.id
  BY <1>2, <1>3, AppendProperties
<1>6. DOMAIN q = 1 .. Len(q) /\ DOMAIN Append(q, m) = 1 .. Len(q) + 1
  BY <1>1, LenProperties
<1>7. \A i \in 1 .. Len(q) : Ids(Append(q, m))[i] = q[i].id /\ Ids(q)[i] = q[i].id
  BY <1>1, <1>6 DEF Ids
<1>8. Ids(Append(q, m))[Len(q) + 1] = m.id
  BY <1>1, <1>6 DEF Ids
<1>9. \A i \in 1 .. Len(q) + 1 : Ids(Append(q, m))[i] = Append(Ids(q), m.id)[i]
  BY <1>1, <1>5, <1>7, <1>8
<1> QED BY <1>4, <1>5, <1>9, SeqEqual

\* The command that is received came first.
LEMMA IdsTail ==
  ASSUME NEW q \in Seq(Queued), q # <<>>
  PROVE  Ids(q) = <<Head(q).id>> \o Ids(Tail(q))
<1> DEFINE x == Head(q).id
           t == Ids(Tail(q))
<1>1. /\ Head(q) \in Queued /\ Head(q) = q[1] /\ Tail(q) \in Seq(Queued) /\ Len(Tail(q)) = Len(q) - 1
      /\ \A i \in 1 .. Len(Tail(q)) : Tail(q)[i] = q[i + 1]
  BY HeadTailProperties
<1>2. Len(q) \in Nat \ {0} /\ DOMAIN q = 1 .. Len(q) /\ DOMAIN Tail(q) = 1 .. Len(q) - 1
  BY <1>1, EmptySeq, LenProperties
<1>3. x \in Nat
  BY <1>1 DEF Queued
<1>4. t \in Seq(Nat) /\ Len(t) = Len(q) - 1 /\ Ids(q) \in Seq(Nat) /\ Len(Ids(q)) = Len(q)
  BY <1>1, IdsIs
<1>5. \A i \in 1 .. Len(q) - 1 : t[i] = q[i + 1].id
  BY <1>1, <1>2 DEF Ids
<1>6. Ids(q)[1] = x /\ \A i \in 1 .. Len(q) : Ids(q)[i] = q[i].id
  BY <1>1, <1>2 DEF Ids
<1> HIDE DEF x, t
<1>7. <<x>> \in Seq(Nat) /\ Len(<<x>>) = 1 /\ <<x>>[1] = x
  BY <1>3
<1>8. /\ <<x>> \o t \in Seq(Nat) /\ Len(<<x>> \o t) = Len(q)
      /\ \A i \in 1 .. Len(q) : (<<x>> \o t)[i] = IF i <= 1 THEN <<x>>[i] ELSE t[i - 1]
  <2> DEFINE h == <<x>>
  <2>1. h \in Seq(Nat) /\ Len(h) = 1
    BY <1>7
  <2> HIDE DEF h
  <2>2. /\ h \o t \in Seq(Nat) /\ Len(h \o t) = Len(h) + Len(t)
        /\ \A i \in 1 .. Len(h) + Len(t) : (h \o t)[i] = IF i <= Len(h) THEN h[i] ELSE t[i - Len(h)]
    <3>1. t \in Seq(Nat)
      BY <1>4
    <3> QED BY <2>1, <3>1, ConcatProperties
  <2>3. Len(h) + Len(t) = Len(q)
    BY <1>2, <1>4, <2>1
  <2>4. /\ h \o t \in Seq(Nat) /\ Len(h \o t) = Len(q)
        /\ \A i \in 1 .. Len(q) : (h \o t)[i] = IF i <= 1 THEN h[i] ELSE t[i - 1]
    BY <2>1, <2>2, <2>3
  <2> QED BY <2>4 DEF h
<1>9. \A i \in 1 .. Len(q) : Ids(q)[i] = (<<x>> \o t)[i]
  BY <1>2, <1>5, <1>6, <1>7, <1>8
<1>10. Ids(q) = <<x>> \o t
  BY <1>4, <1>8, <1>9, SeqEqual
<1> QED BY <1>10 DEF x, t

\* From the queue into the hand, and from there to what is done.
LEMMA HandOver ==
  ASSUME NEW d \in Seq(Nat), NEW x \in Nat, NEW q \in Seq(Nat)
  PROVE  /\ (d \o <<>>) \o (<<x>> \o q) = (d \o <<x>>) \o q
         /\ (Append(d, x) \o <<>>) \o q = (d \o <<x>>) \o q
<1>1. IsSeq(d) /\ IsSeq(q) /\ IsSeq(<<x>>)
  BY SeqIs, Tuple1
<1>2. d \o <<>> = d
  BY ConcatEmptySeq
<1>3. (d \o <<x>>) \o q = d \o (<<x>> \o q)
  BY <1>1, CatAssoc
<1>4. Append(d, x) = d \o <<x>>
  BY AppendIsConcat
<1>5. Append(d, x) \in Seq(Nat)
  BY AppendProperties
<1>6. Append(d, x) \o <<>> = Append(d, x)
  BY <1>5, ConcatEmptySeq
<1> QED BY <1>2, <1>3, <1>4, <1>6

\* One more command.
LEMMA OneMore ==
  ASSUME NEW d \in Seq(Nat), NEW q \in Seq(Nat), NEW n \in Nat, d \o q = UpTo(n)
  PROVE  d \o Append(q, n + 1) = UpTo(n + 1)
<1>1. IsSeq(d) /\ IsSeq(q) /\ IsSeq(<<n + 1>>)
  BY SeqIs, Tuple1
<1>2. Append(q, n + 1) = q \o <<n + 1>>
  BY AppendIsConcat
<1>3. d \o (q \o <<n + 1>>) = (d \o q) \o <<n + 1>>
  <2>1. Assoc(d, q, <<n + 1>>)
    BY <1>1, Associates
  <2> QED BY <2>1, Zenon DEF Assoc
<1>4. UpTo(n) \in Seq(Nat) /\ Len(UpTo(n)) = n /\ UpTo(n + 1) \in Seq(Nat) /\ Len(UpTo(n + 1)) = n + 1
  <2>1. ASSUME NEW k \in Nat PROVE UpTo(k) \in Seq(Nat) /\ Len(UpTo(k)) = k
    <3> DEFINE u == UpTo(k)
    <3>1. u \in [1 .. k -> Nat]
      BY DEF UpTo
    <3> HIDE DEF u
    <3>2. u \in Seq(Nat) /\ Len(u) = k
      BY <3>1
    <3> QED BY <3>2 DEF u
  <2> QED BY <2>1
<1>5. UpTo(n) \o <<n + 1>> = UpTo(n + 1)
  <2> DEFINE u == UpTo(n)
             v == UpTo(n + 1)
  <2>1. (\A i \in 1 .. n : u[i] = i) /\ \A i \in 1 .. n + 1 : v[i] = i
    BY DEF UpTo
  <2> HIDE DEF u, v
  <2>2. u \in Seq(Nat) /\ Len(u) = n /\ v \in Seq(Nat) /\ Len(v) = n + 1
    BY <1>4 DEF u, v
  <2>3. <<n + 1>> \in Seq(Nat) /\ Len(<<n + 1>>) = 1 /\ <<n + 1>>[1] = n + 1
    OBVIOUS
  <2>4. /\ u \o <<n + 1>> \in Seq(Nat) /\ Len(u \o <<n + 1>>) = n + 1
        /\ \A i \in 1 .. n + 1 : (u \o <<n + 1>>)[i] = IF i <= n THEN u[i] ELSE <<n + 1>>[i - n]
    BY <2>2, <2>3, ConcatProperties
  <2>5. \A i \in 1 .. n + 1 : (u \o <<n + 1>>)[i] = v[i]
    BY <2>1, <2>3, <2>4
  <2>6. u \o <<n + 1>> = v
    BY <2>2, <2>4, <2>5, SeqEqual
  <2> QED BY <2>6 DEF u, v
<1> QED BY <1>2, <1>3, <1>5

\* The steps that take a command into the hand or out of it, and where they are
\* taken.
Handling(s) ==
    /\ s.obj = "tx" =>
          \/ s = SetCommitted(FALSE) /\ Settled
          \/ s = SetCommitted(TRUE) /\ ~ Committed
          \/ s = SetReplay(None) /\ Committed /\ (at = "boot" \/ serving = None)
    /\ s.obj = "call" /\ s.field = "receive" => Receiving

\* Work, the log, the journal and the clock have no part in that.
LEMMA HandlingNone ==
  /\ \A s : Work(s) => Handling(s)
  /\ \A v : Handling(SetTxOp(v))
  /\ \A t, v : Handling(SetFired(t, v))
  /\ Handling(StartOpLog("Invalid", 0))
  /\ \A f \in {"log", "clear_journal", "look", "block"} : Handling(Call(f, None))
<1>1. \A s : Work(s) => Handling(s)
  BY DEF Work, ListCalls, Handling
<1>2. /\ \A v : Handling(SetTxOp(v))
      /\ \A t, v : Handling(SetFired(t, v))
      /\ Handling(StartOpLog("Invalid", 0))
  BY DEF Handling, SetTxOp, SetFired, StartOpLog, Store
<1>3. \A f \in {"log", "clear_journal", "look", "block"} : Handling(Call(f, None))
  BY DEF Handling, Call
<1> QED BY <1>1, <1>2, <1>3

\* No other steps have, wherever the daemon is.
LEMMA Heads ==
  ASSUME Place, todo # <<>>
  PROVE  Handling(Head(todo))
<1>1. CASE Looking
  <2>1. /\ IsSeq(LookAndBlock) /\ Head(LookAndBlock) = Call("look", None)
    BY Tuple2 DEF LookAndBlock
  <2>2. Head(<<Call("block", None)>>) = Call("block", None)
    BY Tuple1
  <2>3. \/ Head(todo) = StartOpLog("Invalid", 0) \/ Head(todo) = SetTxOp("Invalid")
        \/ Head(todo) = Call("look", None) \/ Head(todo) = Call("block", None)
    BY <1>1, <2>1, <2>2, Fronts DEF Looking
  <2> QED BY <2>3, HandlingNone
<1>2. CASE Opening
  <2>1. ASSUME NEW K, IsSeq(K), OpeningOf(K) PROVE Handling(Head(todo))
    <3>1. IsSeq(Begin \o K) /\ Head(Begin \o K) = SetCommitted(FALSE)
      BY <2>1, Fronts
    <3>2. \/ Head(todo) = StartOpLog("Invalid", 0) \/ Head(todo) = SetTxOp("Invalid")
          \/ Head(todo) = SetCommitted(FALSE) /\ Settled
      BY <2>1, <3>1, Fronts DEF OpeningOf
    <3>3. Settled => Handling(SetCommitted(FALSE))
      BY DEF Handling, SetCommitted, Store
    <3> QED BY <3>2, <3>3, HandlingNone
  <2>2. IsSeq(<<Call("receive", None)>>) /\ IsSeq(Callback(Head0) \o Serve(Head0))
    BY Tuple1, CallbackSeq
  <2> QED BY <1>2, <2>1, <2>2 DEF Opening
<1>3. CASE Receiving
  <2>1. Head(todo) = Call("receive", None)
    BY <1>3, Tuple1 DEF Receiving
  <2>2. Call("receive", None).obj = "call"
    BY DEF Call
  <2>3. Handling(Call("receive", None))
    BY <1>3, <2>2 DEF Handling
  <2> QED BY <2>1, <2>3
<1>4. CASE CallingBack
  <2>1. IsSeq(Serve(serving))
    BY ServeIs
  <2>2. CASE todo = Callback(serving) \o Serve(serving)
    <3> DEFINE a == Callback(serving)
    <3>1. IsSeq(a) /\ a # <<>> /\ Head(a) = Call("log", None)
      BY Tuple2, Zenon DEF Callback
    <3> HIDE DEF a
    <3>2. Head(a \o Serve(serving)) = Head(a)
      BY <2>1, <3>1, Cat
    <3>3. Head(todo) = Call("log", None)
      BY <2>2, <3>1, <3>2 DEF a
    <3> QED BY <3>3, HandlingNone
  <2>3. CASE todo = <<SetFired(serving, (pm.user[serving].fired + 1) % Wrap)>> \o Serve(serving)
    <3>1. Head(todo) = SetFired(serving, (pm.user[serving].fired + 1) % Wrap)
      BY <2>1, <2>3, Cons
    <3> QED BY <3>1, HandlingNone
  <2> QED BY <1>4, <2>2, <2>3 DEF CallingBack
<1>5. ASSUME NEW n, NEW K, NEW v, todo = n \o K, Works(n), IsSeq(K), Head(K) = SetTxOp(v)
      PROVE  Handling(Head(todo))
  <2>1. CASE n = <<>>
    <3>1. todo = K
      BY <1>5, <2>1, Cat, Tuple0
    <3> QED BY <1>5, <3>1, HandlingNone
  <2>2. CASE n # <<>>
    <3>1. Work(Head(n)) /\ IsSeq(n)
      BY <1>5, <2>2, WorksHead
    <3>2. Head(todo) = Head(n)
      BY <1>5, <2>2, <3>1, Cat
    <3> QED BY <3>1, <3>2, HandlingNone
  <2> QED BY <2>1, <2>2
<1>6. CASE \E n, op, m, e : PreparingWith(n, op, m, e)
  <2>1. PICK n, op, m, e : PreparingWith(n, op, m, e)
    BY <1>6
  <2> DEFINE M == m \o (CommitActivelist \o e)
             K == <<SetTxOp(op)>> \o M
  <2>2. todo = n \o K /\ Works(n) /\ IsSeq(m) /\ IsSeq(CommitActivelist \o e)
    BY <2>1, EndSeq, Fronts DEF PreparingWith, Works
  <2>3. IsSeq(M)
    BY <2>2, Cat
  <2> HIDE DEF M
  <2>4. IsSeq(K) /\ Head(K) = SetTxOp(op)
    BY <2>3, Cons
  <2> HIDE DEF K
  <2> QED BY <1>5, <2>2, <2>4
<1>7. CASE \E n, e : OperatingWith(n, e)
  <2>1. PICK n, e : OperatingWith(n, e)
    BY <1>7
  <2> DEFINE K == CommitActivelist \o e
  <2>2. todo = n \o K /\ Works(n) /\ IsSeq(K) /\ Head(K) = SetTxOp(OpCommitted)
    BY <2>1, EndSeq, Fronts DEF OperatingWith
  <2> HIDE DEF K
  <2> QED BY <1>5, <2>2
<1>8. CASE \E e : EndingWith(e)
  <2>1. PICK e : EndingWith(e)
    BY <1>8
  <2>2. IsSeq(e) /\ ~ Committed /\ (e = EndExpire \/ e = EndReceive \/ e = EndBoot)
    BY <2>1, EndSeq DEF EndingWith, EndIs
  <2>3. Head(<<StartOpLog("Invalid", 0)>> \o e) = StartOpLog("Invalid", 0)
    BY <2>2, Cons
  <2>4. Head(Tail(EndBoot)) = SetCommitted(TRUE)
    <3> DEFINE x == SetCommitted(TRUE)
               y == SetReplay(None)
               z == SetTxOp("Invalid")
    <3>1. Tail(EndBoot) = <<x, y, z>>
      BY Ends
    <3> HIDE DEF x, y, z
    <3>2. Head(<<x, y, z>>) = x
      BY Tuple3
    <3> QED BY <3>1, <3>2 DEF x
  <2>5. \/ Head(todo) = StartOpLog("Invalid", 0) \/ Head(todo) = SetCommitted(TRUE)
        \/ Head(todo) = Call("clear_journal", None)
    BY <2>1, <2>2, <2>3, <2>4, Ends DEF EndingWith
  <2>6. ~ Committed => Handling(SetCommitted(TRUE))
    BY DEF Handling, SetCommitted, Store
  <2> QED BY <2>2, <2>5, <2>6, HandlingNone
<1>9. CASE Closing
  <2> DEFINE x == Call("clear_journal", None)
             y == SetReplay(None)
             z == SetTxOp("Invalid")
  <2>1. Tail(EndExpire) = <<x>> /\ Tail(EndReceive) = <<x, y>>
    BY Ends
  <2>2. /\ Committed
        /\ \/ todo = <<x>> \/ todo = <<x, y>> \/ todo = <<x, y, z>> \/ todo = <<z>>
           \/ (todo = <<y>> \/ todo = <<y, z>>) /\ (at = "boot" \/ serving = None)
    BY <1>9, <2>1 DEF Closing
  <2>3. /\ Handling(x) /\ Handling(z)
        /\ Committed /\ (at = "boot" \/ serving = None) => Handling(y)
    <3>1. Committed /\ (at = "boot" \/ serving = None) => Handling(y)
      BY DEF Handling, SetReplay, Store
    <3> QED BY <3>1, HandlingNone
  <2> HIDE DEF x, y, z
  <2>4. /\ Head(<<x>>) = x /\ Head(<<x, y>>) = x /\ Head(<<z>>) = z /\ Head(<<y>>) = y
        /\ Head(<<y, z>>) = y
    BY Tuple1, Tuple2
  <2>5. Head(<<x, y, z>>) = x
    BY Tuple3
  <2> QED BY <2>2, <2>3, <2>4, <2>5
<1>10. ~ Resting
  BY DEF Resting
<1> QED BY <1>1, <1>2, <1>3, <1>4, <1>6, <1>7, <1>8, <1>9, <1>10 DEF Place

\* Every command is in its place, and a failure with one in hand struck in the
\* transaction of that command.
CInv == PInv /\ NotInHand /\ CommandsInOrder

\* CommandsInOrder in these terms.
LEMMA OrderIs == CommandsInOrder <=> (done \o InHand) \o Ids(queue) = UpTo(sent)
BY DEF CommandsInOrder, Ids, UpTo

\* What is in hand is a command of the queue, or nothing.
LEMMA HandIs ==
  ASSUME Types
  PROVE  /\ Replay \in Queued \cup {None, Invalid} /\ InHand \in Seq(Nat)
         /\ Replay \in Queued => Replay # None /\ Replay.cmd # "Invalid" /\ Replay.id \in Nat
         /\ Replay \notin Queued => InHand = <<>>
<1>1. Replay \in Queued \cup {None, Invalid}
  BY DEF Types, MemOK, Replay
<1>2. Replay \in Queued => Replay # None /\ Replay.cmd # "Invalid" /\ Replay.id \in Nat
  BY NoneAssumption DEF Queued, Cmds
<1>3. Replay \notin Queued => InHand = <<>>
  BY <1>1 DEF InHand, Invalid
<1>4. InHand \in Seq(Nat)
  <2>1. CASE InHand = <<>>
    BY <2>1
  <2>2. CASE InHand # <<>>
    <3>1. InHand = <<Replay.id>> /\ Replay.id \in Nat
      BY <1>2, <1>3, <2>2 DEF InHand
    <3> QED BY <3>1
  <2> QED BY <2>1, <2>2
<1> QED BY <1>1, <1>2, <1>3, <1>4

\* Steps that do not touch the commands.
LEMMA Quiet ==
  ASSUME NotInHand, CommandsInOrder, UNCHANGED <<done, queue, sent, serving>>,
         Committed' = Committed, Replay' = Replay,
         at' = "boot" => at = "boot" \/ serving = None \/ InHand = <<>>
  PROVE  NotInHand' /\ CommandsInOrder'
<1>1. InHand' = InHand
  BY DEF InHand
<1>2. NotInHand'
  BY <1>1 DEF NotInHand
<1>3. CommandsInOrder'
  BY <1>1 DEF CommandsInOrder
<1> QED BY <1>2, <1>3

\* The transaction begins: what is in hand stays there.
LEMMA BeginHand ==
  ASSUME PInv, CommandsInOrder, Settled, Run, Head(todo) = SetCommitted(FALSE)
  PROVE  NotInHand' /\ CommandsInOrder'
<1>1. Types
  BY DEF PInv
<1>2. /\ Committed' = FALSE /\ Replay' = Replay /\ UNCHANGED <<done, at, rest>>
  BY <1>1, CommittedStep
<1>3. InHand' = InHand
  BY <1>2 DEF InHand, Settled
<1>4. NotInHand'
  BY <1>2 DEF NotInHand, Settled
<1>5. CommandsInOrder'
  BY <1>2, <1>3 DEF CommandsInOrder, rest
<1> QED BY <1>4, <1>5

\* It commits: the command that it served is done.
LEMMA CommitHand ==
  ASSUME CInv, ~ Committed, Run, Head(todo) = SetCommitted(TRUE)
  PROVE  NotInHand' /\ CommandsInOrder'
<1>1. Types /\ NotInHand /\ (done \o InHand) \o Ids(queue) = UpTo(sent)
  BY OrderIs DEF CInv, PInv
<1>2. /\ Committed' = TRUE /\ Replay' = Replay /\ serving' = serving
      /\ done' = IF serving = None /\ Replay # None /\ Replay.cmd # "Invalid"
                 THEN Append(done, Replay.id) ELSE done
      /\ UNCHANGED <<at, rest>>
  BY <1>1, CommittedStep
<1>3. UNCHANGED <<queue, sent>>
  BY <1>2 DEF rest
<1>4. CASE serving # None \/ Replay \notin Queued
  <2>1. InHand' = InHand /\ done' = done
    BY <1>1, <1>2, <1>4, HandIs DEF InHand, Invalid
  <2>2. NotInHand'
    BY <1>1, <1>2, <2>1 DEF NotInHand
  <2>3. CommandsInOrder'
    BY <1>3, <2>1 DEF CInv, CommandsInOrder
  <2> QED BY <2>2, <2>3
<1>5. CASE serving = None /\ Replay \in Queued
  <2>1. InHand = <<Replay.id>> /\ InHand' = <<>> /\ done' = Append(done, Replay.id) /\ Replay.id \in Nat
    BY <1>1, <1>2, <1>5, HandIs DEF InHand
  <2>2. done \in Seq(Nat) /\ Ids(queue) \in Seq(Nat)
    BY <1>1, IdsIs DEF Types
  <2> DEFINE q == Ids(queue)
             x == Replay.id
  <2>3. (Append(done, x) \o <<>>) \o q = (done \o <<x>>) \o q
    <3>1. x \in Nat /\ q \in Seq(Nat)
      BY <2>1, <2>2
    <3> HIDE DEF q, x
    <3> QED BY <2>2, <3>1, HandOver
  <2>4. (done' \o InHand') \o Ids(queue)' = UpTo(sent)'
    BY <1>1, <1>3, <2>1, <2>3 DEF Ids, UpTo
  <2>5. CommandsInOrder'
    BY <2>4 DEF CommandsInOrder, Ids, UpTo
  <2>6. NotInHand'
    BY <2>1 DEF NotInHand
  <2> QED BY <2>5, <2>6
<1> QED BY <1>4, <1>5

\* The recorded command is forgotten, which was not in hand any more.
LEMMA ForgetHand ==
  ASSUME NotInHand, CommandsInOrder, Committed, at = "boot" \/ serving = None,
         Committed' = Committed, Replay' = None, UNCHANGED <<done, queue, sent>>
  PROVE  NotInHand' /\ CommandsInOrder'
<1>1. InHand = <<>>
  BY DEF NotInHand, InHand
<1>2. InHand' = <<>>
  BY DEF InHand
<1> QED BY <1>1, <1>2 DEF NotInHand, CommandsInOrder

\* The command at the head of the queue is taken into the hand.
LEMMA ReceiveHand ==
  ASSUME CInv, Receiving, Receive
  PROVE  NotInHand' /\ CommandsInOrder'
<1> DEFINE msg == IF Replay # None THEN Replay ELSE IF queue # <<>> THEN Head(queue) ELSE Invalid
<1>1. Types /\ (done \o InHand) \o Ids(queue) = UpTo(sent)
  BY OrderIs DEF CInv, PInv
<1>2. queue \in Seq(Queued) /\ done \in Seq(Nat) /\ MemOK(pm)
  BY <1>1 DEF Types
<1>3. queue # <<>> => Head(queue) \in Queued
  BY <1>2
<1>4. msg \in Queued \cup {Invalid}
  BY <1>1, <1>3, HandIs
<1>5. /\ pm' = Apply(pm, SetReplay(msg))
      /\ queue' = IF Replay = None /\ queue # <<>> THEN Tail(queue) ELSE queue
      /\ at' \in {at, "exit"} /\ UNCHANGED <<sent, done, serving>>
  BY Zenon DEF Receive, history
<1> HIDE DEF msg
<1>6. Committed' = Committed /\ Replay' = msg
  BY <1>2, <1>4, <1>5, ApplyReplay DEF Committed, Replay
<1>7. NotInHand'
  BY <1>5 DEF NotInHand, Receiving
<1>8. ~ Committed /\ serving = None
  BY DEF Receiving
<1>9. CASE Replay # None
  <2>1. InHand' = InHand /\ queue' = queue
    BY <1>5, <1>6, <1>9 DEF InHand, msg
  <2>2. CommandsInOrder'
    BY <1>5, <2>1 DEF CInv, CommandsInOrder
  <2> QED BY <1>7, <2>2
<1>10. CASE Replay = None /\ queue = <<>>
  <2>1. msg = Invalid
    BY <1>10 DEF msg
  <2>2. InHand' = <<>> /\ InHand = <<>> /\ queue' = queue
    BY <1>5, <1>6, <1>10, <2>1 DEF InHand, Invalid
  <2>3. CommandsInOrder'
    BY <1>5, <2>2 DEF CInv, CommandsInOrder
  <2> QED BY <1>7, <2>3
<1>11. CASE Replay = None /\ queue # <<>>
  <2> DEFINE x == Head(queue).id
             t == Ids(Tail(queue))
  <2>1. msg = Head(queue) /\ msg \in Queued
    BY <1>3, <1>11 DEF msg
  <2>2. msg # None /\ msg.cmd # "Invalid" /\ x \in Nat
    BY <2>1, NoneAssumption DEF Queued, Cmds
  <2>3. InHand = <<>> /\ InHand' = <<x>> /\ queue' = Tail(queue)
    BY <1>5, <1>6, <1>8, <1>11, <2>1, <2>2 DEF InHand
  <2>4. Ids(queue) = <<x>> \o t
    BY <1>2, <1>11, IdsTail
  <2>5. t \in Seq(Nat)
    <3>1. Tail(queue) \in Seq(Queued)
      BY <1>2, <1>11, HeadTailProperties
    <3> QED BY <3>1, IdsIs
  <2>6. Ids(queue)' = t
    BY <2>3 DEF Ids
  <2> HIDE DEF x, t
  <2>7. (done \o <<>>) \o (<<x>> \o t) = (done \o <<x>>) \o t
    BY <1>2, <2>2, <2>5, HandOver
  <2>8. (done' \o InHand') \o Ids(queue)' = UpTo(sent)'
    BY <1>1, <1>5, <2>3, <2>4, <2>6, <2>7 DEF UpTo
  <2>9. CommandsInOrder'
    BY <2>8 DEF CommandsInOrder, Ids, UpTo
  <2> QED BY <1>7, <2>9
<1> QED BY <1>9, <1>10, <1>11

\* A new command comes last.
LEMMA SendHand ==
  ASSUME CInv, Send
  PROVE  NotInHand' /\ CommandsInOrder'
<1> DEFINE m == [cmd |-> call.cmd, timer |-> call.timer, opaque |-> call.opaque, id |-> sent + 1]
<1>1. Types /\ NotInHand /\ (done \o InHand) \o Ids(queue) = UpTo(sent)
  BY OrderIs DEF CInv, PInv
<1>2. /\ pm' = pm /\ sent' = sent + 1 /\ call # None /\ queue' = Append(queue, m)
      /\ UNCHANGED <<at, done, serving>>
  BY DEF Send
<1>3. call \in Given /\ sent \in Nat /\ queue \in Seq(Queued) /\ done \in Seq(Nat)
  BY <1>1, <1>2 DEF Types
<1>4. m \in Queued /\ m.id = sent + 1
  BY <1>3 DEF Given, Queued
<1> HIDE DEF m
<1>5. InHand' = InHand
  BY <1>2 DEF InHand, Committed, Replay
<1>6. NotInHand'
  BY <1>1, <1>2, <1>5 DEF NotInHand
<1>7. Ids(queue)' = Append(Ids(queue), sent + 1)
  <2>1. Ids(Append(queue, m)) = Append(Ids(queue), m.id)
    BY <1>3, <1>4, IdsAppend
  <2>2. Ids(queue)' = Ids(Append(queue, m))
    BY <1>2 DEF Ids
  <2> QED BY <1>4, <2>1, <2>2
<1> DEFINE d == done \o InHand
           q == Ids(queue)
<1>8. d \in Seq(Nat) /\ q \in Seq(Nat)
  BY <1>1, <1>3, HandIs, IdsIs, ConcatProperties
<1>9. d' = d
  BY <1>2, <1>5
<1>10. d \o q = UpTo(sent)
  BY <1>1
<1>11. (done' \o InHand') \o Ids(queue)' = d \o Append(q, sent + 1)
  BY <1>2, <1>5, <1>7
<1> HIDE DEF d, q
<1>12. d \o Append(q, sent + 1) = UpTo(sent + 1)
  BY <1>3, <1>8, <1>10, OneMore
<1>13. (done' \o InHand') \o Ids(queue)' = UpTo(sent)'
  BY <1>2, <1>11, <1>12 DEF UpTo
<1>14. CommandsInOrder'
  BY <1>13 DEF CommandsInOrder, Ids, UpTo
<1> QED BY <1>6, <1>14

\* Commands get older in their places.
LEMMA TickHand ==
  ASSUME CInv, Tick
  PROVE  NotInHand' /\ CommandsInOrder'
<1>1. Types /\ NotInHand /\ CommandsInOrder
  BY DEF CInv, PInv
<1>2. Committed' = Committed /\ Replay' = Aged(Replay)
  BY <1>1, TickMem DEF Types
<1>3. /\ queue' = [i \in DOMAIN queue |-> Aged(queue[i])]
      /\ UNCHANGED <<at, sent, done, serving>>
  BY DEF Tick
<1>4. InHand' = InHand
  <2>1. CASE Replay \in Queued
    <3>1. /\ Aged(Replay) \in Queued /\ Aged(Replay).cmd = Replay.cmd /\ Aged(Replay).id = Replay.id
      BY <2>1, AgedIs
    <3>2. Replay # None /\ Aged(Replay) # None
      BY <2>1, <3>1, NoneAssumption
    <3> QED BY <1>2, <1>3, <3>1, <3>2 DEF InHand
  <2>2. CASE Replay \in {None, Invalid}
    BY <1>2, <1>3, <2>2, AgedIs DEF InHand
  <2> QED BY <1>1, <2>1, <2>2, HandIs
<1>5. Ids(queue)' = Ids(queue)
  <2>1. DOMAIN queue = 1 .. Len(queue) /\ \A i \in DOMAIN queue : queue[i] \in Queued
    BY <1>1, LenProperties, ElementOfSeq DEF Types
  <2>2. DOMAIN queue' = DOMAIN queue /\ \A i \in DOMAIN queue : queue'[i].id = queue[i].id
    BY <1>3, <2>1, AgedIs
  <2> QED BY <2>2 DEF Ids
<1>6. NotInHand'
  BY <1>1, <1>3, <1>4 DEF NotInHand
<1>7. CommandsInOrder'
  BY <1>1, <1>3, <1>4, <1>5 DEF CommandsInOrder, Ids
<1> QED BY <1>6, <1>7

\* A store of the daemon's code keeps the order.
LEMMA StoreHand ==
  ASSUME CInv, StoreNext
  PROVE  NotInHand' /\ CommandsInOrder'
<1> DEFINE s == Head(todo)
<1>1. /\ todo # <<>> /\ s.obj # "call" /\ pm' = Apply(pm, s)
      /\ UNCHANGED <<at, queue, sent>>
  BY DEF StoreNext
<1>2. Types /\ Place /\ NotInHand /\ CommandsInOrder /\ Run /\ MemOK(pm)
  BY DEF CInv, PInv, Run, Types
<1>3. Handling(s)
  BY <1>1, <1>2, Heads
<1>4. CASE s.obj # "tx"
  <2>1. s # SetCommitted(FALSE) /\ s # SetCommitted(TRUE)
    BY <1>4 DEF SetCommitted, Store
  <2>2. serving' = serving /\ done' = done
    BY <2>1 DEF StoreNext
  <2>3. pm'.tx = pm.tx
    BY <1>1, <1>2, <1>4 DEF Apply, MemOK
  <2>4. Committed' = Committed /\ Replay' = Replay
    BY <2>3 DEF Committed, Replay
  <2> QED BY <1>1, <1>2, <2>2, <2>4, Quiet
<1>5. CASE s = SetCommitted(FALSE) /\ Settled
  BY <1>2, <1>5, BeginHand DEF CInv
<1>6. CASE s = SetCommitted(TRUE) /\ ~ Committed
  BY <1>2, <1>6, CommitHand
<1>7. CASE s = SetReplay(None) /\ Committed /\ (at = "boot" \/ serving = None)
  <2>1. Committed' = Committed /\ Replay' = None /\ UNCHANGED <<done, rest>>
    BY <1>2, <1>7, ReplayStep
  <2> QED BY <1>1, <1>2, <1>7, <2>1, ForgetHand
<1> QED BY <1>3, <1>4, <1>5, <1>6, <1>7 DEF Handling

\* jit_recovery keeps the order: a command it forgets is done.
LEMMA JitHand ==
  ASSUME CInv, JitRecovery
  PROVE  NotInHand' /\ CommandsInOrder'
<1>1. /\ at = "boot" /\ at' = "start"
      /\ pm' = IF Committed THEN Apply(pm, SetReplay(None))
               ELSE IF undo # None THEN [pm EXCEPT !.user = undo] ELSE pm
      /\ UNCHANGED <<queue, sent, done, serving>>
  BY DEF JitRecovery, history
<1>2. Types /\ NotInHand /\ CommandsInOrder /\ MemOK(pm)
  BY DEF CInv, PInv, Types
<1>3. CASE Committed
  <2>1. Committed' = Committed /\ Replay' = None
    BY <1>1, <1>2, <1>3, ApplyReplay DEF Committed, Replay
  <2> QED BY <1>1, <1>2, <1>3, <2>1, ForgetHand
<1>4. CASE ~ Committed
  <2>1. pm'.tx = pm.tx
    BY <1>1, <1>2, <1>4 DEF MemOK
  <2>2. Committed' = Committed /\ Replay' = Replay
    BY <2>1 DEF Committed, Replay
  <2> QED BY <1>1, <1>2, <2>2, Quiet
<1> QED BY <1>3, <1>4

\* Every step, with no failure in the window in which a command is lost.
LEMMA OrderStep ==
  ASSUME "command_in_hand" \in Avoid, CInv, [Next]_vars
  PROVE  CInv'
<1>1. PInv'
  BY PlaceStep DEF CInv
<1> SUFFICES NotInHand' /\ CommandsInOrder'
  BY <1>1 DEF CInv
<1>2. PInv /\ Place /\ NotInHand /\ CommandsInOrder
  BY DEF CInv, PInv
<1>3. ASSUME UNCHANGED <<pm, queue, sent, done, serving>>,
             at' = "boot" => at = "boot" \/ serving = None \/ InHand = <<>>
      PROVE  NotInHand' /\ CommandsInOrder'
  BY <1>2, <1>3, Quiet DEF Committed, Replay
<1>4. CASE UNCHANGED vars
  BY <1>3, <1>4 DEF vars, history
<1>5. CASE ProcessExpiredTimer \/ ProcessReceiveTimerCmd
  BY <1>3, <1>5 DEF ProcessExpiredTimer, ProcessReceiveTimerCmd, history
<1>6. CASE Look \/ QueueBlockUntilNotEmpty
  BY <1>3, <1>6 DEF Look, QueueBlockUntilNotEmpty, history
<1>7. CASE UseJournal \/ Reach
  BY <1>3, <1>7 DEF UseJournal, Reach, history
<1>8. CASE Receive
  <2>1. Reached("receive")
    BY <1>8 DEF Receive
  <2>2. Handling(Head(todo))
    BY <1>2, <2>1, Heads DEF Reached
  <2>3. Receiving
    BY <2>1, <2>2 DEF Handling, Reached
  <2> QED BY <1>8, <2>3, ReceiveHand
<1>9. CASE StoreNext
  BY <1>9, StoreHand
<1>10. CASE JitRecovery
  BY <1>10, JitHand
<1>11. CASE Command \/ CmdQueueBusy
  BY <1>3, <1>11 DEF Command, CmdQueueBusy, history
<1>12. CASE Send
  BY <1>12, SendHand
<1>13. CASE Tick
  BY <1>13, TickHand
<1>14. CASE PowerFailure
  <2>1. ~ InWindow("command_in_hand")
    BY <1>14 DEF PowerFailure
  <2>2. InHand = <<>> \/ serving = None
    BY <2>1 DEF InWindow
  <2> QED BY <1>3, <1>14, <2>2 DEF PowerFailure, history
<1> QED
  BY <1>4, <1>5, <1>6, <1>7, <1>8, <1>9, <1>10, <1>11, <1>12, <1>13, <1>14 DEF Next, Daemon

\* Every command that got into the queue is carried out once and in order, if no
\* power failure strikes while a command is in hand and the last transaction
\* begun is that of an expiry, the window in which recovery forgets it.
THEOREM CommandsKept == "command_in_hand" \in Avoid => (Spec => []CommandsInOrder)
<1> SUFFICES ASSUME "command_in_hand" \in Avoid PROVE Spec => []CommandsInOrder
  OBVIOUS
<1>1. Init => CInv
  <2> SUFFICES ASSUME Init PROVE CInv
    OBVIOUS
  <2>1. PInv
    BY PlaceInit
  <2>2. serving = None /\ Replay = None /\ done = <<>> /\ queue = <<>> /\ sent = 0
    BY DEF Init, Replay
  <2>3. InHand = <<>> /\ NotInHand
    BY <2>2 DEF InHand, NotInHand
  <2>4. CommandsInOrder
    BY <2>2, <2>3 DEF CommandsInOrder
  <2> QED BY <2>1, <2>3, <2>4 DEF CInv
<1>2. CInv /\ [Next]_vars => CInv'
  BY OrderStep
<1>3. CInv => CommandsInOrder
  BY DEF CInv
<1> QED BY <1>1, <1>2, <1>3, PTL DEF Spec

=============================================================================
