------------------------------- MODULE PList -------------------------------
(***************************************************************************)
(* PList<T> of list.rs, the intrusive doubly linked list under the ready,  *)
(* delay, wait and timer lists, in the form of the default build           *)
(* (opt_list): no undo journal, but a micro-operation log.                 *)
(*                                                                         *)
(* An operation is the sequence of the stores it makes, in program order,  *)
(* computed from the memory it starts in.  Nothing interferes with a list  *)
(* operation but a power failure (it runs inside a critical section), so   *)
(* the stores are known when it starts; a failure keeps a prefix of them.  *)
(*                                                                         *)
(* Memory is a record of tables: m.node[n] has prev, next and list (the    *)
(* container), m.list[l] has len, cursor and head, m.log["log"] holds the  *)
(* operation log.  Every field is one word, stored atomically.             *)
(***************************************************************************)
EXTENDS Naturals, Sequences, FiniteSets

CONSTANT None       \* the null link

(***************************************************************************)
(* Stores.                                                                 *)
(***************************************************************************)
Store(o, a, f, x) == [obj |-> o, at |-> a, field |-> f, val |-> x]

\* memory after one store
Apply(m, s) == [m EXCEPT ![s.obj][s.at][s.field] = s.val]

SetPrev(n, x)      == Store("node", n, "prev", x)
SetNext(n, x)      == Store("node", n, "next", x)
SetContainer(n, x) == Store("node", n, "list", x)
SetLen(l, x)       == Store("list", l, "len", x)
SetCursor(l, x)    == Store("list", l, "cursor", x)
SetHead(l, x)      == Store("list", l, "head", x)

\* set_micro_op_old_len: opcode and length share one word
StartOpLog(op, len) == Store("log", "log", "micro", [op |-> op, len |-> len])
MicroOp(m) == m.log["log"].micro.op
OldLen(m)  == m.log["log"].micro.len

When(c, s) == IF c THEN s ELSE <<>>

\* the nodes from x along next, up to the end or until x comes round again
Path(m, x) ==
    LET N == Cardinality(DOMAIN m.node)
        next == [n \in DOMAIN m.node \cup {None} |-> IF n = None THEN None ELSE m.node[n].next]
        at[k \in 1 .. N] == IF k = 1 THEN x ELSE next[at[k - 1]]
        last == {k \in 1 .. N : next[at[k]] \in {None, x}} \cup {N}
        len  == IF x = None THEN 0 ELSE CHOOSE k \in last : \A j \in last : k <= j
    IN  [k \in 1 .. len |-> at[k]]

Chain(m, l) == Path(m, m.list[l].head)

(***************************************************************************)
(* The operations and, for each, the function that completes it after a    *)
(* power failure from the length that the log recorded.                    *)
(***************************************************************************)
OptimizedInsertBeforeCursor(m, l, n) ==
    LET c == m.list[l].cursor
        p == m.node[c].prev
    IN  <<StartOpLog("InsertBeforeCursor", m.list[l].len)>>
        \o When(m.node[n].list = None,
                <<SetContainer(n, l)>>
                \o (IF c = None
                    THEN <<SetPrev(n, n), SetNext(n, n), SetCursor(l, n), SetHead(l, n)>>
                    ELSE <<SetPrev(n, p), SetNext(n, c), SetNext(p, n), SetPrev(c, n)>>
                         \o When(c = m.list[l].head, <<SetHead(l, n)>>))
                \o <<SetLen(l, m.list[l].len + 1)>>)

\* (mutant) tells an empty list by its cursor instead of the logged length
InsertBeforeCursorByCursor(m, l, n) ==
    LET c == m.list[l].cursor
        p == m.node[c].prev
    IN  (IF c = None
         THEN <<SetPrev(n, n), SetNext(n, n), SetCursor(l, n), SetHead(l, n)>>
         ELSE When(p # n, <<SetPrev(n, p), SetNext(n, c), SetNext(p, n), SetPrev(c, n)>>)
              \o When(c = m.list[l].head, <<SetHead(l, n)>>))
        \o <<SetLen(l, OldLen(m) + 1)>>

RecoverFailedInsertBeforeCursor(m, l, n) ==
    LET c == m.list[l].cursor
        p == m.node[c].prev
    IN  (IF OldLen(m) = 0
         THEN <<SetPrev(n, n), SetNext(n, n), SetCursor(l, n), SetHead(l, n)>>
         ELSE When(p # n, <<SetPrev(n, p), SetNext(n, c), SetNext(p, n), SetPrev(c, n)>>)
              \o When(c = m.list[l].head, <<SetHead(l, n)>>))
        \o <<SetLen(l, OldLen(m) + 1)>>

\* (mutant) the head is not moved on
UnlinkKeepsHead(m, l, n) ==
    LET p == m.node[n].prev
        x == m.node[n].next
    IN  When(p # None, <<SetNext(p, x)>>)
        \o When(x # None, <<SetPrev(x, p)>>)
        \o When(m.list[l].cursor = n, <<SetCursor(l, x)>>)

\* take n out of the links: the part shared by removal and its recovery
Unlink(m, l, n) ==
    LET p == m.node[n].prev
        x == m.node[n].next
    IN  When(p # None, <<SetNext(p, x)>>)
        \o When(x # None, <<SetPrev(x, p)>>)
        \o When(m.list[l].cursor = n, <<SetCursor(l, x)>>)
        \o When(m.list[l].head = n, <<SetHead(l, x)>>)

OptimizedRemove(m, l, n) ==
    <<StartOpLog("Remove", m.list[l].len)>>
    \o When(m.node[n].list # None,
            (IF m.list[l].len = 1
             THEN <<SetCursor(l, None), SetHead(l, None)>>
             ELSE Unlink(m, l, n))
            \o <<SetLen(l, m.list[l].len - 1), SetContainer(n, None)>>)

RecoverFailedRemove(m, l, n) ==
    Unlink(m, l, n) \o <<SetLen(l, OldLen(m) - 1), SetContainer(n, None)>>

OptimizedPopFront(m, l) ==
    LET h == m.list[l].head
        x == m.node[h].next
    IN  When(h # None,
             <<StartOpLog("PopFront", m.list[l].len), SetHead(l, x)>>
             \o When(x # None, <<SetPrev(x, None)>>)
             \o When(m.list[l].cursor = h, <<SetCursor(l, x)>>)
             \o <<SetLen(l, m.list[l].len - 1), SetContainer(h, None)>>)

RecoverFailedPopFront(m, l, h) ==
    LET x == m.list[l].head
    IN  IF x = h THEN OptimizedPopFront(m, l)
        ELSE When(x # None, <<SetPrev(x, None)>>)
             \o When(m.list[l].cursor = h, <<SetCursor(l, x)>>)
             \o <<SetLen(l, OldLen(m) - 1), SetContainer(h, None)>>

\* link n in front of the head
LinkFront(m, l, n) ==
    LET h == m.list[l].head
    IN  <<SetPrev(n, None), SetNext(n, None)>>
        \o When(h # None, <<SetNext(n, h), SetPrev(h, n)>>)
        \o <<SetHead(l, n)>>

OptimizedInsertFront(m, l, n) ==
    <<StartOpLog("InsertFront", m.list[l].len)>>
    \o LinkFront(m, l, n)
    \o <<SetLen(l, m.list[l].len + 1), SetContainer(n, l)>>

RecoverFailedInsertFront(m, l, n) ==
    When(m.list[l].head # n, LinkFront(m, l, n))
    \o <<SetLen(l, OldLen(m) + 1), SetContainer(n, l)>>

\* smaller: the nodes whose value sorts before that of n (Ord of T)
InsertSortedImpl(m, l, n, smaller) ==
    LET s    == Chain(m, l)
        stop == {k \in DOMAIN s : s[k] \notin smaller}
        x    == s[CHOOSE k \in stop : \A j \in stop : k <= j]
        last == s[Len(s)]
        p    == m.node[x].prev
    IN  <<SetContainer(n, l)>>
        \o (IF s = <<>> THEN <<SetHead(l, n)>>
            ELSE IF stop = {} THEN <<SetPrev(n, last), SetNext(n, None), SetNext(last, n)>>
            ELSE <<SetNext(n, x), SetPrev(n, p), SetPrev(x, n),
                   IF p # None THEN SetNext(p, n) ELSE SetHead(l, n)>>)
        \o <<SetLen(l, m.list[l].len + 1)>>

OptimizedInsertSorted(m, l, n, op, smaller) ==
    <<StartOpLog(op, m.list[l].len), SetNext(n, None), SetPrev(n, None)>>
    \o InsertSortedImpl(m, l, n, smaller)

RecoverFailedInsertSorted(m, l, n, smaller) ==
    LET x    == m.node[n].next
        p    == IF m.node[x].prev = n THEN m.node[n].prev ELSE m.node[x].prev
        redo == Apply(m, SetLen(l, OldLen(m)))
        done == <<SetContainer(n, l), SetLen(l, OldLen(m) + 1)>>
    IN  IF m.node[n].list # l
        THEN <<SetNext(n, None), SetPrev(n, None)>> \o InsertSortedImpl(m, l, n, smaller)
        ELSE IF x # None
        THEN When(m.node[x].prev # n, <<SetPrev(n, p), SetPrev(x, n)>>)
             \o <<IF p # None THEN SetNext(p, n) ELSE SetHead(l, n)>> \o done
        ELSE IF m.node[n].prev # None
        THEN <<SetNext(n, None), SetNext(m.node[n].prev, n)>> \o done
        ELSE IF m.list[l].head = n
        THEN <<SetLen(l, OldLen(m) + 1)>>
        ELSE <<SetLen(l, OldLen(m))>> \o InsertSortedImpl(redo, l, n, smaller)

=============================================================================
