---------------------------- MODULE BoundedFifo ----------------------------
(***************************************************************************)
(* What a queue promises its callers: a call takes effect at one instant   *)
(* and once, whatever fails in between.  An item carries its sender and    *)
(* the number of the sender's call.                                        *)
(***************************************************************************)
EXTENDS Naturals, Sequences

CONSTANTS Task, Length

VARIABLES
    q,      \* the items, the next one to be received first
    out     \* for each task the results of its calls

fifoVars == <<q, out>>

Item(t) == <<t, Len(out[t]) + 1>>

Return(t, r) == out' = [out EXCEPT ![t] = Append(@, r)]

SendBack(t)  == Len(q) < Length /\ q' = Append(q, Item(t)) /\ Return(t, "sent")
SendFront(t) == Len(q) < Length /\ q' = <<Item(t)>> \o q /\ Return(t, "sent")
Receive(t)   == q # <<>> /\ q' = Tail(q) /\ Return(t, Head(q))
Refuse(t)    == Return(t, "refused") /\ UNCHANGED q

FifoInit == q = <<>> /\ out = [t \in Task |-> <<>>]

FifoNext == \E t \in Task : SendBack(t) \/ SendFront(t) \/ Receive(t) \/ Refuse(t)

FifoSpec == FifoInit /\ [][FifoNext]_fifoVars

=============================================================================
