----------------------------- MODULE AtomicTx ------------------------------
(***************************************************************************)
(* What IntOS promises of transactions: the persistent objects change and  *)
(* the result is recorded in a single step, and no step of a power failure *)
(* or of recovery can be seen.  Transaction implements this specification. *)
(***************************************************************************)
EXTENDS Naturals, Sequences

CONSTANTS Cell, Value, InitVal, Unit, Program

VARIABLES
    store,      \* the objects, as any later run of the program will find them
    results     \* the recorded results: [pos, val], in commit order

avars == <<store, results>>

\* transactions whose result is recorded and that have not committed yet
Pending ==
    {p \in 1 .. Len(Program) : /\ Program[p].kind # "once"
                               /\ \A k \in 1 .. Len(results) : results[k].pos # p}

Init ==
    /\ store = [c \in Cell |-> InitVal]
    /\ results = <<>>

\* a transaction takes effect, and its result becomes the one of all replays
CommitRecorded ==
    /\ store' \in [Cell -> Value]
    /\ \E p \in Pending :
          /\ \A q \in Pending : p <= q
          /\ \E r \in IF Program[p].size > 0 THEN Value ELSE {Unit} :
                results' = Append(results, [pos |-> p, val |-> r])

\* a transaction takes effect that every run of the program executes again:
\* run_no_replay, or try_run that returned TxRetry
CommitUnrecorded ==
    /\ \E p \in 1 .. Len(Program) : Program[p].kind \in {"once", "try"}
    /\ store' \in [Cell -> Value]
    /\ UNCHANGED results

Next == CommitRecorded \/ CommitUnrecorded

Spec == Init /\ [][Next]_avars
=============================================================================
