-------------------------- MODULE MCTransaction ---------------------------
(* Small programs for Transaction.                                         *)
EXTENDS Transaction

Tx(k, s) == [kind |-> k, size |-> s]

\* every kind, with sized and unit results in between;
\* with CacheSize = 3 the last one overflows the TxCache
MixedProgram ==
    << Tx("run", 1), Tx("once", 0), Tx("try", 1), Tx("fast", 0), Tx("run", 1),
       Tx("fast", 1) >>

=============================================================================
