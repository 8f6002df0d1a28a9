----------------------- MODULE MCExecutorTransaction -----------------------
(* Small instances of ExecutorTransaction: with two operations one may be    *)
(* done while the other is not, and a repair may touch either or both.       *)
EXTENDS ExecutorTransaction
=============================================================================
