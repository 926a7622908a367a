----------------------------- MODULE MCPrepStore -----------------------------
(* Instances of PrepStore for TLC; processes and transaction ids are symmetric. *)
EXTENDS PrepStoreInv, TLC

Symmetry == Permutations(Worker) \cup Permutations(TxnId)
=============================================================================
