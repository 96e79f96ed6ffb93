----------------------------- MODULE MCMvccRecord -----------------------------
(* Instances of MvccRecord for TLC.                                        *)
EXTENDS MvccRecord, TLC

CONSTANT First          \* the transaction that main joins before the others

(* Every sequence of calls of length MaxOps, for every transaction.        *)
AllPrograms == [Txns -> [1 .. MaxOps -> Calls]]

(* The calls that retry with no bound.                                     *)
RetryingPrograms ==
  [Txns -> [1 .. MaxOps -> {c \in Calls : c.kind \in {"update", "delete"}}]]

(* Main joins the threads in whatever order they end.                      *)
AnyOrder == {}

(* A test that joins the threads in the order it has started them.         *)
StartOrder == {<<Loader, t>> : t \in Txns} \cup {<<First, t>> : t \in Txns \ {First}}

Symmetry == Permutations(Txns) \cup Permutations(Records)
===============================================================================
