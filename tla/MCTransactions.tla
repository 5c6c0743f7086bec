--------------------------- MODULE MCTransactions ---------------------------
(* Small instances of Transactions. *)
EXTENDS Transactions, TLC

\* The contents of a page are only copied.
ValueSymmetry == Permutations(Value)
=============================================================================
