-------------------------- MODULE MCRollbackJournal --------------------------
(****************************************************************************)
(* Values for the constants of RollbackJournal.                             *)
(****************************************************************************)
EXTENDS RollbackJournal

CONSTANT MaxNonce   \* bound: values of cksumInit
Nonces == 1 .. MaxNonce

\* Behind a step that breaks the journal no property says anything, and a reset
\* only leads to where a connection starts.  Contents other than 0 differ by
\* nothing but being different: it does not matter which a page starts with.
Explored ==
    /\ intact
    /\ txs = 0 => \A p \in Page : \A k \in Part : committed[p][k] = 1
==============================================================================
