-------------------------- MODULE SqlTransactions --------------------------
(****************************************************************************)
(* What BEGIN, COMMIT, ROLLBACK, SAVEPOINT, RELEASE, ROLLBACK TO and the    *)
(* statements between them promise of the contents of a database: a stack   *)
(* of earlier contents, one for each open savepoint, and a statement that   *)
(* can be undone alone.  Transactions.tla is the implementation.            *)
(****************************************************************************)
EXTENDS Integers, Sequences

CONSTANTS
    Contents,     \* what a database can contain
    NoContents    \* not one of them

VARIABLES
    committed,    \* the contents as of the last commit
    current,      \* the contents as this connection reads them
    tx,           \* "none", or the command that began the transaction:
                  \* "begin", "savepoint"
    saved,        \* the contents at each open savepoint, outermost first
    running,      \* a writing statement is under way
    undo          \* the contents it started from; NoContents if it has no
                  \* way back to them but to give up the transaction

avars == <<committed, current, tx, saved, running, undo>>

TypeOK ==
    /\ committed \in Contents
    /\ current \in Contents
    /\ tx \in {"none", "begin", "savepoint"}
    /\ saved \in Seq(Contents)
    /\ running \in BOOLEAN
    /\ undo \in Contents \cup {NoContents}

Init ==
    /\ committed \in Contents
    /\ current = committed
    /\ tx = "none"
    /\ saved = <<>>
    /\ running = FALSE
    /\ undo = NoContents

Begin ==
    /\ tx = "none" /\ ~running
    /\ tx' = "begin"
    /\ UNCHANGED <<running, current, saved, undo, committed>>

Savepoint ==
    /\ ~running
    /\ tx' = IF tx = "none" THEN "savepoint" ELSE tx
    /\ saved' = Append(saved, current)
    /\ UNCHANGED <<running, current, undo, committed>>

RollbackTo(k) ==
    /\ ~running
    /\ UNCHANGED <<tx, running>>
    /\ current' = saved[k]
    /\ saved' = SubSeq(saved, 1, k)
    /\ UNCHANGED <<undo, committed>>

Release(k) ==
    /\ ~running
    /\ k = 1 => tx = "begin"
    /\ UNCHANGED <<tx, running>>
    /\ saved' = SubSeq(saved, 1, k - 1)
    /\ UNCHANGED <<current, undo, committed>>

\* The transaction ends with these contents.
End(contents) ==
    /\ tx' = "none"
    /\ ~running'
    /\ saved' = <<>>
    /\ undo' = NoContents
    /\ current' = contents
    /\ committed' = contents

\* COMMIT, the release of the savepoint that began the transaction, or the end
\* of a statement outside one
Commit == (tx # "none" => ~running) /\ End(current)

\* ROLLBACK, or what follows from an error that leaves no other way out
Rollback == End(committed)

StartStatement ==
    /\ ~running
    /\ running'
    /\ UNCHANGED tx
    /\ undo' \in {current, NoContents}
    /\ UNCHANGED <<current, saved, committed>>

Change ==
    /\ running
    /\ UNCHANGED <<tx, running>>
    /\ current' \in Contents
    /\ UNCHANGED <<undo, saved, committed>>

\* The statement ends, with its changes or without any of them.
EndStatement ==
    /\ running
    /\ ~running'
    /\ tx # "none"
    /\ UNCHANGED tx
    /\ undo' = NoContents
    /\ current' \in {current, undo} \ {NoContents}
    /\ UNCHANGED <<saved, committed>>

Next ==
    \/ Begin \/ Savepoint \/ Commit \/ Rollback
    \/ \E k \in 1 .. Len(saved) : RollbackTo(k) \/ Release(k)
    \/ StartStatement \/ Change \/ EndStatement

Spec == Init /\ [][Next]_avars
=============================================================================
