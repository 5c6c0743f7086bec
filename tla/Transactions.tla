---------------------------- MODULE Transactions ----------------------------
(****************************************************************************)
(* Statements, transactions and savepoints of one connection: the counters  *)
(* of the database handle, and beneath them the pager's savepoints, the     *)
(* main journal, the sub-journal and the page cache.                        *)
(*                                                                          *)
(* A savepoint of SQL, and the statement journal of a statement that may    *)
(* fail half way, are both entries of Pager.aSavepoint.  The pager opens    *)
(* them late, when the next write statement begins, and what undoes them    *)
(* is spread over two journals: a page that the transaction had not         *)
(* journalled yet goes to the main journal, any other one that must be      *)
(* kept for a savepoint to the sub-journal.  Meanwhile the cache, of two    *)
(* pages in this build, spills to the database file.                        *)
(*                                                                          *)
(* The journals read back what was written to them (what the RAM journal    *)
(* of esp8266.cpp makes of that is the subject of RollbackJournal), and are *)
(* sequences of entries.  A record's place is its index, iOffset the number *)
(* of entries before it.  There is one write statement at a time; all that  *)
(* a read statement under way changes is how a write statement begins.      *)
(****************************************************************************)
EXTENDS Integers, Sequences, FiniteSets, SequencesExt

CONSTANTS
    MaxPages,        \* bound: pages the database can grow to
    InitPages,       \* pages it has at first
    PagesPerSector,  \* sectorSize / pageSize
    Value,           \* the contents of a page
    Absent,          \* not a Value: the cache has no such page
    StmtSpill,       \* records of the sub-journal that fit in nStmtSpill bytes
    MaxSavepoints,   \* bound: savepoints open at once
    DeviceFails      \* whether the card may fail to read or write

ASSUME PagesAssumption ==
    /\ MaxPages \in Nat /\ InitPages \in 1 .. MaxPages
    /\ PagesPerSector \in Nat \ {0}
ASSUME ValueAssumption == Value # {} /\ Absent \notin Value
ASSUME LimitsAssumption ==
    /\ StmtSpill \in Nat /\ MaxSavepoints \in Nat
    /\ DeviceFails \in BOOLEAN

VARIABLES
    autoCommit,    \* sqlite3.autoCommit
    nOpen,         \* the length of the list sqlite3.pSavepoint
    isTransactionSavepoint,
    stmt,          \* the write statement
    eState,        \* Pager.eState: reader, locked, cachemod or dbmod
    dbSize,
    dbOrigSize,
    file,          \* the database file
    cache,         \* the page cache, Absent where it has no such page
    dirty,         \* pages with PGHDR_DIRTY
    writeable,     \* pages with PGHDR_WRITEABLE
    needSync,      \* pages with PGHDR_NEED_SYNC
    jrn,           \* the main journal up to journalOff
    sub,           \* the sub-journal up to nSubRec
    aSavepoint,    \* Pager.aSavepoint
    past           \* history: what was committed, and the contents at each
                   \* open savepoint and at the start of the statement

handle == <<autoCommit, nOpen, isTransactionSavepoint>>
pages == <<file, cache, dirty, writeable, needSync>>
journals == <<jrn, sub, aSavepoint>>
vars == <<handle, stmt, eState, dbSize, dbOrigSize, pages, journals,
          past>>

Page == 1 .. MaxPages
Max2(a, b) == IF a > b THEN a ELSE b

\* An entry of a journal is a page record, or a header of the main journal.
Header == [pgno |-> 0, data |-> Absent]
Record(p, data) == [pgno |-> p, data |-> data]
IsHeader(entry) == entry.pgno = 0

\* sqlite3.nSavepoint: the savepoint that began the transaction is not counted.
nSavepoint == nOpen - (IF isTransactionSavepoint THEN 1 ELSE 0)

NoStatement == [running |-> FALSE, usesStmtJournal |-> FALSE,
                iStatement |-> 0, wrote |-> FALSE]

\* A page, and all of them, as the b-tree reads them
Read(p) == IF cache[p] = Absent THEN file[p] ELSE cache[p]
Current == [p \in 1 .. dbSize |-> Read(p)]
Contents == UNION {[1 .. n -> Value] : n \in Page}
NoContents == <<>>

pInJournal == {jrn[i].pgno : i \in 1 .. Len(jrn)} \ {0}

\* journalHdr: the place of the last header
journalHdr == LET headers == {i \in 1 .. Len(jrn) : IsHeader(jrn[i])}
              IN CHOOSE i \in headers : \A other \in headers : other <= i

\* The pages of one sector, each recorded once: in which order nothing depends
\* on, as no header comes between them.
Records(S) == LET p == SetToSeq(S)
              IN [i \in 1 .. Cardinality(S) |-> Record(p[i], Read(p[i]))]

TypeOK ==
    /\ autoCommit \in BOOLEAN
    /\ nOpen \in 0 .. MaxSavepoints
    /\ isTransactionSavepoint \in BOOLEAN
    /\ stmt \in [running : BOOLEAN, usesStmtJournal : BOOLEAN,
                 iStatement : 0 .. MaxSavepoints + 1, wrote : BOOLEAN]
    /\ eState \in {"reader", "locked", "cachemod", "dbmod"}
    /\ dbSize \in Page /\ dbOrigSize \in 1 .. dbSize
    /\ file \in [Page -> Value]
    /\ cache \in [Page -> Value \cup {Absent}]
    /\ writeable \subseteq dirty /\ dirty \subseteq Page
    /\ needSync \subseteq Page
    /\ jrn \in Seq([pgno : 0 .. MaxPages, data : Value \cup {Absent}])
    /\ sub \in Seq([pgno : Page, data : Value]) /\ Len(sub) <= StmtSpill
    /\ aSavepoint \in Seq([iOffset : Nat, iSubRec : 0 .. StmtSpill,
                           nOrig : Page, pInSavepoint : SUBSET Page])
    /\ Len(aSavepoint) <= MaxSavepoints + 1

Init ==
    /\ autoCommit = TRUE /\ nOpen = 0 /\ isTransactionSavepoint = FALSE
    /\ stmt = NoStatement
    /\ eState = "reader" /\ dbSize = InitPages /\ dbOrigSize = InitPages
    /\ file \in [Page -> Value]
    /\ cache = [p \in Page |-> Absent]
    /\ dirty = {} /\ writeable = {} /\ needSync = {}
    /\ jrn = <<>> /\ sub = <<>> /\ aSavepoint = <<>>
    /\ past = [committed |-> Current, saved |-> <<>>, undo |-> NoContents]

------------------------------------------------------------------------------
(* Playing the journals back.                                               *)

\* A record that pagerPlaybackSavepoint comes to: of the main journal from
\* entry first on, then of the sub-journal from record firstSub on.  The main
\* journal's segments follow one another, so that the end of the first one,
\* iHdrOffset, does not matter here.
MainPlayed(first, size) ==
    {i \in first .. Len(jrn) : ~IsHeader(jrn[i]) /\ jrn[i].pgno <= size}
SubPlayed(firstSub, size) == {i \in firstSub .. Len(sub) : sub[i].pgno <= size}

Least(S) == CHOOSE i \in S : \A other \in S : i <= other

\* pDone: of several records of a page the first one counts.  Each page played
\* back with its contents and the journal they are from
Played(first, firstSub, size) ==
    LET main(p) == {i \in MainPlayed(first, size) : jrn[i].pgno = p}
        more(p) == {i \in SubPlayed(firstSub, size) : sub[i].pgno = p}
    IN [p \in {q \in Page : main(q) # {} \/ more(q) # {}} |->
           IF main(p) # {}
           THEN [data |-> jrn[Least(main(p))].data, main |-> TRUE,
                 synced |-> Least(main(p)) < journalHdr]
           ELSE [data |-> sub[Least(more(p))].data, main |-> FALSE,
                 synced |-> cache[p] = Absent \/ p \notin needSync]]

\* Mutant: whether the record is synced is not looked at.
MutToFile(played, p) == p \in DOMAIN played /\ eState = "dbmod"
\* pager_playback_one_page: the database file takes the page if the record is
\* synced, and so does the cache if it has the page.  A page of the sub-journal
\* that is in neither is put into the cache.
ToFile(played, p) ==
    p \in DOMAIN played /\ played[p].synced /\ eState = "dbmod"

AddedToCache(played, p) ==
    /\ p \in DOMAIN played
    /\ cache[p] = Absent /\ ~played[p].main /\ ~ToFile(played, p)
FilePage(played, p) == IF ToFile(played, p) THEN played[p].data ELSE file[p]
\* Mutant: the cache keeps the page, as the file has it now.
MutCachePage(played, p) ==
    IF p \in DOMAIN played /\ (p \in dirty \/ AddedToCache(played, p))
    THEN played[p].data ELSE cache[p]
CachePage(played, p) ==
    IF p \in DOMAIN played /\ (cache[p] # Absent \/ AddedToCache(played, p))
    THEN played[p].data ELSE cache[p]

ReadAfter(played, p) == IF CachePage(played, p) = Absent
                        THEN FilePage(played, p) ELSE CachePage(played, p)
FileAfter(played) == [p \in Page |-> FilePage(played, p)]
CacheAfter(played) == [p \in Page |-> CachePage(played, p)]

\* What undoes the whole transaction, and what undoes it to a savepoint
WholeTransaction == Played(1, Len(sub) + 1, dbOrigSize)
BackTo(savepoint) ==
    Played(savepoint.iOffset + 1, savepoint.iSubRec + 1, savepoint.nOrig)

PlayBack(played, size) ==
    /\ dbSize' = size
    /\ file' = FileAfter(played)
    /\ cache' = CacheAfter(played)
    /\ dirty' = dirty \cup {p \in Page : AddedToCache(played, p)}
    /\ UNCHANGED <<writeable, needSync>>

------------------------------------------------------------------------------
(* The end of a transaction.                                                *)

\* pager_end_transaction, releaseAllSavepoints: the journals are finished with,
\* the cache is clean and without the pages the database does not have.
EndTransaction(newFile, newCache, size) ==
    /\ eState' = "reader"
    /\ dbSize' = size
    /\ file' = newFile
    /\ cache' = [p \in Page |-> IF p <= size THEN newCache[p] ELSE Absent]
    /\ dirty' = {} /\ writeable' = {} /\ needSync' = {}
    /\ jrn' = <<>> /\ sub' = <<>> /\ aSavepoint' = <<>>
    /\ UNCHANGED dbOrigSize

\* vdbeCommit, BtreeCommitPhaseOne and PhaseTwo
CommitBtree ==
    /\ past' = [committed |-> Current, saved |-> <<>>, undo |-> NoContents]
    /\ EndTransaction([p \in Page |-> IF p \in dirty /\ p <= dbSize
                                      THEN cache[p] ELSE file[p]],
                      cache, dbSize)

\* sqlite3RollbackAll, sqlite3PagerRollback
RollbackAll ==
    /\ past' = [past EXCEPT !.saved = <<>>, !.undo = NoContents]
    /\ IF eState \in {"cachemod", "dbmod"}
       THEN LET played == WholeTransaction
            IN EndTransaction(FileAfter(played), CacheAfter(played), dbOrigSize)
       ELSE EndTransaction(file, cache, dbSize)

\* sqlite3CloseSavepoints, and no transaction any more
CloseSavepoints ==
    autoCommit' = TRUE /\ nOpen' = 0 /\ isTransactionSavepoint' = FALSE

\* An error that is answered by giving up the whole transaction
ForcedRollback ==
    /\ RollbackAll
    /\ CloseSavepoints
    /\ stmt' = NoStatement

------------------------------------------------------------------------------
(* BEGIN, COMMIT, ROLLBACK and the savepoint commands.                      *)

Begin ==
    /\ ~stmt.running
    /\ autoCommit
    /\ autoCommit' = FALSE
    /\ UNCHANGED <<nOpen, isTransactionSavepoint, stmt, eState,
                   dbSize, dbOrigSize, pages, journals, past>>

Commit ==
    /\ ~stmt.running
    /\ ~autoCommit
    /\ CommitBtree
    /\ CloseSavepoints
    /\ UNCHANGED stmt

Rollback ==
    /\ ~stmt.running
    /\ ~autoCommit
    /\ ForcedRollback

\* OP_Savepoint, SAVEPOINT_BEGIN: only the handle knows of it so far.
Savepoint ==
    /\ ~stmt.running
    /\ nOpen < MaxSavepoints
    /\ nOpen' = nOpen + 1
    /\ autoCommit' = FALSE
    /\ isTransactionSavepoint' = (isTransactionSavepoint \/ autoCommit)
    /\ past' = [past EXCEPT !.saved = Append(@, Current)]
    /\ UNCHANGED <<stmt, eState, dbSize, dbOrigSize, pages, journals>>

\* Mutant: counts the savepoint that began the transaction.
MutIndex(k) == k - 1
\* The k-th savepoint, outermost first, as an index into aSavepoint; -1 is the
\* savepoint that began the transaction.
Index(k) == nSavepoint - (nOpen - k) - 1
\* sqlite3.isTransactionSavepoint is about the outermost one.
IsTransaction(k) == k = 1 /\ isTransactionSavepoint

\* sqlite3BtreeSavepoint does nothing outside a write transaction, and
\* sqlite3PagerSavepoint nothing of a savepoint it has not opened yet.
InPager(i) == eState # "reader" /\ i < Len(aSavepoint)

\* Mutant: the sub-journal goes with any savepoint.
MutPagerRelease(i) ==
    IF InPager(i) THEN aSavepoint' = SubSeq(aSavepoint, 1, i) /\ sub' = <<>>
                  ELSE UNCHANGED <<aSavepoint, sub>>
\* sqlite3PagerSavepoint, SAVEPOINT_RELEASE: with the outermost savepoint the
\* sub-journal goes.
PagerRelease(i) ==
    IF InPager(i)
    THEN /\ aSavepoint' = SubSeq(aSavepoint, 1, i)
         /\ sub' = IF i = 0 THEN <<>> ELSE sub
    ELSE UNCHANGED <<aSavepoint, sub>>

\* sqlite3PagerSavepoint, SAVEPOINT_ROLLBACK: of savepoint -1, the transaction
PagerRollback(i) ==
    IF InPager(i)
    THEN IF i < 0 THEN PlayBack(WholeTransaction, dbOrigSize)
                  ELSE PlayBack(BackTo(aSavepoint[i + 1]),
                                aSavepoint[i + 1].nOrig)
    ELSE UNCHANGED <<dbSize, pages>>

\* OP_Savepoint, SAVEPOINT_RELEASE: a name stands for the innermost savepoint
\* that has it, which may be any one.
Release(k) ==
    /\ ~stmt.running
    /\ IF IsTransaction(k)
       THEN CommitBtree /\ CloseSavepoints
       ELSE /\ PagerRelease(Index(k))
            /\ nOpen' = k - 1
            /\ past' = [past EXCEPT !.saved = SubSeq(@, 1, k - 1)]
            /\ UNCHANGED <<autoCommit, isTransactionSavepoint, eState, dbSize,
                           dbOrigSize, pages, jrn>>
    /\ UNCHANGED stmt

\* OP_Savepoint, SAVEPOINT_ROLLBACK: the savepoint itself stays open, and so do
\* the records behind it in both journals.
RollbackTo(k) ==
    /\ ~stmt.running
    /\ PagerRollback(Index(k))
    /\ aSavepoint' = IF InPager(Index(k))
                     THEN SubSeq(aSavepoint, 1, Index(k) + 1) ELSE aSavepoint
    /\ nOpen' = k
    /\ past' = [past EXCEPT !.saved = SubSeq(@, 1, k)]
    /\ UNCHANGED <<autoCommit, isTransactionSavepoint, stmt, eState,
                   dbOrigSize, jrn, sub>>

\* Any of these, or a statement, when the card fails: SQLITE_IOERR, one of the
\* errors sqlite3VdbeHalt rolls everything back for.
IoError ==
    /\ DeviceFails
    /\ ~autoCommit \/ stmt.running
    /\ ForcedRollback

------------------------------------------------------------------------------
(* A write statement.                                                       *)

\* Mutant: iOffset is always the end of the first header.
MutNewSavepoint == [iOffset |-> 1, iSubRec |-> Len(sub), nOrig |-> dbSize,
                    pInSavepoint |-> {}]
\* pagerOpenSavepoint: before the journal has a header, the first one's end.
NewSavepoint == [iOffset |-> Max2(Len(jrn), 1), iSubRec |-> Len(sub),
                 nOrig |-> dbSize, pInSavepoint |-> {}]

\* OP_Transaction: sqlite3BtreeBeginTrans begins the write transaction and
\* opens the savepoints the pager does not know yet (pagerOpenSavepoint);
\* sqlite3BtreeBeginStmt opens one more, to undo the statement with, which
\* outside a transaction takes a reader under way (nVdbeRead > 1).
StartStatement(usesStmtJournal, reading) ==
    LET iStatement == IF usesStmtJournal /\ (~autoCommit \/ reading)
                      THEN nSavepoint + 1 ELSE 0
        total == Max2(Max2(nSavepoint, iStatement), Len(aSavepoint))
    IN /\ ~stmt.running
       /\ stmt' = [running |-> TRUE, usesStmtJournal |-> usesStmtJournal,
                   iStatement |-> iStatement, wrote |-> FALSE]
       /\ IF eState = "reader"
          THEN eState' = "locked" /\ dbOrigSize' = dbSize
          ELSE UNCHANGED <<eState, dbOrigSize>>
       /\ aSavepoint' = [i \in 1 .. total |->
                            IF i <= Len(aSavepoint) THEN aSavepoint[i]
                                                    ELSE NewSavepoint]
       /\ past' = [past EXCEPT !.undo = IF iStatement = 0 THEN NoContents
                                                          ELSE Current]
       /\ UNCHANGED <<handle, dbSize, pages, jrn, sub>>

\* The pages that are journalled with page p: those of its sector that the
\* database has
SectorOf(p) == (p - 1) \div PagesPerSector
Sector(p) == {q \in 1 .. Max2(p, dbSize) : SectorOf(q) = SectorOf(p)}

\* Mutant: asks the outermost savepoint only.
MutRequiredBySavepoint(p, done) ==
    /\ aSavepoint # <<>>
    /\ p <= aSavepoint[1].nOrig
    /\ p \notin aSavepoint[1].pInSavepoint \cup done
\* subjRequiresPage: some open savepoint would need it
RequiredBySavepoint(p, done) ==
    \E i \in 1 .. Len(aSavepoint) :
        p <= aSavepoint[i].nOrig /\ p \notin aSavepoint[i].pInSavepoint \cup done

\* sqlite3PagerWrite, pagerWriteLargeSector, pager_write: what writing page p
\* does to the journals before its contents change.  A page already writeable
\* can only be wanted by a new savepoint.
Touched(p) == IF p \in writeable /\ p <= dbSize THEN {}
              ELSE {q \in Sector(p) : q = p \/ q \notin pInJournal}
MainRecorded(p) == {q \in Touched(p) : q <= dbOrigSize /\ q \notin pInJournal}
SubRecorded(p, main) ==
    {q \in Touched(p) \cup {p} : RequiredBySavepoint(q, main)}

\* pagerAddPageToRollbackJournal, and pager_write of a page past the end: these
\* need a sync, and one page of a sector that does makes them all need it.
NeedSyncAfter(p, main) ==
    LET touched == Touched(p)
        appended == {q \in touched : q > dbOrigSize /\ eState # "dbmod"}
        cached == {q \in Page : cache[q] # Absent} \cup touched
    IN IF touched # {} /\ (needSync \cup main \cup appended) \cap Sector(p) # {}
       THEN needSync \cup (Sector(p) \cap cached) ELSE needSync

\* Mutant: looks at the records there are, not at those to come.
MutRoomFor(n) == Len(sub) <= StmtSpill
\* memjrnlWrite: the sub-journal, with n more records, still fits in memory.
RoomFor(n) == Len(sub) + n <= StmtSpill

Write(p, data) ==
    /\ stmt.running
    /\ p <= dbSize + 1
    /\ LET touched == Touched(p)
           main == MainRecorded(p)
           more == SubRecorded(p, main)
       IN /\ RoomFor(Cardinality(more))
          /\ jrn' = (IF eState = "locked" THEN <<Header>> ELSE jrn)
                    \o Records(main)
          /\ sub' = sub \o Records(more)
          /\ aSavepoint' = [i \in DOMAIN aSavepoint |->
                 [aSavepoint[i] EXCEPT !.pInSavepoint = @ \cup
                     {q \in main \cup more : q <= aSavepoint[i].nOrig}]]
          /\ cache' = [q \in Page |-> IF q = p THEN data
                                      ELSE IF q \in touched THEN Read(q)
                                      ELSE cache[q]]
          /\ dirty' = dirty \cup touched
          /\ writeable' = writeable \cup touched
          /\ needSync' = NeedSyncAfter(p, main)
    /\ eState' = IF eState = "locked" THEN "cachemod" ELSE eState
    /\ dbSize' = Max2(dbSize, p)
    /\ stmt' = [stmt EXCEPT !.wrote = TRUE]
    /\ UNCHANGED <<handle, dbOrigSize, file, past>>

\* It does not, and memjrnlCreateFile asks for a file without a name, which
\* esp8266_Open refuses: SQLITE_IOERR.
SubJournalFull(p) ==
    /\ stmt.running
    /\ p <= dbSize + 1
    /\ ~RoomFor(Cardinality(SubRecorded(p, MainRecorded(p))))
    /\ ForcedRollback

\* vdbeCloseStatement
ReleaseStatement ==
    IF stmt.iStatement = 0 THEN UNCHANGED <<sub, aSavepoint>>
                           ELSE PagerRelease(stmt.iStatement - 1)
RollbackStatement ==
    IF stmt.iStatement = 0 THEN UNCHANGED <<dbSize, pages>>
                           ELSE PagerRollback(stmt.iStatement - 1)

\* sqlite3VdbeHalt, outside a transaction: the statement's own one ends.
HaltAutoCommit(keep) ==
    /\ autoCommit
    /\ IF keep THEN CommitBtree ELSE RollbackAll
    /\ UNCHANGED handle

\* sqlite3VdbeHalt, inside one
HaltInTransaction(keep) ==
    /\ ~autoCommit
    /\ ReleaseStatement
    /\ IF keep THEN UNCHANGED <<dbSize, pages>> ELSE RollbackStatement
    /\ past' = [past EXCEPT !.undo = NoContents]
    /\ UNCHANGED <<handle, eState, dbOrigSize, jrn>>

Halt(keep) ==
    /\ stmt.running
    /\ HaltAutoCommit(keep) \/ HaltInTransaction(keep)
    /\ stmt' = NoStatement

\* It is done, or stops at a row (OE_Fail) with what it has done.
Succeed == Halt(TRUE)

\* It fails: OE_Abort (of a statement without a statement journal only before
\* it has written anything) or, with a statement journal, SQLITE_NOMEM.
Abort == (stmt.usesStmtJournal \/ ~stmt.wrote) /\ Halt(FALSE)

\* It fails with OE_Rollback or, without a statement journal, with
\* SQLITE_NOMEM.
AbortTransaction == stmt.running /\ ForcedRollback

------------------------------------------------------------------------------
(* The page cache.                                                          *)

Fetch(p) ==
    /\ p <= dbSize
    /\ cache[p] = Absent
    /\ cache' = [cache EXCEPT ![p] = file[p]]
    /\ UNCHANGED <<handle, stmt, eState, dbSize, dbOrigSize, file,
                   dirty, writeable, needSync, journals, past>>

Evict(p) ==
    /\ cache[p] # Absent
    /\ p \notin dirty
    /\ cache' = [cache EXCEPT ![p] = Absent]
    /\ needSync' = needSync \ {p}
    /\ UNCHANGED <<handle, stmt, eState, dbSize, dbOrigSize, file,
                   dirty, writeable, journals, past>>

\* pagerStress: the page goes to the database file, the journal having been
\* synced (syncJournal, which begins its next segment) if it must.
Spill(p) ==
    /\ p \in dirty
    /\ IF p \in needSync \/ eState = "cachemod"
       THEN /\ jrn' = Append(jrn, Header)
            /\ eState' = "dbmod"
            /\ needSync' = {}
       ELSE UNCHANGED <<jrn, eState, needSync>>
    /\ file' = IF p <= dbSize THEN [file EXCEPT ![p] = cache[p]] ELSE file
    /\ dirty' = dirty \ {p}
    /\ writeable' = writeable \ {p}
    /\ UNCHANGED <<handle, stmt, dbSize, dbOrigSize, cache, sub,
                   aSavepoint, past>>

Next ==
    \/ Begin \/ Commit \/ Rollback \/ Savepoint
    \/ \E k \in 1 .. nOpen : Release(k) \/ RollbackTo(k)
    \/ \E usesStmtJournal, reading \in BOOLEAN :
           StartStatement(usesStmtJournal, reading)
    \/ \E p \in Page, data \in Value : Write(p, data)
    \/ \E p \in Page : SubJournalFull(p)
    \/ Succeed \/ Abort \/ AbortTransaction \/ IoError
    \/ \E p \in Page : Fetch(p) \/ Evict(p) \/ Spill(p)

Spec == Init /\ [][Next]_vars

------------------------------------------------------------------------------
(* What it promises.                                                        *)

\* The contents that playing the journals back would restore
After(played, size) == [p \in 1 .. size |-> ReadAfter(played, p)]

\* Every open savepoint can be gone back to at any moment, whatever has been
\* written, spilled, evicted or rolled back since: what the two journals make
\* of the cache and the file is what the savepoint stands for.  A savepoint the
\* pager does not know yet (sqlite3BtreeBeginTrans) has nothing to undo.
SavepointsKept ==
    \A k \in 1 .. nOpen : ~IsTransaction(k) =>
        past.saved[k] = IF InPager(Index(k))
                        THEN LET savepoint == aSavepoint[Index(k) + 1]
                             IN After(BackTo(savepoint), savepoint.nOrig)
                        ELSE Current

\* So can a statement that has a statement journal, even one that began while
\* the connection was in autocommit mode.
StatementKept ==
    stmt.iStatement # 0 =>
        LET savepoint == aSavepoint[stmt.iStatement]
        IN past.undo = After(BackTo(savepoint), savepoint.nOrig)

\* And so can the transaction; what the last commit left comes back without the
\* cache too, from the records that were synced (pager_playback of a hot
\* journal), so that no spill and no write of a savepoint rollback reaches the
\* file before its page is safe in the main journal.
TransactionKept ==
    eState # "reader" =>
        /\ past.committed = After(WholeTransaction, dbOrigSize)
        /\ past.committed = [p \in 1 .. dbOrigSize |->
               LET synced == {i \in MainPlayed(1, dbOrigSize) :
                                 jrn[i].pgno = p /\ i < journalHdr}
               IN IF synced = {} THEN file[p] ELSE jrn[Least(synced)].data]

\* The sub-journal can always take the records of one more write: one that
\* outgrows memory goes to a file.
SubJournalGrows ==
    stmt.running => \A p \in Page : p <= dbSize + 1 =>
        RoomFor(Cardinality(SubRecorded(p, MainRecorded(p))))

\* A clean page of the cache can be dropped: the file has it too.
CleanIsStored ==
    \A p \in 1 .. dbSize \ dirty : cache[p] \in {Absent, file[p]}

\* BEGIN, COMMIT, ROLLBACK, the savepoint commands and the statements do to the
\* contents what they say.
Promise == INSTANCE SqlTransactions WITH
    committed <- past.committed,
    current <- Current,
    tx <- IF autoCommit THEN "none"
          ELSE IF isTransactionSavepoint THEN "savepoint" ELSE "begin",
    saved <- past.saved,
    running <- stmt.running,
    undo <- past.undo
ImplementsSql == Promise!Spec
=============================================================================
