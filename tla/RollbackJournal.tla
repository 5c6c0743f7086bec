-------------------------- MODULE RollbackJournal --------------------------
(****************************************************************************)
(* A write transaction of SQLite's pager, as this library configures it,    *)
(* over the RAM journal of esp8266.cpp: what a transaction writes to the    *)
(* journal and to the database file, in which order, and what a rollback    *)
(* makes of it.                                                             *)
(*                                                                          *)
(* config_ext.h leaves the pager in exclusive locking mode with a page      *)
(* cache of one KiB, so that                                                *)
(*   - the journal stays open from one transaction to the next, and a       *)
(*     finished transaction leaves its records behind the new ones;         *)
(*   - pages are spilled to the database long before the commit, and a      *)
(*     journal has several headers;                                         *)
(*   - an error inside a transaction is repaired by playing the journal,    *)
(*     still open, back as a hot one.                                       *)
(*                                                                          *)
(* A page is a function from parts to values, a part being a block of the   *)
(* journal file: Filecache, chunk by chunk, drops a part of zero bytes and  *)
(* leaves the buffer alone where it reads a part it never stored.  Journal  *)
(* offsets are in units of which a header takes Sector and a record Record. *)
(* The database does not grow: dbSize and dbOrigSize are the number of      *)
(* pages.  The change counter of page 1 is not part of its contents, but    *)
(* journalling and dirtying page 1 for it is.                               *)
(*                                                                          *)
(* What SQLite counts on and this port does not always give, a journal that *)
(* holds what was written to it and is there as long as it is needed, is a  *)
(* variable of the model, intact: the steps that break it are those that    *)
(* make it false, and the properties say what is true until then.           *)
(****************************************************************************)
EXTENDS Integers, FiniteSets

CONSTANTS
    NPages,          \* dbSize
    PagesPerSector,  \* sectorSize / pageSize
    Sector,          \* JOURNAL_HDR_SZ
    Record,          \* JOURNAL_PG_SZ
    NParts,          \* parts of a page
    Value,           \* the contents of a part; 0 is all zero bytes
    Sampled,         \* the parts pager_cksum takes a byte of
    Nonce,           \* the values of cksumInit, 0 in a zeroed header
    DroppedZeros,    \* the short zero writes behind which the build has more
                     \* zero bytes, so that filecache_push drops them
    MallocFails,     \* whether sqlite3_malloc may fail inside a journal write
    WriteFails,      \* where a write to the database file may fail
    MaxTx            \* bound: transactions begun with one journal

ASSUME NPagesAssumption == NPages \in Nat \ {0}
ASSUME PagesPerSectorAssumption == PagesPerSector \in Nat \ {0}
\* A record of 520 bytes, a sector of 4096.
ASSUME SectorAssumption ==
    /\ Sector \in Nat \ {0}
    /\ Record \in Nat \ {0}
    /\ Record <= Sector
ASSUME PartAssumption == NParts \in Nat \ {0} /\ Sampled \subseteq 1 .. NParts
ASSUME ValueAssumption == Value \subseteq Nat /\ Value # {}
ASSUME DroppedZerosAssumption == DroppedZeros \subseteq {"zeroHdr", "zerobyte"}
ASSUME FailuresAssumption ==
    /\ MallocFails \in BOOLEAN
    /\ WriteFails \subseteq {"spill", "commit", "playback"}
ASSUME MaxTxAssumption == MaxTx \in Nat

VARIABLES
    eState,      \* Pager.eState
    phase,       \* "run", or the loop that is under way: "commit", "playback"
    committed,   \* history: the database as the last transaction left it
    disk,        \* the database file
    mem,         \* the pages as the pager's client reads them
    dirty,       \* pages with PGHDR_DIRTY (and PGHDR_WRITEABLE)
    needSync,    \* pages with PGHDR_NEED_SYNC
    inJournal,   \* Pager.pInJournal
    changeCountDone,
    jopen,       \* isOpen(jfd)
    jrn,         \* the journal file and the pager's place in it
    todo,        \* pager_write_pagelist: pages still to be written
    hot,         \* pager_playback: isHot
    left,        \* pager_playback: records left in this segment
    tmp,         \* Pager.pTmpSpace
    txs,         \* transactions begun with this journal
    intact       \* history: whether the journal was what SQLite takes it for

vars == <<eState, phase, committed, disk, mem, dirty, needSync, inJournal,
          changeCountDone, jopen, jrn, todo, hot, left, tmp, txs, intact>>

Page == 1 .. NPages
Part == 1 .. NParts
Content == [Part -> Value]
\* Zeros get into the file where a record has no block and pTmpSpace is new.
Database == [Page -> [Part -> Value \cup {0}]]
Hole == -1                      \* a part no block was ever stored for
Sample(data) == [k \in Sampled |-> data[k]]

\* Mutant: rounded down.
MutRoundUp(off) == (off \div Sector) * Sector
\* journalHdrOffset
RoundUp(off) == ((off + Sector - 1) \div Sector) * Sector

\* Each page of a transaction is journalled once, at worst in a segment of its
\* own; then one more header.
MaxPos == NPages * (Sector + RoundUp(Record)) + Sector
Pos == 0 .. MaxPos - 1

\* There is always a value of cksumInit that no unit of the journal has.
ASSUME NonceAssumption ==
    /\ Nonce \subseteq Nat \ {0}
    /\ IsFiniteSet(Nonce)
    /\ Cardinality(Nonce) > MaxPos

NoData == [k \in Part |-> Hole]
ZeroData == [k \in Part |-> 0]
\* A unit of the journal: part of a header (num is nRec), a record (num is the
\* page number, init and sample make its checksum), or nothing.
EmptyCell == [kind |-> "none", magic |-> FALSE, num |-> 0, init |-> 0,
              sample |-> Sample(NoData), data |-> NoData]
\* file, its size, journalOff, journalHdr, nRec, cksumInit
NewJournal == [file |-> [i \in Pos |-> EmptyCell], size |-> 0,
               off |-> 0, hdr |-> 0, nRec |-> 0, init |-> 0]

LargerOf(a, b) == IF a > b THEN a ELSE b

------------------------------------------------------------------------------
(* Writing the journal: functions from a journal to a journal.              *)

\* What a write to the units from first to last leaves of a cell that was not
\* written itself: nothing, if it reaches into them.
Wiped(file, i, first, last) ==
    LET end == IF file[i].kind = "rec" THEN i + Record - 1 ELSE i
    IN IF i <= last /\ end >= first THEN EmptyCell ELSE file[i]

\* cksumInit is drawn at random: a value that is in no record and no header
\* of the file (one that is comes up once in 2^32).
FreshNonce(file) ==
    CHOOSE n \in Nonce : \A i \in Pos : file[i].init # n

\* writeJournalHdr: the first page of the header, magic and nRec zeroed, is
\* repeated through the sector.
WriteHeader(j) ==
    LET start == RoundUp(j.off)
        init == FreshNonce(j.file)
        header == [EmptyCell EXCEPT !.kind = "hdr", !.init = init]
        last == start + Sector - 1
    IN [j EXCEPT !.file = [i \in Pos |-> IF i \in start .. last
                                         THEN header
                                         ELSE Wiped(@, i, start, last)],
                 !.size = LargerOf(@, start + Sector),
                 !.off = start + Sector,
                 !.hdr = start,
                 !.init = init]

\* What is stored of a page: nothing of a part of zeros, nothing from part
\* `stop` on, where sqlite3_malloc failed.  What stays is what a record at the
\* same offset left there (a record at another one is taken to leave nothing).
Stored(old, data, stop) ==
    [k \in Part |-> IF data[k] # 0 /\ k < stop THEN data[k] ELSE old[k]]

\* sqlite3_malloc can only fail where a block is needed: a part that is not
\* zero and has no block yet.
MayStop(old, data, stop) ==
    stop \in Part => MallocFails /\ data[stop] # 0 /\ old[stop] = Hole

\* pagerAddPageToRollbackJournal for each page of a set, in page order: page
\* number, contents, checksum.
PosOf(j, pages, p) == j.off + Record * Cardinality({q \in pages : q < p})
AddRecords(j, pages, contents, stop) ==
    LET RecordOf(p, old) ==
            [kind |-> "rec", magic |-> FALSE, num |-> p, init |-> j.init,
             sample |-> Sample(contents[p]),
             data |-> Stored(old, contents[p], stop[p])]
        end == j.off + Record * Cardinality(pages)
    IN [j EXCEPT !.file = [i \in Pos |->
                              IF \E p \in pages : PosOf(j, pages, p) = i
                              THEN RecordOf(CHOOSE p \in pages : PosOf(j, pages, p) = i,
                                            @[i].data)
                              ELSE Wiped(@, i, j.off, end - 1)],
                 !.size = LargerOf(@, end),
                 !.off = end,
                 !.nRec = @ + Cardinality(pages)]

\* Whether the records got what was written to them.
Whole(j, pages, contents, stop) ==
    \A p \in pages :
        Stored(j.file[PosOf(j, pages, p)].data, contents[p], stop[p]) = contents[p]

HasMagic(cell) == cell.kind = "hdr" /\ cell.magic

\* Mutant: the header that follows is left as it is.
MutGuardNextHeader(file, next) == file
\* syncJournal: a header that an older transaction left where the next one
\* would be gets a zero byte over its magic.
Stale(file, next) == next \in Pos /\ HasMagic(file[next])
GuardNextHeader(file, next) ==
    IF Stale(file, next) /\ "zerobyte" \notin DroppedZeros
    THEN [file EXCEPT ![next].magic = FALSE]
    ELSE file

\* syncJournal: magic and nRec go into the current header, then the sync
\* point moves to the end and, if asked for, a new header starts.
SyncJournal(j, newHdr) ==
    LET guarded == GuardNextHeader(j.file, RoundUp(j.off))
        synced == [j EXCEPT !.file = [guarded EXCEPT ![j.hdr].magic = TRUE,
                                                     ![j.hdr].num = j.nRec],
                            !.hdr = j.off]
    IN IF newHdr THEN WriteHeader([synced EXCEPT !.nRec = 0]) ELSE synced

\* The zero byte was dropped, and no new header takes the place of the old one.
Unguarded(j) == Stale(j.file, RoundUp(j.off)) /\ "zerobyte" \in DroppedZeros

\* zeroJournalHdr: 28 zero bytes over the first header, if the transaction
\* wrote one.
ZeroHeader(j) ==
    IF j.off = 0 \/ "zeroHdr" \in DroppedZeros
    THEN j
    ELSE [j EXCEPT !.file[0].magic = FALSE,
                   !.file[0].num = 0,
                   !.file[0].init = 0]

------------------------------------------------------------------------------
Init ==
    /\ eState = "reader"
    /\ phase = "run"
    /\ committed \in [Page -> Content]
    /\ disk = committed
    /\ mem = committed
    /\ dirty = {}
    /\ needSync = {}
    /\ inJournal = {}
    /\ changeCountDone = FALSE
    /\ jopen = FALSE
    /\ jrn = NewJournal
    /\ todo = {}
    /\ hot = FALSE
    /\ left = 0
    /\ tmp = ZeroData
    /\ txs = 0
    /\ intact = TRUE

loopVars == <<todo, hot, left>>

\* sqlite3PagerBegin
Begin ==
    /\ phase = "run"
    /\ eState = "reader"
    /\ txs < MaxTx
    /\ txs' = txs + 1
    /\ eState' = "locked"
    /\ jrn' = [jrn EXCEPT !.off = 0]
    /\ UNCHANGED <<phase, committed, disk, mem, dirty, needSync, inJournal,
                   changeCountDone, jopen, loopVars, tmp, intact>>

\* pager_open_journal: a journal that is not open yet is a fresh RAM file.
OpenedJournal ==
    IF eState = "locked"
    THEN WriteHeader([jrn EXCEPT !.nRec = 0, !.off = 0, !.hdr = 0])
    ELSE jrn

SectorOf(p) == {q \in Page : (q - 1) \div PagesPerSector = (p - 1) \div PagesPerSector}

\* Mutant: only p itself.
MutTouched(p) == {p}
\* The pages pagerWriteLargeSector passes to pager_write: p, and what is not
\* journalled yet of p's sector; and the ones among them to be journalled.
Touched(p) == {p} \cup (SectorOf(p) \ inJournal)
\* Mutant: a page is journalled each time it is made writable.
MutToJournal(p) == Touched(p)
ToJournal(p) == Touched(p) \ inJournal

\* Which part of which record a failing sqlite3_malloc stops at.
NoStop == [q \in Page |-> NParts + 1]
Stops(j, pages) ==
    {NoStop} \cup
    {[NoStop EXCEPT ![qk[1]] = qk[2]] : qk \in
        {qk \in pages \X Part :
            MayStop(j.file[PosOf(j, pages, qk[1])].data, mem[qk[1]], qk[2])}}

\* The pages that get PGHDR_NEED_SYNC: the whole sector as soon as one page of
\* it has the flag.
Flagged(p) == IF SectorOf(p) \cap (needSync \cup ToJournal(p)) # {}
              THEN SectorOf(p)
              ELSE {}

\* sqlite3PagerWrite makes p writable, and with it the whole sector: journal
\* what the transaction has not journalled and mark it dirty.
MakeWritable(p) ==
    /\ dirty' = dirty \cup Touched(p)
    /\ inJournal' = inJournal \cup ToJournal(p)
    /\ needSync' = needSync \cup Flagged(p)
    /\ jopen' = TRUE
    /\ tmp' = IF eState = "locked" THEN ZeroData ELSE tmp

\* The client changes a page: sqlite3PagerWrite, which returns at once for a
\* page that is writable already, and the new contents.
PagerWrite(p, content) ==
    /\ phase = "run"
    /\ eState \in {"locked", "cachemod", "dbmod"}
    /\ mem' = [mem EXCEPT ![p] = content]
    /\ IF p \in dirty
       THEN UNCHANGED <<eState, dirty, needSync, inJournal, jopen, jrn, tmp, intact>>
       ELSE \E stop \in Stops(OpenedJournal, ToJournal(p)) :
                /\ jrn' = AddRecords(OpenedJournal, ToJournal(p), mem, stop)
                /\ intact' = (intact /\ Whole(OpenedJournal, ToJournal(p), mem, stop))
                /\ MakeWritable(p)
                /\ eState' = IF eState = "locked" THEN "cachemod" ELSE eState
    /\ UNCHANGED <<phase, committed, disk, changeCountDone, loopVars, txs>>

\* Mutant: only the state counts, not the flag of the page.
MutSpillSyncs(p) == eState = "cachemod"
\* pagerStress syncs the journal before the page goes to the database.
SpillSyncs(p) == p \in needSync \/ eState = "cachemod"

\* What pagerStress does before it writes the page.
SyncForSpill(p) ==
    /\ phase = "run"
    /\ eState \in {"cachemod", "dbmod"}
    /\ p \in dirty
    /\ IF SpillSyncs(p)
       THEN /\ jrn' = SyncJournal(jrn, TRUE)
            /\ needSync' = {}
            /\ tmp' = ZeroData
       ELSE UNCHANGED <<jrn, needSync, tmp>>
    /\ UNCHANGED <<phase, committed, mem, inJournal, changeCountDone, jopen, loopVars, txs, intact>>

\* The cache is full: a dirty page goes to the database file.
Spill(p) ==
    /\ SyncForSpill(p)
    /\ disk' = [disk EXCEPT ![p] = mem[p]]
    /\ dirty' = dirty \ {p}
    /\ eState' = "dbmod"

\* What a failed write of a page may leave: of the page, any part of it; of the
\* rest of its sector, anything.  That is what the pager reads sectorSize as
\* (setSectorSize: the bytes that might change).
Damaged(p, content) ==
    {d \in Database :
        /\ \A q \in Page \ SectorOf(p) : d[q] = disk[q]
        /\ \A k \in Part : d[p][k] \in {disk[p][k], content[k]}}

\* The write fails: pager_error.
SpillFails(p) ==
    /\ "spill" \in WriteFails
    /\ SyncForSpill(p)
    /\ disk' \in Damaged(p, mem[p])
    /\ dirty' = dirty
    /\ eState' = "error"

------------------------------------------------------------------------------
(* Commit                                                                   *)

\* sqlite3PagerCommitPhaseOne up to pager_write_pagelist: page 1 is made
\* writable for the change counter, once while the lock is held, and the
\* journal is synced.
CommitPhaseOne ==
    /\ phase = "run"
    /\ eState \in {"cachemod", "dbmod"}
    /\ IF changeCountDone \/ 1 \in dirty
       THEN /\ jrn' = SyncJournal(jrn, FALSE)
            /\ intact' = (intact /\ ~Unguarded(jrn))
            /\ UNCHANGED <<dirty, inJournal, jopen, tmp>>
       ELSE \E stop \in Stops(jrn, ToJournal(1)) :
            LET added == AddRecords(jrn, ToJournal(1), mem, stop)
            IN /\ jrn' = SyncJournal(added, FALSE)
               /\ intact' = (intact /\ Whole(jrn, ToJournal(1), mem, stop) /\ ~Unguarded(added))
               /\ dirty' = dirty \cup Touched(1)
               /\ inJournal' = inJournal \cup ToJournal(1)
               /\ UNCHANGED <<jopen, tmp>>
    /\ needSync' = {}
    /\ changeCountDone' = TRUE
    /\ eState' = "dbmod"
    /\ phase' = "commit"
    /\ todo' = dirty'
    /\ UNCHANGED <<committed, disk, mem, hot, left, txs>>

FirstTodo == CHOOSE p \in todo : \A q \in todo : p <= q

\* pager_write_pagelist: one page
CommitWrite ==
    /\ phase = "commit"
    /\ todo # {}
    /\ disk' = [disk EXCEPT ![FirstTodo] = mem[FirstTodo]]
    /\ todo' = todo \ {FirstTodo}
    /\ UNCHANGED <<eState, phase, committed, mem, dirty, needSync, inJournal,
                   changeCountDone, jopen, jrn, hot, left, tmp, txs, intact>>

\* pager_playback as far as its loop
StartPlayback(isHot) ==
    /\ phase' = "playback"
    /\ hot' = isHot
    /\ left' = 0
    /\ jrn' = [jrn EXCEPT !.off = 0, !.hdr = IF isHot THEN jrn.size ELSE @]

\* The synced journal ends where a sector begins and older data go on: a
\* rollback that is not hot takes them for the header that was being written.
StrayHeader == RoundUp(jrn.hdr) = jrn.hdr /\ jrn.hdr + Sector <= jrn.size

\* The write fails: the commit returns the error and the statement is rolled
\* back.
CommitWriteFails ==
    /\ "commit" \in WriteFails
    /\ phase = "commit"
    /\ todo # {}
    /\ disk' \in Damaged(FirstTodo, mem[FirstTodo])
    /\ todo' = {}
    /\ intact' = (intact /\ ~StrayHeader)
    /\ StartPlayback(FALSE)
    /\ UNCHANGED <<eState, committed, mem, dirty, needSync, inJournal,
                   changeCountDone, jopen, tmp, txs>>

CommitWritten ==
    /\ phase = "commit"
    /\ todo = {}
    /\ phase' = "run"
    /\ eState' = "finished"
    /\ dirty' = {}
    /\ UNCHANGED <<committed, disk, mem, needSync, inJournal, changeCountDone,
                   jopen, jrn, loopVars, tmp, txs, intact>>

\* pager_end_transaction
EndTransaction ==
    /\ jrn' = [ZeroHeader(jrn) EXCEPT !.off = 0, !.nRec = 0]
    /\ inJournal' = {}
    /\ dirty' = {}
    /\ needSync' = {}
    /\ eState' = "reader"

\* sqlite3PagerCommitPhaseTwo, also of a transaction that wrote nothing
CommitPhaseTwo ==
    /\ phase = "run"
    /\ eState \in {"locked", "finished"}
    /\ EndTransaction
    /\ committed' = mem
    /\ UNCHANGED <<phase, disk, mem, changeCountDone, jopen, loopVars, tmp, txs, intact>>

------------------------------------------------------------------------------
(* Rollback                                                                 *)

\* sqlite3PagerRollback
Rollback ==
    /\ phase = "run"
    /\ eState \in {"locked", "cachemod", "dbmod"}
    /\ IF eState = "locked"
       THEN EndTransaction /\ UNCHANGED <<phase, hot, left>>
       ELSE StartPlayback(FALSE) /\ UNCHANGED <<inJournal, dirty, needSync, eState>>
    /\ UNCHANGED <<committed, disk, mem, changeCountDone, jopen, todo, tmp, txs, intact>>

\* A unit of the journal, as a playback reads it.
CellAt(i) == IF i \in Pos THEN jrn.file[i] ELSE EmptyCell

\* readJournalHdr: where the next header would be, and whether one is read
\* there.  The magic of the header that is being written is not there yet,
\* so a rollback that is not hot takes that one without.
NextHeader == RoundUp(jrn.off)
HeaderThere ==
    /\ NextHeader + Sector <= jrn.size
    /\ (hot \/ NextHeader # jrn.hdr) => HasMagic(CellAt(NextHeader))

InSegments == phase = "playback" /\ left = 0

\* One header.  nRec of the segment that is not synced is still 0: its
\* records are counted from the size of the file.
PlaybackHeader ==
    /\ InSegments
    /\ HeaderThere
    /\ LET header == CellAt(NextHeader)
       IN /\ left' = IF header.num = 0 /\ ~hot /\ NextHeader = jrn.hdr
                     THEN (jrn.size - (NextHeader + Sector)) \div Record
                     ELSE header.num
          /\ jrn' = [jrn EXCEPT !.off = NextHeader + Sector, !.init = header.init]
    /\ UNCHANGED <<eState, phase, committed, disk, mem, dirty, needSync, inJournal,
                   changeCountDone, jopen, todo, hot, tmp, txs, intact>>

Cell == CellAt(jrn.off)

\* The page as xRead delivers it into pTmpSpace: a part without a block keeps
\* what the space held.
Loaded == [k \in Part |-> IF Cell.data[k] = Hole THEN tmp[k] ELSE Cell.data[k]]

\* Mutant: the checksum is not looked at.
MutChecksumHolds == Cell.num \in Page
ChecksumHolds == Cell.init = jrn.init /\ Cell.sample = Sample(Loaded)

InRecords == phase = "playback" /\ left > 0

\* A record of this transaction's.
Applies == Cell.kind = "rec" /\ ChecksumHolds

\* pager_playback_one_page gives up: page number 0 (a header without magic, or
\* what happens to lie in the stack where there is no block) or a checksum
\* that does not match.  pager_playback takes that for the end.
PlaybackDone ==
    /\ InRecords
    /\ \/ Cell.kind = "rec" /\ ~ChecksumHolds
       \/ Cell.kind = "hdr" /\ ~Cell.magic
       \/ Cell.kind = "none"
    /\ left' = 0
    /\ jrn' = [jrn EXCEPT !.off = jrn.size]
    /\ tmp' = IF Cell.kind = "rec" THEN Loaded ELSE tmp
    /\ UNCHANGED <<eState, phase, committed, disk, mem, dirty, needSync, inJournal,
                   changeCountDone, jopen, todo, hot, txs, intact>>

\* A page number beyond the database, which is what a header's magic reads as:
\* the record is skipped.
PlaybackSkip ==
    /\ InRecords
    /\ HasMagic(Cell) \/ Cell.kind = "none"
    /\ left' = left - 1
    /\ jrn' = [jrn EXCEPT !.off = @ + Record]
    /\ UNCHANGED <<eState, phase, committed, disk, mem, dirty, needSync, inJournal,
                   changeCountDone, jopen, todo, hot, tmp, txs, intact>>

\* Mutant: > for >= in the test of the state.
MutWritesDatabase ==
    /\ eState = "open"
    /\ jrn.off + Record <= jrn.hdr
\* The database file is only restored if it has been written to, and from a
\* record that was synced before.
WritesDatabase ==
    /\ eState \in {"dbmod", "open"}
    /\ jrn.off + Record <= jrn.hdr

\* One record goes to the database file and to the page in the cache; a clean
\* page need not be in the cache (none is in a hot rollback), and is then read
\* from the file again.
PlaybackRecord ==
    /\ InRecords
    /\ Applies
    /\ LET p == Cell.num
       IN /\ disk' = IF WritesDatabase THEN [disk EXCEPT ![p] = Loaded] ELSE disk
          /\ \E cached \in IF hot THEN {FALSE} ELSE IF p \in dirty THEN {TRUE} ELSE BOOLEAN :
                mem' = [mem EXCEPT ![p] = IF cached THEN Loaded ELSE disk'[p]]
    /\ tmp' = Loaded
    /\ left' = left - 1
    /\ jrn' = [jrn EXCEPT !.off = @ + Record]
    /\ UNCHANGED <<eState, phase, committed, dirty, needSync, inJournal,
                   changeCountDone, jopen, todo, hot, txs, intact>>

\* The write to the database fails: pager_error.
PlaybackFails ==
    /\ "playback" \in WriteFails
    /\ InRecords
    /\ Applies
    /\ WritesDatabase
    /\ disk' \in Damaged(Cell.num, Loaded)
    /\ tmp' = Loaded
    /\ left' = 0
    /\ hot' = FALSE
    /\ phase' = "run"
    /\ eState' = "error"
    /\ UNCHANGED <<committed, mem, dirty, needSync, inJournal,
                   changeCountDone, jopen, jrn, todo, txs, intact>>

\* No further header: end_playback.
PlaybackEnd ==
    /\ InSegments
    /\ ~HeaderThere
    /\ phase' = "run"
    /\ hot' = FALSE
    /\ changeCountDone' = FALSE
    /\ EndTransaction
    /\ UNCHANGED <<committed, disk, mem, jopen, todo, left, tmp, txs, intact>>

------------------------------------------------------------------------------
(* Errors, closing, power loss                                              *)

\* pager_unlock of a pager in the error state: the cache is dropped; in
\* exclusive mode the journal stays open.
Unlock ==
    /\ phase = "run"
    /\ eState = "error"
    /\ eState' = "open"
    /\ mem' = disk
    /\ dirty' = {}
    /\ needSync' = {}
    /\ inJournal' = {}
    /\ changeCountDone' = FALSE
    /\ jrn' = [jrn EXCEPT !.off = 0, !.hdr = 0]
    /\ UNCHANGED <<phase, committed, disk, jopen, loopVars, tmp, txs, intact>>

\* sqlite3PagerSharedLock: the lock is still exclusive, the journal open, so
\* it is played back as a hot one.
SharedLock ==
    /\ phase = "run"
    /\ eState = "open"
    /\ StartPlayback(TRUE)
    /\ UNCHANGED <<eState, committed, disk, mem, dirty, needSync, inJournal,
                   changeCountDone, jopen, todo, tmp, txs, intact>>

\* The RAM journal is gone and the database is opened anew: there is no hot
\* journal, the file is the database.
Reopened ==
    /\ eState' = "reader"
    /\ phase' = "run"
    /\ mem' = disk
    /\ dirty' = {}
    /\ needSync' = {}
    /\ inJournal' = {}
    /\ changeCountDone' = FALSE
    /\ jopen' = FALSE
    /\ jrn' = NewJournal
    /\ todo' = {}
    /\ hot' = FALSE
    /\ left' = 0
    /\ tmp' = ZeroData
    /\ txs' = 0
    /\ UNCHANGED disk

\* sqlite3PagerClose outside a transaction; in the error and open states it
\* closes the journal without playing it back, and that was the only copy.
Close ==
    /\ phase = "run"
    /\ eState \in {"reader", "error", "open"}
    /\ Reopened
    /\ intact' = (intact /\ disk = committed)
    /\ UNCHANGED committed

\* The device loses power or is reset: what is found then is the database.
PowerLoss ==
    /\ Reopened
    /\ committed' = disk
    /\ intact' = TRUE

Playback ==
    \/ PlaybackHeader
    \/ PlaybackDone
    \/ PlaybackSkip
    \/ PlaybackRecord
    \/ PlaybackFails
    \/ PlaybackEnd

Next ==
    \/ Begin
    \/ \E p \in Page : \/ \E content \in Content : PagerWrite(p, content)
                       \/ Spill(p)
                       \/ SpillFails(p)
    \/ CommitPhaseOne
    \/ CommitWrite
    \/ CommitWriteFails
    \/ CommitWritten
    \/ CommitPhaseTwo
    \/ Rollback
    \/ Playback
    \/ Unlock
    \/ SharedLock
    \/ Close
    \/ PowerLoss

Spec == Init /\ [][Next]_vars

------------------------------------------------------------------------------
\* Journals whose counts of records are in `counts`, their offsets in `offsets`.
CellsOf(counts) ==
    [kind : {"none", "hdr", "rec"}, magic : BOOLEAN, num : counts,
     init : Nonce \cup {0}, sample : [Sampled -> Value \cup {Hole, 0}],
     data : [Part -> Value \cup {Hole, 0}]]
JournalsOf(offsets, counts) ==
    [file : [Pos -> CellsOf(counts)], size : offsets, off : offsets, hdr : offsets,
     nRec : counts, init : Nonce \cup {0}]

\* What a journal that holds what was written to it never exceeds.
Cells == CellsOf(0 .. NPages)
Journals == JournalsOf(0 .. MaxPos, 0 .. NPages)
Bounded == jrn \in Journals /\ left \in 0 .. MaxPos

PagerTypes ==
    /\ eState \in {"open", "reader", "locked", "cachemod", "dbmod", "finished", "error"}
    /\ phase \in {"run", "commit", "playback"}
    /\ committed \in Database
    /\ disk \in Database
    /\ mem \in Database
    /\ dirty \subseteq Page
    /\ needSync \subseteq Page
    /\ inJournal \subseteq Page
    /\ changeCountDone \in BOOLEAN
    /\ jopen \in BOOLEAN
    /\ todo \subseteq Page
    /\ hot \in BOOLEAN
    /\ tmp \in [Part -> Value \cup {0}]
    /\ txs \in 0 .. MaxTx
    /\ intact \in BOOLEAN
Types == PagerTypes /\ jrn \in JournalsOf(Nat, Nat) /\ left \in Nat

\* Every variable holds a value of its type; while the journal is intact, its
\* offsets stay within what one transaction can write.
TypeOK == Types /\ (intact => Bounded)

\* All or nothing, at the points where the pager says so: between transactions
\* both the file and the pages are what the last transaction left, whether it
\* committed or was rolled back; until the journal is synced the file is
\* untouched; before the journal is finalised the file is complete.  It holds
\* through any errors while the journal is intact: no part of a record was
\* lost, no header of an older transaction taken for one of this, and the
\* database not closed before the journal was played back.
Atomic ==
    intact =>
        /\ eState = "reader" => disk = committed /\ mem = committed
        /\ eState \in {"locked", "cachemod"} => disk = committed
        /\ eState = "finished" => disk = mem

\* The headers a hot rollback finds: the first, and each time the one where the
\* records of the one before end, as long as there is the magic.
HotHeaders ==
    LET start[k \in 0 .. jrn.size \div Sector] ==
            IF k = 0 THEN 0
            ELSE LET h == start[k - 1]
                 IN IF h < jrn.size /\ HasMagic(jrn.file[h])
                    THEN RoundUp(h + Sector + Record * jrn.file[h].num)
                    ELSE jrn.size
    IN {h \in {start[k] : k \in 0 .. jrn.size \div Sector} :
           h < jrn.size /\ HasMagic(jrn.file[h])}

\* The places of their records of page p with a checksum that holds.
HotRecords(p) ==
    UNION {{i \in {h + Sector + Record * k : k \in 0 .. jrn.file[h].num - 1} :
                /\ i < jrn.size
                /\ jrn.file[i].kind = "rec"
                /\ jrn.file[i].num = p
                /\ jrn.file[i].init = jrn.file[h].init} : h \in HotHeaders}

\* From the first sync of the journal on, playing it back as a hot journal
\* would give the old database: no page is in the file before its record is
\* under a synced header, no record of an older transaction is reached, none
\* of this one's is cut off.
HotJournalRestores ==
    intact /\ eState \in {"dbmod", "finished", "error", "open"} =>
        \A p \in Page :
            LET records == HotRecords(p)
            IN IF records = {} THEN disk[p] = committed[p]
               ELSE \A i \in records : jrn.file[i].data = committed[p]

\* A rollback from an intact journal gives the client's pages nothing but what
\* they were before the transaction.
ReplayRestores ==
    [][intact /\ phase = "playback" /\ phase' # "run" =>
         \A p \in Page : mem'[p] \in {mem[p], committed[p]}]_vars

\* A page that is not dirty can be dropped from the cache and read again: it
\* is what the file holds.
Coherence ==
    phase # "playback" /\ eState # "error" => \A p \in Page \ dirty : mem[p] = disk[p]
CacheCoherent == intact => Coherence

\* A rollback that has come to its end has restored the database.
RollbackRestores == [][PlaybackEnd => disk' = committed]_vars

\* Closing the connection leaves the database as the last transaction left it,
\* there being no other place from which it could be restored.
CloseRestores == [][Close => disk' = committed]_vars

\* Whatever a power loss leaves is the old database or the new one.
CrashAtomic ==
    [][PowerLoss => disk' \in {committed, mem}]_vars
=============================================================================
