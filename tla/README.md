# A TLA+ model of the esp_arduino_sqlite3 library

The library puts SQLite 3.19.3 (an unchanged amalgamation, `src/src/sqlite3.c`)
on an ESP8266.  Its own code is the layer below SQLite: a VFS
(`src/src/esp8266.cpp`) over two file systems (`vfs.cpp`, `spiffs_fns.cpp`,
`sdfat_fns.cpp`), and a text compressor offered as SQL functions
(`shox96_0_2.cpp`).  The library's boldest decision is that **the rollback
journal is not a file**: whatever SQLite opens with
`SQLITE_OPEN_MAIN_JOURNAL` becomes a linked list of blocks in RAM.  Everything
SQLite promises about transactions (all or nothing, also after an error) rests
on that list.  The models therefore start there, and go on to what the pager
makes of it.

Paths below are relative to `src/`, the root of the repository.

## 1. Inventory

| Component | Source | State | Operations | Module |
|---|---|---|---|---|
| RAM journal file | `src/esp8266.cpp` 96-112, 167-423 | `filecache_t`: sorted list of blocks, size; the blocks on the heap | `esp8266_Open` (journal branch), `esp8266mem_Read/Write/Sync/FileSize/Close` over `filecache_pull/push/free`, `linkedlist_store` | `Filecache`, `MemFile` |
| Pager's rollback journal | `src/sqlite3.c` 48252-53506 (vendored), configured by `src/config_ext.h` | `Pager`: state, journal offset and header, page flags, `pTmpSpace` | begin, write page, spill, commit in two phases, rollback, hot rollback, error, close | `RollbackJournal` |
| Statements, transactions, savepoints | `src/sqlite3.c` 50286-50390, 52673-53740, 73699-74215, 81258-81600 (vendored) | counters of the handle, the statement, `Pager.aSavepoint`, main journal and sub-journal, page cache | BEGIN, COMMIT, ROLLBACK, SAVEPOINT, RELEASE, ROLLBACK TO; begin, writes and end of a write statement; fetch, evict, spill | `Transactions`, `SqlTransactions` |
| Database file methods | `src/esp8266.cpp` 367-521 | `esp8266_file`: fd | open, close, read, write, truncate (no-op), delete, size, sync, access | `DatabaseFiles` |
| File system dispatch | `src/vfs.cpp` | `fd->fs_type` | by path prefix `/SD` on open, delete, exists; by `fs_type` afterwards | `DatabaseFiles` |
| SPIFFS backend | `src/spiffs_fns.cpp` | one global `File *` supplied by the application | open, close, read, write, seek, flush, size | `DatabaseFiles` |
| SdFat backend | `src/sdfat_fns.cpp` | mount table of ten, one handle per open file | mount, open, close, read, write, seek, remove, exists | `DatabaseFiles` |
| Shox96 codec | `src/shox96_0_2.cpp` | position, code set, run of capitals, previous character, earlier lines | compress, decompress | `Shox96` |
| Shox96 SQL functions | `src/esp8266.cpp` 30-52, 637-688 | none | `shox96_0_2c`, `shox96_0_2d`, variable-length integers | `Shox96` |
| Locking stubs | `src/esp8266.cpp` 539-563 | none | xLock, xUnlock, xCheckReservedLock | |
| Time, randomness, registration | `src/esp8266.cpp` 589-694 | none | xCurrentTime, xRandomness, xSleep, `sqlite3_os_init` | |
| SQLite above the pager | `src/sqlite3.c` (vendored) | | the client of the pager | |
| Build configuration | `src/config_ext.h` | | fixes exclusive locking, a cache of 1 KiB, no WAL, one thread | |
| Examples | `examples/` | | show how applications call the library | |

**How they interact.**  Everything is a synchronous call: an SQL statement runs
in SQLite, the B-tree asks the pager for pages and announces changes
(`sqlite3PagerWrite`), the pager calls the VFS for the journal and for the
database file, the VFS calls `vfs.cpp`, which calls one of the two backends.
There are no threads, no callbacks from below, no messages.  What is shared is
the file systems' state (one pointer to a SPIFFS `File`, the mount table) and the heap.

**Which behaviours are hard.**  With no concurrency inside the library, what is
left is: long sequences of calls (the list of blocks is walked and extended in
any order the pager writes in; the journal of an exclusive-mode connection is
overwritten, never truncated, so that old records lie behind new ones); failure
in the middle of a call (no memory, a failed write, a short read) and what the
layers report of it; a reset of the device at any point; boundaries (16-bit
block numbers, a length equal to an error code, a block read from a shorter
buffer); and a codec whose two halves keep the same state independently.

**What makes each component correct.**

* RAM journal: reading returns what was last written, zeros where nothing was
  written inside the file; blocks stay sorted and unique; every allocated block
  is freed; a failed write says so.
* Pager over it: a transaction happens completely or not at all, at commit, at
  rollback and after an I/O error; the journal on its own is enough to get the
  old database back as soon as the database file has been touched.
* Database file methods and backends: each error is reported as what it is; a
  handle refers to the file it was opened for.
* Statements and savepoints: whatever SAVEPOINT, RELEASE and ROLLBACK TO say of a
  stack of earlier contents is true of what the b-tree reads, and every open
  savepoint, the statement and the transaction can be undone at any moment, from
  two journals, a cache and a file that spills have changed.
* Codec: decompression inverts compression and stays within its buffers.

`PROJECT.json` lists the hazards, each at its line.

## 2. How the modules are built

| Module | Role |
|---|---|
| `Filecache` | the linked list, one pass of a loop per step |
| `MemFile` | what the RAM file promises: an array of bytes |
| `FilecacheRefinement`, `MCFilecache` | the list implements the array; its instance for TLC |
| `FilecacheProofs` | order, type, no leak, for all constants |
| `FilecacheRefinementProofs` | the list implements the array, for all constants |
| `RollbackJournal`, `MCRollbackJournal` | the pager's transaction over what that file gives back |
| `RollbackJournalLemmas`, `RollbackJournalProofs` | transactions are all or nothing, for all constants |
| `SqlTransactions` | what the SQL commands promise: a stack of earlier contents |
| `Transactions`, `MCTransactions` | the handle, the pager's savepoints, both journals, the cache; implements `SqlTransactions` |
| `TransactionsProofs` | type, cache and journal invariants, for all constants |
| `SavepointsProofs` | savepoints and statements can be undone, and `SqlTransactions` is implemented, for all constants |
| `DatabaseFiles`, `MCDatabaseFiles` | database files over two backends that may fail |
| `DatabaseFilesProofs` | handles and reported results, for all constants |
| `Shox96`, `MCShox96` | the codec, both loops one pass per step |
| `Shox96Proofs` | the decompressor inverts the compressor, for texts of any length and any earlier lines |

`RollbackJournal` and `Transactions` are two views of one pager.  The first keeps
the journal as the bytes the RAM file holds, with old headers and records behind
the new ones, and has only whole transactions; the second takes a journal that
reads back what was written and has everything that happens inside a
transaction.  They meet at the records: `Transactions` assumes of the main
journal what `RollbackJournal` shows (a record under a synced header is
played back, others are not).

What could come next: two connections to one database under the locking stubs, which
needs two page caches.

## 3. What is modelled

### `Filecache`: the linked list

State: `open` (the `esp8266_file` holds a `filecache_t`), `list` (the blocks in
list order, a block being its `blockid` and its bytes), `size`
(`cache->size`), `heap` (blocks allocated and not freed), and the locals of the
call that is running: `pc`, `req`, `data` (the caller's buffer), `pass` (the
counter `i`), `r`, `leaf` (as a position in the list), `updateroot`.

| Action | Code |
|---|---|
| `Open` | journal branch of `esp8266_Open` |
| `Close` | `esp8266mem_Close`, `filecache_free` |
| `Write`, `Read` | `esp8266mem_Write`, `esp8266mem_Read` up to the loop |
| `PushSearch`, `PullSearch` | one advance of `leaf` |
| `PushBlank` | `linkedlist_store` returns because the block is blank |
| `PushOverwrite`, `PushInsert`, `PushNomem` | its other outcomes, with the end of the pass in `filecache_push` |
| `PullRound` | the copy in `filecache_pull` |
| `PushEnd`, `PullEnd` | return to the caller, `cache->size` |

Every step is one pass, which allows invariants about what the search has
passed.  As in the code, the number of passes over the chunks (`blocks`) is counted before
the first one; that the last of them ends where the request does is an invariant
(`PassInv`), not the loop's condition.  Three peculiarities of the code are in the model as they are:
`memcmp(data, blank, CACHEBLOCKSZ)` looks at a whole block even when the chunk
is shorter (`Blank(tailBlank)`: what lies behind the caller's buffer is either
zero or not); a blank chunk is not stored even over older contents; and a length
of 7 returned by `linkedlist_store` is taken for `SQLITE_NOMEM`
(`NomemCode`).  `blockid` is stored modulo 2^16 (`IdMod`) and compared in full
by the reader.

### `MemFile` and `FilecacheRefinement`: what it promises

`MemFile` is the file as a function from offsets to bytes: a write in progress
applies its chunks in order of offset, each stored, dropped because blank, or
failed with the rest of the write; a read returns the stored bytes and leaves
the buffer alone elsewhere within blocks that were never stored.
`FilecacheRefinement` maps the list to this file.  It is a weaker promise than
that of an ordinary file, deliberately: the difference is what the violation
runs show.

### `DatabaseFiles`: the methods of a database file and the two backends

State: the medium (`present`, the files there are, and `stored`, their pages);
`card` (the entry of `sdFats`: none, begun in vain, mounted); `filep` (the `File`
object announced for the next SPIFFS open); `object` (each `File` object: what it
is open on, how, and its position); `handle` (each `esp8266_file`: its name and
`fd->file_obj`); `taken`, a history variable: the open handles whose `File` an open
has assigned to since; `result`, an observation: the call, page, return code and
contents of the last read or write, and whether the handle was taken.

| Action | Code |
|---|---|
| `Mount` | `vfs_mount`, `sdfat_mount` |
| `SetFileObj` | `vfs_set_spiffs_file_obj` |
| `Open` | `esp8266_Open` of a database (`OpenSucceeds`, `OpenFails`), with `esp8266_Access`, `vfs_stat`, `vfs_open`, `spiffs_open`, `sdfat_open` |
| `Close` | `esp8266_Close`, `spiffs_close`, `sdfat_close` |
| `Read` | `esp8266_Read`, `vfs_lseek`, `vfs_read` |
| `Write` | `esp8266_Write`, `vfs_lseek`, `vfs_write` |

The backends keep a handle's `File` in different places: SdFat's is copied to
the heap for each handle (it is named by its owner), a SPIFFS handle points to
the object announced last, which every open assigns to, whether it succeeds or
not.  Closing a SPIFFS database only forgets the object, which stays open at its
old position.  `Seek` has the code's two ways of moving: SPIFFS's, and
`sdfat_lseek`, whose cases fall through from `seekSet` to `seekCur` to
`seekEnd`.

The file systems are external.  Taken from how the code uses them: a seek beyond
the end fails and leaves the position, a mode means what `fopen` says
(`sdfat_open` translates it to flags), a read at the end delivers nothing.  Which
calls may fail without need is the constant `Failures` (seeks by backend:
`"spiffs seek"`, `"card seek"`).  Assumed of the
application (`OpenAllowed`) is that the card is mounted, or a `File` object
announced, before `sqlite3_open`, and that one connection has a database at a time.

Nothing keeps the application from announcing a `File` that a database is open on, or from
opening two databases with one: `spiffs_open` assigns to the object, and the first
handle then reads and writes the other's file.  The model has those calls.  The properties
say that this is the *only* way a handle loses its file: `HandleStandsForFile` of every
handle that is not `taken`, `ReadsReturnStored` and `WritesStored` of every call on
such a handle.

### `RollbackJournal`: the pager over the RAM journal

State: `eState` (`"open" "reader" "locked" "cachemod" "dbmod" "finished"
"error"` for the `PAGER_*` constants), the database file `disk`, the pages as
the client reads them `mem`, the page flags `dirty` and `needSync`,
`inJournal`, `changeCountDone`, the journal `jrn` (its contents, its size, and
the pager's `journalOff`, `journalHdr`, `nRec`, `cksumInit`), `tmp`
(`pTmpSpace`), the variables of the two loops (`todo`; `hot`, `left`), and two
history variables: `committed`, the database as the last transaction left it, and `intact`.

The configuration matters more than the code: `SQLITE_DEFAULT_LOCKING_MODE 1`
means that the journal is finalised by zeroing its first header and reused, with
all old records behind; `SQLITE_DEFAULT_CACHE_SIZE -1` means that two pages fill
the cache, so that spills, several headers and rollbacks of a written database
are the ordinary case; sectors of 4096 bytes (`esp8266_SectorSize`) and pages of
512 mean that eight pages are journalled together.

| Action | Code |
|---|---|
| `Begin` | `sqlite3PagerBegin` |
| `PagerWrite` | `sqlite3PagerWrite`, `pagerWriteLargeSector`, `pager_write`, `pager_open_journal`, `pagerAddPageToRollbackJournal` |
| `Spill`, `SpillFails` | `pagerStress`, `syncJournal`, `pager_write_pagelist` |
| `CommitPhaseOne`, `CommitWrite`, `CommitWriteFails`, `CommitWritten` | `sqlite3PagerCommitPhaseOne` |
| `CommitPhaseTwo` | `sqlite3PagerCommitPhaseTwo`, `pager_end_transaction`, `zeroJournalHdr` |
| `Rollback` | `sqlite3PagerRollback` |
| `PlaybackHeader` ... `PlaybackEnd` | `pager_playback`, `readJournalHdr`, `pager_playback_one_page` |
| `Unlock`, `SharedLock` | `pager_unlock` in the error state, the hot rollback of `sqlite3PagerSharedLock` |
| `Close`, `PowerLoss` | `sqlite3PagerClose`; a reset |

A page is a function from parts to values, a part being one block of the journal
file, so that what `Filecache` does with blank, absent and failed chunks appears
here as operators on parts (`Stored`, `Loaded`, `MayStop`).  The modules are
composed at that level, not step by step: the list has no part in what the pager
decides, only its contents after each call do, and those are what
`ImplementsMemFile` establishes.

SQLite counts on a journal that holds what was written to it and is there as long as it
is needed.  This port does not always give it that, and the model has every way in which
it does not; `intact` says that none of them has happened, and `Atomic`,
`HotJournalRestores`, `CacheCoherent` and `ReplayRestores` say what is true until then.  It becomes
false in four steps of the program, each visible in its action:

* a record is stored in part (`Whole`): a page has a block of zeros, which
  `linkedlist_store` drops, or an allocation fails, which `esp8266mem_Write` does not
  report (`PagerWrite`, `CommitPhaseOne`);
* at the commit a header of an older transaction stands where the next one would, and the
  zero byte that `syncJournal` writes over its magic is dropped (`Unguarded`,
  `CommitPhaseOne`);
* a write of the commit fails while the synced journal ends on a sector boundary with older
  data behind (`StrayHeader`, `CommitWriteFails`): the rollback takes those for the header
  that was being written, whose magic `readJournalHdr` does not check.  This is SQLite's own;
* the connection is closed while the file differs from what was committed (`Close`).

A reset (`PowerLoss`) loses the journal as well; whatever it leaves is the database from
then on, and what it leaves is the question of `CrashAtomic`.  `Close` does not
redefine what was committed.

### `SqlTransactions` and `Transactions`: what happens inside a transaction

`SqlTransactions` is what SQL says: the contents as this connection reads them,
a stack of earlier contents, one per open savepoint, and for a statement that
can be undone the contents it started from.

`Transactions` is what SQLite does about it, in four layers that the module keeps
apart:

| State | Code |
|---|---|
| `autoCommit`, `nOpen`, `isTransactionSavepoint` | the handle: `sqlite3.autoCommit`, the list `pSavepoint`, `isTransactionSavepoint`; `nSavepoint` is derived |
| `stmt` | the write statement: `usesStmtJournal`, `iStatement`, whether it has written |
| `eState`, `dbSize`, `dbOrigSize`, `aSavepoint`, `jrn`, `sub` | the pager, its savepoints (`iOffset`, `iSubRec`, `nOrig`, `pInSavepoint`), main journal and sub-journal |
| `file`, `cache`, `dirty`, `writeable`, `needSync` | the database file and the page cache with its flags |
| `past` | history: what was committed, and the contents at each open savepoint and at the start of the statement; no action looks at it |

| Action | Code |
|---|---|
| `Begin`, `Commit`, `Rollback` | `OP_AutoCommit` |
| `Savepoint`, `Release`, `RollbackTo` | `OP_Savepoint`, `sqlite3BtreeSavepoint`, `sqlite3PagerSavepoint`, `pagerPlaybackSavepoint` |
| `StartStatement` | `OP_Transaction`: `sqlite3BtreeBeginTrans`, `pagerOpenSavepoint`, `sqlite3BtreeBeginStmt` |
| `Write`, `SubJournalFull` | `sqlite3PagerWrite` with everything it does to the pages of the sector; `memjrnlWrite`, `memjrnlCreateFile` |
| `Succeed`, `Abort`, `AbortTransaction`, `IoError` | `sqlite3VdbeHalt` with each of its outcomes, `vdbeCloseStatement`, `sqlite3RollbackAll` |
| `Fetch`, `Evict`, `Spill` | `getPageNormal`, `pcache1FetchStage2`, `pagerStress` |

What makes this part hard is that the pager learns of a savepoint only when the
next write statement begins, that what undoes it is spread over two journals (a
page goes to the main journal the first time the transaction touches it, to the
sub-journal when a later savepoint needs it again), that the page itself may
meanwhile be in the cache, in the file or in both, and that a page which is
written to the file too early cannot be taken back after a reset.  Playing back
is one step with the effect of the loop: for each page the first record counts
(`Played`), and whether it goes to the file, to the cache, or is added to the
cache is decided as in `pager_playback_one_page` (`ToFile`, `AddedToCache`).

### `Shox96`: the codec and its SQL functions

`shox96_0_2c` stores a text as its length, as a varint, and the compressed bits;
`shox96_0_2d` takes them apart.  The model has one step per pass of either loop:
`Repeat`, `MatchWithin`, `MatchEarlier`, `Literal` are the branches of the
compressor, `Control`, `Emit`, `CopyWithin`, `CopyEarlier`, `CopyRepeat` those of
the decompressor.  State that both ends keep (`state` and `is_all_upper`, `dstate`
and `is_all_upper`) and that only one has (`c_prev`) are variables.  The code
tables of the compressor, `c_95` and `l_95`, are those of the source; the
decompressor's `vcode` and `hcode` tables, which hold index and length at the
codeword read lowest bit first, are given as codewords by index.  Bits are a
sequence, so that packing them into bytes is left out.  The compressor of the
model was compared with the compiled `shox96_0_2.cpp` on 400 texts of all kinds,
bit by bit.

## 4. What the runs show

`tlc -config <run>.cfg <module>` with the module named in `PROJECT.json`
(`MCFilecache`, `MCRollbackJournal`, `MCDatabaseFiles`, `MCShox96` or
`MCTransactions`).

Runs that pass:

| Run | Question | Bounds |
|---|---|---|
| `filecache_list` | Do the list's shape and the `MemFile` promise survive every order of overlapping, unaligned, zero and non-zero writes and running out of memory? | bytes {0,1}; blocks of 2; requests of 1 to 4 bytes within 6, that is 3 blocks (a request fills a block, spans two or three, starts or ends inside one, leaves gaps); memory for 4 blocks, any allocation of which may fail. The list takes every shape over three block numbers |
| `rollback` | Is a transaction atomic, and its journal enough to undo it, whatever of commit, rollback, spill and hot rollback is interrupted by a failed write? | 3 pages, two of them in one sector; 2 transactions over one journal, the second over the records of the first, with segments of different lengths (a sector of 5 units, a record of 3); every write to the database may fail, in a spill, a commit or a playback, and damage its whole sector; every allocation may fail; values {1,2} |
| `database_files` | Does a handle keep its file, and are reads and writes what they report, whatever fails and whichever `File` is announced when? | 2 connections, 2 databases on SPIFFS and two `File` objects, each of which may be announced for either database, also while it is in use, and is taken over as the last open left it; one database on a card, created by the run; files of up to 2 pages, 2 contents; open, SPIFFS seek, read, write and mount may fail, also while a database is open. What an unused `File` was last open on is left out of the states told apart (`View`): an open assigns to it before any call looks at it |
| `statements` | Can the running statement and the transaction be undone at every moment, the transaction from the synced records alone? | a database of 1 page that grows to 2, a savepoint, 2 records of sub-journal, 2 contents; any call may end in `SQLITE_IOERR` |
| `savepoints` | Can each open savepoint be gone back to at every moment, and do the commands do to the contents what SQL says? | the same with 2 nested savepoints and both pages in one sector |
| `shox96` | Do both ends of the codec stay in step and go forward, and is what they write bounded? | all words of two letters up to 9; of seven characters that switch case or set, up to 4; every character of the documented range by itself and in state 2; runs of capitals; runs and distances in every size class of a count; the characters with the longest codes; each with and without two earlier lines. Matches from 3 characters on within the text and 4 with an earlier line, instead of 7 and 12, 2 bits of length to a byte instead of 7, so that short texts have all cases |

A rollback needs one page written to the file, one only in the cache and one
older record behind, and a damaged sector one page that is written and one that is not;
three pages and two transactions have all of it.  `MaxTx` bounds the
transactions begun with one journal; closing or a reset starts anew, so the run
never deadlocks.  States behind a step that breaks the journal are not explored, and
a connection starts with the same contents in every part (`Explored`, a constraint): the
properties say nothing of the former, and a database with other contents differs
by the names of its values only.  `Nonce` has more
elements than the journal has units, so that a `cksumInit` that is in none of them
always exists (`NonceAssumption`).  `Transactions` has no bound on the number of transactions or
statements: the journals end with each transaction, and the sub-journal's limit is
the code's own, only smaller.  Two savepoints and a statement make three entries of
`aSavepoint`, of which the middle one has an outer and an inner neighbour; the
one page that is there at first and the one that is not have different places for
their records.  Three pages (4.5 million states and more) and two pages with two
savepoints and a failing card were tried without a new outcome, and take longer
than a run should.

`CompressedBounded` bounds what the codec writes by 18.5 bits a character and the filling
of the last byte.  A capital and a digit by turns (`Costly`) take 16 to 21 bits each with
their switches and come close to it.  The property is about `shox96_0_2_compress`.  It
does not say that the buffer `shox96_0_2c` allocates is large enough: its size is
8 bits a character and 13 bytes, which is less than the bound for all but short texts.

Runs that TLC refutes, each a disagreement between the code and what the
repository says of it (`PROJECT.json`, "findings", quotes both):

| Run | What happens |
|---|---|
| `zero_parts` | `RollbackRestores`. A read beyond the end of the RAM file, or of a hole, returns `SQLITE_OK` and whatever the buffer held, where `sqlite3.h` (745) asks for zeros. That reaches the database: a page with a block of zeros is journalled without it, and a rollback fills the gap from `pTmpSpace`, i.e. from the page replayed before. The checksum samples one byte in 200 and does not notice. |
| `closed_in_error` | `CloseRestores`. A write to the database fails in a spill; the pager is in the error state, and the connection is closed. `sqlite3PagerClose` leaves the rollback to the next user of the database, but closing the journal frees it: the file stays as the failed write left it. |
| `power_loss` | After a reset in a spilled or half committed transaction the file is neither old nor new: the journal was in RAM. The README calls the library ACID compliant. |
| `card_created` | A database created on the card is open for writing only (`sdfat_open` makes `O_WRITE \| O_CREAT` of `w+`). Its pages cannot be read back, and nobody is told: `esp8266_Read` compares an unsigned count with 0, so that an error passes for a short read, which `readDbPage` takes for success. |
| `round_trip` | With the code's own constants `key=101;key=1010000;` comes back as `key=101;key=1011111;`. After a repeated word `c_prev` is the last character but one of it, so that a run that continues *that* character is coded as "repeat the last one". |
| `stmt_journal` | The sub-journal, opened without a name, cannot leave memory, because `esp8266_Open` refuses such a file. While a savepoint is open it keeps growing; the write that finds it full (127 records here) fails with `SQLITE_IOERR` and takes the whole transaction with it. Confirmed with the compiled `sqlite3.c` over a VFS that refuses names of NULL. |

Three more were found with other constants and are left out of the runs to keep
them to distinct questions; each can be had by changing a configuration:

* `zero_parts` with `Value = {1, 2}` and `MallocFails = TRUE` violates `RollbackRestores`
  without any zeros: `esp8266mem_Write` drops `SQLITE_NOMEM`, and the transaction goes on with a
  journal that cannot restore.
* `database_files` with `"card seek"` in `Failures` violates `WritesStored`: when
  `seekSet` fails, `sdfat_lseek` falls through to `seekCur` and `seekEnd` with the
  same number and reports the number as the position.
* `shox96` with all texts (`AllTexts`) violates `RoundTrip` as `round_trip` does:
  `TextsWithoutDelayedRuns` leaves out the texts that have a run of four right
  behind one other character.

What the passing runs leave out, therefore: what happens behind a step that makes
`intact` false (section 3); failing `seekSet` on the card and failing stat
(`esp8266_Access` takes that for absence, and an existing SPIFFS database is then opened
with `w+` and emptied); handles that are `taken`.

Four more things met in the code have no run.  `spiffs_flush` and `sdfat_flush`
always answer `VFS_RES_OK`, so that a failed sync cannot be reported.
`SQLITE_OPEN_CREATE` is not looked at: read-write alone creates a missing
database.  A failed open leaves its `vfs_file` allocated.  The empty text comes back
from `shox96_0_2d` as NULL, its blob being one byte long (`RoundTrip` allows it).

Every property has a mutant (`Mut...` definitions, "mutants" in
`PROJECT.json`): a plausible slip in the code under which the same run finds the
property violated.

**Refinement.**  `ImplementsMemFile` (`Filecache` implements `MemFile`) and
`ImplementsSql` (`Transactions` implements `SqlTransactions`) are checked as
properties of the detailed specification.  The second is the statement that
matters to a user of the library: all the abstract module knows is contents, and
each of the sixteen actions of `Transactions` is one of its commands or a stutter.

**Fairness.**  No specification asks for fairness, and no property is a liveness property.
The library runs in its caller's thread, where a call is a loop that nothing interrupts or
waits for, and nobody is obliged to make the next call: nothing is there to be live but the
loops themselves.  The chunk loops of the RAM file are counted beforehand, and its
list is a sequence in the model, so that a list linked in a circle is not among the states;
for the codec, whose loops are not counted, `PassesAdvance` and the bounds in its `TypeOK`
say that they end.

## 5. What is proved

`FilecacheProofs` proves, with TLAPS and for every alphabet, block size, number
of block numbers, error code, set of requests and amount of memory:

* `TypeCorrect`: `Spec => []TypeOK`.
* `Sorted`: `Spec => []StrictlySorted`.  Without any condition on the requests;
  a block number that wraps is stored in order too (and found under the wrong
  offset).
* `NothingLost`: `Spec => []NoOrphan`, if no request reaches the offset where
  `blockid` wraps (`NoWrap`) and no chunk is as long as `SQLITE_NOMEM`
  (`NoNomemLength`).  Both are needed: a chunk of 7 bytes in front of the head
  is inserted and then not linked.  Both hold of the pager, which writes words,
  sectors and pages to a journal far below 4 MiB.

They rest on the inductive invariant `IInv` (`Invariance`).  `StrictlySorted` is
not inductive: an insertion in front of or behind `leaf` keeps the order only
because of where the search has come by, and `updateroot` is not reset between
the chunks of a push although the search starts over, so that a list whose head
was passed for one chunk is extended for the next.  `PassedInv` says that what
has been passed is not beyond the chunk, now or in an earlier pass; `RootInv`
that `updateroot` stands for a search that has not left the head; `AlignedInv`
that every chunk but the first starts a block, which is why a block is never
inserted twice; `PassInv` that the passes counted beforehand end with the request; `CallInv`, `HeapInv` and `ClosedInv` tie the locals, the heap and
the closed file together.  The lemmas on `Advances`, `Inserted` and the chunk
arithmetic come first, then one step per action.  `IInv` is also checked by the
run `filecache_list`.

The assumptions are the named ones of `Filecache` (a block is not empty, requests
have a length, 0 is a byte).

`FilecacheRefinementProofs` proves from the same invariant and assumptions

* `ListImplementsFile`: `Spec => ImplementsMemFile`, if no request reaches the wrap
  (`NoWrap`).  A length taken for `SQLITE_NOMEM` and a failed allocation do no harm here:
  the array, too, may stop storing at any chunk.

The argument has three parts.  `SearchEnd`: when a search loop stops without having found
the block, the list has none of that number, since `PassedInv` says what has been passed
and `StrictlySorted` what lies ahead.  `ByteOf` and `BlockStored`: in an ordered list a
byte is that of the one block of its number, so that storing one block changes the bytes
of its range and no others.  `ChunkInBlock` and `ChunkStored`: a chunk falls within one
block, at the bytes `MemFile` writes.  Then one lemma per action.

`DatabaseFilesProofs` proves, for any number of connections, names, `File`
objects and contents, any bound on the pages, and any set of failing calls unless
said otherwise:

* `TypeCorrect`: `Spec => []TypeOK`.  The bound on positions is the part that
  needs an argument: a seek ends within the file (`SeekRange`).
* `HandlesStand`: `Spec => []HandleStandsForFile`, in whatever order databases are opened
  and `File` objects announced.  Its invariant `HandleInv`
  adds `OwnObject`: a handle on the card has the `File` on its own heap, one on
  SPIFFS one of the application's.  Without it an open on SPIFFS could not be told to
  leave the card's handles alone.
* `ReadsTrue`: `Spec => []ReadsReturnStored`, and `WritesTrue`: `Spec => []WritesStored`,
  if `seekSet` on the card fails only beyond the end of the file (`SeekSound`).  Their core is
  `SeekExact`: where it does fail, the relative seeks that follow would land no
  nearer, so that they fail too.  Section 4 shows that the condition is needed.  Both are
  about handles that are not `taken`.
* `WritesAlone`: `Spec => OnlyWritesChange`, if moreover stat does not fail.

`RollbackJournalProofs`, over the lemmas of `RollbackJournalLemmas`, proves for any
number of pages, pages per sector and transactions over one journal, any sizes of
sector and record, any contents, whichever parts of a page the checksum samples,
whichever short zero writes are dropped, and any failing allocations and writes:

* `TypeCorrect`: `Spec => []TypeOK`.  The part with an argument is that an intact
  transaction's journal stays within `MaxPos`.
* `Atomicity`: `Spec => []Atomic`, at commit, rollback and after an error.
* `Coherent`: `Spec => []CacheCoherent`.
* `ReplayRestored`: `Spec => ReplayRestores`, a playback applies no record of an older
  transaction and none that is half stored.
* `HotReplayable`: `Spec => []HotJournalRestores`, a hot playback would at any moment give
  the old database.

They assume nothing but the named assumptions of the module, among them that a record is
no longer than a sector (520 bytes to 4096), which is used at the end of the journal: what
is left of the file there is shorter than a record, hence than a header.  What they say is
said of states in which the journal is `intact`; the four ways in which it stops being
so are in section 3, and without each of them one of the properties fails.

None of the five is inductive, not even with the argument of `TransactionsProofs`, because
here the journal is bytes that older transactions have written.  The invariant is
`Inv == Types /\ (intact => IInv)`: a step that makes `intact` false has nothing more to
show than the types (`StaysBroken`: only a reset makes it true again, and what is found then
is the database).  `IInv` says:

* `Chain`, in the lemmas: the segments of the running transaction are at aligned offsets
  from 0 on, each beginning where the records of the one before end, each with its magic,
  its number of records and its seed; the last header, at `journalHdr`, has no magic yet.
  `LastSegment`: behind it come the `nRec` records that are not synced, and no other record
  anywhere has its seed.  This is what stops the playback of a running transaction, which
  reads to the end of the file, at the first record some older transaction left.
* `Live`: in a transaction, the pages of the chain and the tail are those in
  `pInJournal`; both sets are closed under sectors, so that a failing write damages only
  pages that are recorded; a page whose record is not synced is unchanged in the file
  and in `PGHDR_NEED_SYNC`; a page without record is unchanged in both.
* `Synced`: from the last sync of a commit on, and after an error, the synced segments are
  all that is needed (`Restorable`): they cover every page that differs in the
  file, with all of its sector, and what follows them is no header.  `Committing` adds what
  a commit may write, `SyncedPlayback` where its rollback stands.
* `AtHeader`, `AtRecord`, `InTail`, `AtEnd`: where a playback can be, and that all
  pages with a record before that place are `Restored`.

The lemmas follow what the pager does to the journal: a header is written
(`HeaderWritten`), records are added (`RecordsAdded`, `JournalExtended`), a segment is
synced and another begun (`ChainSynced`, `JournalSegmented`), then what a playback meets
at each place (`HeaderPlayed` to `TailLeft`).  Then one lemma per action.

`CommitSynced` shows that `syncJournal` brings `Synced` about (`NextGuarded`: it takes the
magic from what stands at the next header's place); `LiveRestorable` and
`DamageRestorable` that an error leaves it behind, however much of a sector is
damaged; `SyncedStarts` that a rollback, hot or not, can begin from it.
`HotReplayable` follows from `Restorable` (`RestorableFound`).  What the property says a hot
playback finds is computed along the journal by a recursive function, so `HotHeadersRead`
and `RecordsFound` need an induction over its segments.  The induction theorems of the
library take an operator, which the provers cannot instantiate; the section "Induction" has
induction in the form of sets instead (`AllNaturals`: a set of numbers without a least
missing one has all; `Iterated`: a function defined step by step exists), from the
well-foundedness of `<`.

`TransactionsProofs` proves, for any number of pages, any initial size, any number
of pages per sector, savepoints and sub-journal records, any contents, and whether or
not the device may fail:

* `TypeCorrect`: `Spec => []TypeOK`.
* `CleanPagesStored`: `Spec => []CleanIsStored`, a page of the cache that is not dirty
  is the one in the file.
* `TransactionRestored`: `Spec => []TransactionKept`, at every moment the journal
  restores what was last committed, both by a rollback of the running connection and,
  from the file and the synced records alone, by a playback without the cache.

None of the three is inductive.  The invariant `IInv` adds, in named parts, why the
records are enough and why a page that is written to the file is safe:

* `JournalShape`: the main journal begins with a header, has one record of a page at
  most, and no second header before the first spill.
* `DirtyRecorded`: a dirty page, and a page of the sub-journal, that was there when the
  transaction began has its record in the main journal.  `NothingToUndo`: outside a transaction there are no records and nothing
  is dirty.
* `SectorRecorded`, `SectorUnsynced`: the pages of a sector are recorded together, and
  while one of them waits for a sync, all that the transaction knows of wait and are
  dirty.  `SectorUnsynced` is the part that is least obvious: without it `NeedSyncAfter`, which
  marks only pages that are in the cache or being written, could not be shown to mark
  enough.
* `UnsyncedStored`: while the record of a page is not synced, the page in the file is
  as it was, so that losing the record loses nothing.  `NotSpilled`: before the first
  spill that is true of all pages.
* `CommittedKept`: what was committed is in the record of a page, or, where it has
  none, is what the b-tree reads.

The proof has a lemma on what playing back does to a page (`PlaybackEffect`), used
for rollback to a savepoint, of a statement and of the transaction, one on the end
of a transaction (`EndPages`), and one on steps that move pages between cache and file
(`Mild`); then one step per action.  The invariant was checked with TLC before it was
proved.  The assumptions are the named ones of `Transactions`.

`SavepointsProofs` goes on from there, under the same assumptions:

* `SavepointsRestored`: `Spec => []SavepointsKept`, and `StatementRestored`:
  `Spec => []StatementKept`.
* `SqlImplemented`: `Spec => ImplementsSql`, the refinement of `SqlTransactions`.

`SavepointsKept` says of a savepoint that playing back restores it; it is not inductive,
since it does not say that what is written next will be recorded.  `SInv` adds to `IInv`:

* `SavepointCounts`: what the handle counts (`nOpen`, less the savepoint that began the
  transaction), the statement's `iStatement` and the length of `aSavepoint` agree.
  While a write statement runs, the pager has all the savepoints, and the statement's is
  the innermost; between statements it may have fewer.  `UnopenedCurrent`: nothing has
  changed since those it does not have yet.
* `PlacesNested`: the records of an inner savepoint are among those of an outer one, so
  that going back to the inner one changes no page the outer one has no record of
  (`UnrecordedUnplayed`).  This is why `RollbackTo` may leave its records in place.
* `PagesInSavepoint`: a page is in `pInSavepoint` only if a record behind the savepoint's
  place has it; `subjRequiresPage` may therefore leave it out.
* `Restorable`: for each savepoint of the pager and each of its pages, the first record
  behind its place, of the main journal before the sub-journal, or else what is read now,
  is what the savepoint stands for (`Meant`).
* `PastShape`: the history has an entry for each savepoint, and the one that began the
  transaction stands for what was committed.

The lemma `RestoresPlayed` connects `Restorable` with the operator that plays back
(`Played`), `WriteRestores` shows that a write keeps it, and `InnerSavepointsGo` serves
the three actions that drop inner savepoints.  For the refinement there is one lemma per
action again; the contents after a commit or a rollback come from `CommittedKept` of the
next state, those after `RollbackTo` from `RollbackToContents`.

`Shox96Proofs` proves of the codec, for any number of texts and lists of earlier
lines, any lengths from which matches are coded and any base of the varint:

* `TypeCorrect`: `Spec => []TypeOK`, `AlwaysAdvances`: `Spec => PassesAdvance`, and
  `OutputAlwaysFits`: `Spec => []OutputFits`, if the texts and lines are within limits
  (`WithinLimits`): the characters of a text are those that `src/README.md` names
  (printable ones, tab, line feed, carriage return), and no text, line or list of lines
  is longer than 70307 (`MaxCount`), the largest count `encodeCount` has a class for;
  for a larger one the code writes nothing, so that the ends do fall out of step.
* `RoundTrips`: `Spec => []RoundTrip`, and `AlwaysPrefix`: `Spec => []DecodedPrefix`, if
  moreover no text has a run of four right behind one other character
  (`NoDelayedRuns`).  With such a text the code does not return what it was given; that
  is the finding of `round_trip`.
* `AlwaysBounded`: `Spec => []CompressedBounded`, for texts of any length within the
  limits, if a match within the text has at least 3 characters and one with an
  earlier line 4 (`MatchesPay`; the code takes 7 and 12).

The runs have words of a few letters, lower match lengths and a smaller varint; the
theorems hold for the values of the code.  The code tables are those of the
source, and the proof goes through them entry by entry.

The properties compare the two ends when both are at work, or done, so that the inductive
invariant has to say what the bits mean.  `InStep` does so with *places*: a position in
the blob, one in the text, the set of codes and whether a run of capitals is on.
`Pass(bits, text, prev_lines, p, q)` says that the bits between the places `p` and `q` are
one of the words the decompressor knows (a switch, an element of a set, a repeat, a
match within the text or with an earlier line) and stand for the characters between the
two.  While the compressor runs, the bits written so far lead from the first place to
where it is (`LeadsTo`); the finished blob consists of such a path and of a filling that
stands for nothing (`Blob`); while the decompressor runs, it stands at one of the path's places
(`StandsAt`).

* The compressor: `RepeatCoded`, `WithinCoded`, `EarlierCoded` and `LiteralCoded` show
  of each branch that what it appends leads to its next place.  A literal may need up to three
  switches before its code (`SwitchesCoded`, `CharacterCoded`).  That repeats leave
  `c_prev` at the last but one character is in the invariant as it is (`Previous`); it
  makes the condition of `RoundTrips` necessary and no other.
* The decompressor: `PassOfBlob` shows that a pass which begins at one place ends at
  another, or ends the loop at the last one.  It rests on `VFound` and `HFound` (no
  codeword begins with another), `CountRead` (the classes of counts), the lemmas
  `Token...`, one for each way the switches are read, and `FillingBits` (the filling is the
  head of the word that ends a blob, however many bits of it fit).
* The varint: `VarintDecoded`.

Recursion over data is where this prover has no induction rule to offer.  The proofs
go around it: the values of a recursive function up to `n` are a sequence that is shown
to exist step by step (`Iterated`, for `getNumFromBits`; `Varints`, for the varint), and a
property of all numbers follows from there being no least counterexample
(`AllNaturals`, from the well-foundedness of `<` on `Nat`).  The headers that a hot
rollback finds (`start` in `HotHeaders`) are treated in the same way, in
`RollbackJournalLemmas`.

`AlwaysBounded` needs a bound on what every word of the blob costs, and one on
the switches.  The dearest character takes 21 bits with its switches; but not every
character can be as dear: a run of capitals begins only with six
characters to come, and what enters a set leaves it first (`LiteralCost`).
`Room(r, m)` is twice the bits that `r` characters may still take in mode `m`, 37 for each
and a little for the mode; `PricePaid` and `MatchPaid` show that no pass takes more than it
uses up of that room, which is the invariant (`Thrifty`, `Economical`), and `RoomFits` that
the filling of the last byte fits in what is left.

**Only model-checked**: nothing that a passing run checks; each of its properties is a
theorem as well, under the conditions stated here.

## 6. What is abstracted and what is left out

* Bytes are values of a small set; a "byte" of `Filecache` may stand for a word,
  since the pager's requests are aligned to 4 bytes.
* Journal offsets are in units, of which a header takes `Sector` and a record `Record`, no
  longer than a sector (`SectorAssumption`).  Records may end on a sector boundary.
* The pages of a sector are journalled and marked in one step, and a failing
  allocation is modelled in the contents of records, not of headers.
* `pTmpSpace` is also used by the B-tree; the model only follows the pager's use.
* The random `cksumInit` is taken to differ from those of older records (it
  coincides once in 2^32).
* A failed write may damage the whole sector, which is how the pager itself
  defines `sectorSize`.
* In `RollbackJournal` the database does not grow or shrink and there are no
  savepoints, which are the subject of `Transactions`; in neither is there a
  super-journal (ATTACH is compiled out) or a temporary database (the VFS cannot open
  them), and the change counter is not part of page 1.
* `Transactions` has no database that shrinks (no `incremental_vacuum`), no pages
  without content (`PGHDR_DONT_WRITE`), one write statement at a time, no foreign keys
  and no schema changes.  The journals are sequences that read back what was written;
  a playback is one step.
* `Shox96` has texts of 7-bit characters and blobs written by `shox96_0_2c`; decoding
  other blobs is not modelled.
* In `DatabaseFiles` a request is a page, read and written as a whole or not at
  all; the first 100 bytes, which the pager reads before it knows the page size,
  are part of page 1.  A failed write may have stored the page.  `MaxPages` is
  the bound on a file; writes at it are not made.
* `present` and `stored` survive any call; a reset of the device is the subject
  of `RollbackJournal` (`PowerLoss`), not of `DatabaseFiles`.
* Not modelled: the locking stubs, which have neither state nor more than one outcome
  (what two connections to one file do to each other depends on two page caches);
  `vfs_remove` and `esp8266_Delete`, as there is no journal file to delete; time,
  randomness and registration, which are constants handed to SQLite; the rest of SQLite,
  vendored code that appears as a client; the configuration, which appears as the modes
  above; the examples, read for how the library is called.

Of the 216 808 lines the repository counts as implementation, 202 280 are SQLite's
amalgamation and 11 000 its headers.  The models cover the library's own code but for
the parts named here, and of the amalgamation the pager's journalling, the savepoints
and the transaction opcodes, which are what the library's journal in RAM changes.
