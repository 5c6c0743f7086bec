------------------------- MODULE RollbackJournalProofs -------------------------
(****************************************************************************)
(* Proofs that the transactions of RollbackJournal are atomic as long as    *)
(* the journal is intact, for any number of pages and of transactions over  *)
(* one journal, any sizes of sectors and records, any contents, and errors  *)
(* at any write of a spill, a commit or a playback.                         *)
(*                                                                          *)
(* The argument: while a transaction runs, the journal is a chain of synced *)
(* segments that begins at offset 0, and a tail that is not synced (Live);  *)
(* a page that the file may already have lies in the chain with all of its  *)
(* sector.  What a commit plays back, or an error leaves to a hot rollback, *)
(* is the chain (Synced).  A playback restores the pages in the order of    *)
(* their records; a record behind the tail has another seed and ends it.    *)
(*                                                                          *)
(* A step that breaks the journal makes `intact` false and ends what the    *)
(* invariant says, until the device starts again; the types go on.          *)
(****************************************************************************)
EXTENDS RollbackJournalLemmas

------------------------------------------------------------------------------
(* The invariant.                                                           *)

Typed == PagerTypes /\ Bounded

\* Pages of one sector are in it together.
SectorClosed(S) == \A p \in S : SectorOf(p) \subseteq S

\* The pages that are as the transaction found them, in the file and in memory.
Restored == {p \in Page : disk[p] = committed[p] /\ mem[p] = committed[p]}

\* The pages with a record that is synced, and those with one that is not.
Safe(H, last) == Covered(jrn.file, H, last)
Waiting == PagesIn(jrn.file, jrn.hdr, jrn.nRec)

LivePlayback(H) ==
    \/ Replaying(jrn, left, Restored, H, jrn.hdr, jrn.nRec)
    \/ InTail(jrn, left, Restored, H, jrn.hdr, jrn.nRec)
    \/ AtEnd(jrn, left, Restored, H, jrn.hdr, jrn.nRec)

\* A transaction that can be rolled back: the journal holds the pages that it
\* changed, and those it put into the file are synced there.
Live(H) ==
    /\ JournalHas(jrn, committed, H, inJournal)
    /\ SectorClosed(Safe(H, jrn.hdr))
    /\ SectorClosed(inJournal)
    /\ Waiting \subseteq needSync
    /\ needSync # {} => jrn.nRec # 0
    /\ Page \ inJournal \subseteq Restored
    /\ \A p \in Waiting : disk[p] = committed[p]
    /\ phase = "run" => JournalHolds(jrn, committed, H, inJournal)
    /\ phase = "playback" => LivePlayback(H)

\* The synced segments lie before the place up to which the journal is synced.
Before(H, last) == \A h \in H \ {last} : Slot(h, jrn.file[h].num) <= jrn.hdr

\* A commit writes pages that are in the synced segments.
Committing(H, last) ==
    /\ todo \subseteq Safe(H, last)
    /\ Page \ Safe(H, last) \subseteq Restored
    /\ Before(H, last)
    /\ last = RoundUp(jrn.hdr)

\* A playback of the synced segments finds no header behind them.
SyncedPlayback(H, last) ==
    /\ Page \ Safe(H, last) \subseteq Restored
    /\ Before(H, last)
    /\ ~(last + Sector <= jrn.size /\ ((hot \/ last # jrn.hdr) => HasMagic(jrn.file[last])))
    /\ Replaying(jrn, left, Restored, H, last, 0)

\* The synced segments of the journal, at H up to `last`, are all that is needed
\* to restore the file, and all that a hot rollback would find.
Restorable(H, last) ==
    /\ Links(jrn.file, committed, H, last)
    /\ last < jrn.size => ~HasMagic(jrn.file[last])
    /\ \A h \in H \ {last} : Slot(h, jrn.file[h].num) <= jrn.size
    /\ SectorClosed(Safe(H, last))
    /\ \A p \in Page \ Safe(H, last) : disk[p] = committed[p]

\* Nothing else of the journal is needed any more.
Synced(H, last) ==
    /\ Restorable(H, last)
    /\ phase = "commit" => Committing(H, last)
    /\ phase = "playback" => SyncedPlayback(H, last)

SomeLive == \E H \in SUBSET Pos : Live(H)
SomeSynced == \E H \in SUBSET Nat : \E last \in H : Synced(H, last)

InTransaction == eState \in {"cachemod", "dbmod"} /\ phase # "commit"
LiveInv == InTransaction => SomeLive \/ (phase = "playback" /\ SomeSynced)
SyncedInv == eState \in {"error", "open", "finished"} \/ phase = "commit" => SomeSynced

\* How the variables go together.
StateInv ==
    /\ eState \in {"reader", "locked"} =>
          /\ phase = "run"
          /\ disk = committed /\ mem = committed
          /\ dirty = {} /\ needSync = {} /\ inJournal = {}
    /\ eState = "finished" => phase = "run" /\ dirty = {} /\ disk = mem
    /\ phase = "commit" => eState = "dbmod" /\ \A p \in Page \ todo : disk[p] = mem[p]
    /\ phase = "playback" => eState \in {"cachemod", "dbmod", "open"}
    /\ hot <=> phase = "playback" /\ eState = "open"
    /\ eState = "cachemod" => disk = committed /\ phase # "commit" /\ jrn.nRec # 0
    /\ eState = "error" => phase = "run"
    /\ eState = "open" => mem = disk
    /\ InTransaction /\ phase = "run" => dirty \subseteq inJournal

IInv == Typed /\ StateInv /\ Coherence /\ LiveInv /\ SyncedInv

Inv == Types /\ (intact => IInv)

------------------------------------------------------------------------------
(* Between transactions.                                                    *)

Quiet ==
    /\ eState \in {"reader", "locked"} /\ phase = "run" /\ hot = FALSE
    /\ disk = committed /\ mem = committed
    /\ dirty = {} /\ needSync = {} /\ inJournal = {}

\* Between transactions the invariant asks for nothing else.
LEMMA QuietIsFine == Types /\ Bounded /\ Quiet => IInv
<1> SUFFICES ASSUME Types, Bounded, Quiet PROVE IInv
  OBVIOUS
<1>1. StateInv
  BY DEF Quiet, StateInv, InTransaction
<1>2. Coherence
  BY DEF Quiet, Coherence
<1>3. LiveInv /\ SyncedInv
  BY DEF Quiet, LiveInv, SyncedInv, InTransaction
<1> QED BY <1>1, <1>2, <1>3 DEF IInv, Types, Typed

\* A journal of no bytes has its type.
LEMMA NewJournalType == NewJournal \in Journals
<1>1. 0 \in 0 .. MaxPos /\ 0 \in 0 .. NPages
  BY NPagesAssumption, Positions
<1> QED BY <1>1, EmptyIsCell DEF NewJournal, Journals, JournalsOf, Cells

\* A connection that was just opened satisfies the invariant.
LEMMA InitFine == Init => Inv
<1> SUFFICES ASSUME Init PROVE Inv
  OBVIOUS
<1>1. committed \in Database
  BY DEF Init, Database, Content
<1>2. PagerTypes
  <2>1. ZeroData \in [Part -> Value \cup {0}] /\ 0 \in 0 .. MaxTx
    BY MaxTxAssumption DEF ZeroData
  <2> QED BY <1>1, <2>1 DEF Init, PagerTypes
<1>3. Bounded
  <2>1. 0 \in 0 .. MaxPos
    BY Positions
  <2> QED BY <2>1, NewJournalType DEF Init, Bounded
<1>4. Types
  BY <1>2, NewIsAnyJournal DEF Init, Types, AnyJournal
<1>5. Quiet
  BY DEF Init, Quiet
<1> QED BY <1>3, <1>4, <1>5, QuietIsFine DEF Inv

\* The same of the next state.
LEMMA QuietNext == ASSUME Types', Bounded', Quiet' PROVE IInv'
<1>1. Types' /\ Bounded' /\ Quiet' => IInv'
  BY QuietIsFine, PTL
<1> QED BY <1>1

\* The parts of the types that most steps need.
LEMMA TypeFacts ==
    ASSUME Typed
    PROVE  /\ jrn \in Journals /\ jrn.file \in [Pos -> Cells]
           /\ jrn.off \in Nat /\ jrn.off <= MaxPos /\ jrn.size \in Nat /\ jrn.size <= MaxPos
           /\ jrn.hdr \in Nat /\ jrn.hdr <= MaxPos
           /\ jrn.nRec \in Nat /\ jrn.nRec \in 0 .. NPages /\ jrn.init \in Nonce \cup {0}
           /\ left \in Nat /\ left <= MaxPos
           /\ disk \in Database /\ mem \in Database /\ committed \in Database
           /\ dirty \subseteq Page /\ needSync \subseteq Page /\ inJournal \subseteq Page
           /\ todo \subseteq Page
BY NPagesAssumption, Positions DEF Typed, PagerTypes, Bounded, Journals, JournalsOf, Cells

\* pagerBegin: a transaction begins with nothing to undo.
LEMMA BeginFine == ASSUME IInv, Types', Begin PROVE IInv'
<1>1. Bounded'
  <2>1. 0 \in 0 .. MaxPos
    BY Positions
  <2> QED BY <2>1 DEF IInv, Typed, Bounded, Begin, loopVars, Journals, JournalsOf
<1>2. Quiet'
  BY DEF IInv, StateInv, Begin, Quiet, loopVars, Typed, PagerTypes
<1> QED BY <1>1, <1>2, QuietNext

\* A connection opened anew, after a close or a reset, has nothing to undo.
LEMMA ReopenedFine == ASSUME Types', Reopened, disk' = committed' PROVE IInv'
<1>1. Bounded'
  <2>1. 0 \in 0 .. MaxPos
    BY Positions
  <2> QED BY <2>1, NewJournalType DEF Bounded, Reopened
<1>2. Quiet'
  BY DEF Reopened, Quiet
<1> QED BY <1>1, <1>2, QuietNext

\* zeroJournalHdr keeps the type.
LEMMA EndedType ==
    ASSUME NEW j \in Journals
    PROVE  [ZeroHeader(j) EXCEPT !.off = 0, !.nRec = 0] \in Journals
<1>1. 0 \in 0 .. MaxPos /\ 0 \in 0 .. NPages /\ 0 \in Pos
  BY NPagesAssumption, Positions
<1>2. ZeroHeader(j) \in Journals
  <2>1. CASE ZeroHeader(j) = j
    BY <2>1
  <2>2. CASE ZeroHeader(j) = [j EXCEPT !.file[0].magic = FALSE, !.file[0].num = 0, !.file[0].init = 0]
    <3> DEFINE cell == [j.file[0] EXCEPT !.magic = FALSE, !.num = 0, !.init = 0]
    <3>1. j.file \in [Pos -> Cells] /\ j.file[0] \in Cells
      BY <1>1 DEF Journals, JournalsOf, Cells
    <3>2. cell \in Cells
      BY <1>1, <3>1 DEF Cells, CellsOf
    <3>3. ZeroHeader(j) = [j EXCEPT !.file = [j.file EXCEPT ![0] = cell]]
      <4>1. 0 \in DOMAIN j.file
        BY <1>1, <3>1
      <4> QED BY <2>2, <4>1
    <3> HIDE DEF cell
    <3>4. [j.file EXCEPT ![0] = cell] \in [Pos -> Cells]
      BY <1>1, <3>1, <3>2
    <3> QED BY <3>3, <3>4 DEF Journals, JournalsOf, Cells
  <2> QED BY <2>1, <2>2 DEF ZeroHeader
<1> QED BY <1>1, <1>2 DEF Journals, JournalsOf, Cells

\* sqlite3PagerCommitPhaseTwo: all pages are written, so that the journal may go.
LEMMA CommitPhaseTwoFine == ASSUME IInv, Types', CommitPhaseTwo PROVE IInv'
<1>1. Bounded'
  <2>1. jrn' \in Journals
    BY EndedType DEF IInv, Typed, Bounded, CommitPhaseTwo, EndTransaction
  <2> QED BY <2>1 DEF IInv, Typed, Bounded, CommitPhaseTwo, loopVars
<1>2. Quiet'
  BY DEF IInv, StateInv, CommitPhaseTwo, EndTransaction, Quiet, loopVars, Typed, PagerTypes
<1> QED BY <1>1, <1>2, QuietNext

------------------------------------------------------------------------------
(* The writes of a commit.                                                  *)

\* The list of pages that are still to be written has a first one.
LEMMA FirstIsTodo == ASSUME Typed, todo # {} PROVE FirstTodo \in todo
<1>1. todo \in SUBSET Nat
  BY TypeFacts DEF Page
<1>2. \E p \in todo : \A q \in todo : p <= q
  BY <1>1, Least
<1> QED BY <1>2 DEF FirstTodo

\* pager_write_pagelist: one more page is what it will be.
LEMMA CommitWriteFine == ASSUME IInv, Types', CommitWrite PROVE IInv'
<1> DEFINE q == FirstTodo
<1>1. disk' = [disk EXCEPT ![q] = mem[q]] /\ todo' = todo \ {q} /\ q \in todo
  BY FirstIsTodo DEF CommitWrite, IInv
<1> HIDE DEF q
<1>2. /\ Typed /\ StateInv
      /\ phase = "commit" /\ phase' = "commit" /\ eState' = eState /\ eState = "dbmod"
      /\ mem' = mem /\ committed' = committed /\ dirty' = dirty /\ hot' = hot /\ ~hot
      /\ jrn' = jrn /\ left' = left
      /\ Coherence
  BY DEF IInv, StateInv, CommitWrite
<1>3. \A p \in Page : disk'[p] = IF p = q THEN mem[p] ELSE disk[p]
  BY <1>1, <1>2, TypeFacts DEF Database
<1>4. Typed'
  BY <1>2 DEF Types, Typed, Bounded
<1>5. StateInv'
  BY <1>1, <1>2, <1>3 DEF StateInv, InTransaction
<1>6. Coherence'
  BY <1>2, <1>3 DEF Coherence
<1>7. LiveInv'
  BY <1>2 DEF LiveInv, InTransaction
<1>8. SyncedInv'
  <2>1. PICK H \in SUBSET Nat, last \in Nat : last \in H /\ Synced(H, last)
    BY <1>2 DEF IInv, SyncedInv, SomeSynced
  <2>2. Committing(H, last) /\ q \in Safe(H, last)
    BY <1>1, <1>2, <2>1 DEF Synced, Restorable, Committing
  <2>3. \A p \in Page \ Safe(H, last) : disk'[p] = disk[p]
    BY <1>3, <2>2
  <2>4. Committing(H, last)'
    BY <1>1, <1>2, <2>2, <2>3 DEF Committing, Safe, Before, Restored
  <2>5. Synced(H, last)'
    BY <1>2, <2>1, <2>3, <2>4 DEF Synced, Restorable, Safe
  <2> QED BY <2>1, <2>5 DEF SyncedInv, SomeSynced
<1> QED BY <1>4, <1>5, <1>6, <1>7, <1>8 DEF IInv

\* When the list is written, the file is what the pages are.
LEMMA CommitWrittenFine == ASSUME IInv, Types', CommitWritten PROVE IInv'
<1>1. Typed'
  BY DEF IInv, Types, Typed, Bounded, CommitWritten, loopVars
<1>2. disk' = mem'
  <2>1. \A p \in Page : disk[p] = mem[p]
    BY DEF IInv, StateInv, CommitWritten
  <2>2. disk \in Database /\ mem \in Database
    BY TypeFacts DEF IInv
  <2> QED BY <2>1, <2>2 DEF CommitWritten, Database
<1>3. StateInv'
  BY <1>2 DEF IInv, StateInv, InTransaction, CommitWritten, loopVars
<1>4. Coherence'
  BY <1>2 DEF Coherence
<1>5. LiveInv'
  BY DEF LiveInv, InTransaction, CommitWritten
<1>6. SyncedInv'
  <2>1. PICK H \in SUBSET Nat, last \in Nat : last \in H /\ Synced(H, last)
    BY DEF IInv, SyncedInv, SomeSynced, CommitWritten
  <2>2. Synced(H, last)'
    BY <2>1 DEF Synced, Restorable, Safe, CommitWritten
  <2> QED BY <2>1, <2>2 DEF SyncedInv, SomeSynced
<1> QED BY <1>1, <1>3, <1>4, <1>5, <1>6 DEF IInv

------------------------------------------------------------------------------
(* A rollback or a hot playback begins.                                     *)

\* Moving the pager's place in the journal leaves the journal alone.
Moved(j, w) ==
    /\ w \in Journals
    /\ w.file = j.file /\ w.size = j.size /\ w.nRec = j.nRec

\* Where the pager reads in the journal does not matter to what it holds.
LEMMA MovedHas ==
    ASSUME NEW j, NEW w, Moved(j, w), w.hdr = j.hdr, NEW db, NEW H, NEW S,
           JournalHas(j, db, H, S)
    PROVE  JournalHas(w, db, H, S)
BY DEF JournalHas, Moved

\* pager_playback begins at the first header.
LEMMA PlaybackAtStart ==
    ASSUME Typed, NEW isHot \in BOOLEAN, StartPlayback(isHot)
    PROVE  /\ Moved(jrn, jrn') /\ jrn'.off = 0
           /\ jrn'.hdr = IF isHot THEN jrn.size ELSE jrn.hdr
           /\ phase' = "playback" /\ hot' = isHot /\ left' = 0 /\ Bounded'
<1>1. 0 \in 0 .. MaxPos
  BY Positions
<1>2. jrn \in Journals
  BY TypeFacts
<1> QED BY <1>1, <1>2 DEF Moved, Bounded, StartPlayback, Journals, JournalsOf

\* sqlite3PagerRollback finds the journal as the transaction left it.
LEMMA RollbackFine == ASSUME IInv, Types', Rollback PROVE IInv'
<1>1. CASE eState = "locked"
  <2>1. Bounded'
    <3>1. jrn' \in Journals
      BY <1>1, EndedType DEF IInv, Typed, Bounded, Rollback, EndTransaction
    <3> QED BY <1>1, <3>1 DEF IInv, Typed, Bounded, Rollback
  <2>2. Quiet'
    BY <1>1 DEF IInv, StateInv, Rollback, EndTransaction, Quiet, Typed, PagerTypes
  <2> QED BY <2>1, <2>2, QuietNext
<1>2. CASE eState # "locked"
  <2>1. /\ phase = "run" /\ StartPlayback(FALSE)
        /\ eState \in {"cachemod", "dbmod"} /\ eState' = eState
        /\ UNCHANGED <<inJournal, dirty, needSync, committed, disk, mem, todo>>
    BY <1>2 DEF Rollback
  <2>2. /\ Moved(jrn, jrn') /\ jrn'.hdr = jrn.hdr /\ jrn'.off = 0
        /\ phase' = "playback" /\ hot' = FALSE /\ left' = 0 /\ Bounded'
    BY <2>1, PlaybackAtStart DEF IInv
  <2>3. Typed'
    BY <2>2 DEF Types, Typed
  <2>4. StateInv'
    BY <2>1, <2>2 DEF IInv, StateInv, InTransaction, Moved
  <2>5. Coherence' /\ SyncedInv'
    BY <2>1, <2>2 DEF Coherence, SyncedInv
  <2>6. LiveInv'
    <3>1. PICK H \in SUBSET Pos : Live(H)
      BY <2>1 DEF IInv, LiveInv, InTransaction, SomeLive
    <3>2. JournalHas(jrn, committed, H, inJournal)
      BY <3>1 DEF Live
    <3>3. JournalHas(jrn', committed, H, inJournal)
      BY <2>2, <3>2, MovedHas
    <3>4. AtHeader(jrn', 0, Restored', H, jrn.hdr, jrn.nRec)
      <4>1. jrn.hdr \in H /\ Chain(jrn.file, committed, H, jrn.hdr)
        BY <3>2 DEF JournalHas, Chain
      <4>2. jrn.file \in [Pos -> Cells] /\ jrn.nRec \in Nat
        BY TypeFacts DEF IInv
      <4>3. Links(jrn.file, committed, H, jrn.hdr)
        BY <4>1, <4>2, ChainLinks
      <4>4. jrn'.file = jrn.file /\ jrn'.off = 0
        BY <2>2 DEF Moved
      <4> QED BY <4>1, <4>2, <4>3, <4>4, PlaybackStarts
    <3>5. LivePlayback(H)'
      BY <2>1, <2>2, <3>4 DEF LivePlayback, Replaying, Moved
    <3>6. Live(H)'
      BY <2>1, <2>2, <3>1, <3>3, <3>5 DEF Live, Moved, Safe, Waiting, Restored
    <3> QED BY <3>6 DEF LiveInv, SomeLive
  <2> QED BY <2>3, <2>4, <2>5, <2>6 DEF IInv
<1> QED BY <1>1, <1>2

\* What has been synced is played back from the beginning.
LEMMA SyncedStarts ==
    ASSUME Typed, Bounded', NEW isHot \in BOOLEAN, StartPlayback(isHot), committed' = committed,
           NEW H \in SUBSET Nat, NEW last \in H, Synced(H, last),
           Page \ Safe(H, last) \subseteq Restored',
           isHot \/ (phase = "commit" /\ ~StrayHeader)
    PROVE  Synced(H, last)'
<1>1. /\ Moved(jrn, jrn') /\ jrn'.off = 0
      /\ jrn'.hdr = IF isHot THEN jrn.size ELSE jrn.hdr
      /\ phase' = "playback" /\ hot' = isHot /\ left' = 0
  BY PlaybackAtStart
<1>2. /\ Links(jrn.file, committed, H, last) /\ last \in Nat
      /\ jrn.file \in [Pos -> Cells] /\ jrn.size \in Nat
  BY TypeFacts DEF Synced, Restorable
<1>3. jrn'.file = jrn.file /\ jrn'.size = jrn.size
  BY <1>1 DEF Moved
<1>4. AtHeader(jrn', 0, Restored', H, last, 0)
  <2>1. jrn'.file \in [Pos -> Cells] /\ Links(jrn'.file, committed, H, last) /\ 0 \in Nat
    BY <1>2, <1>3
  <2> QED BY <1>1, <2>1, PlaybackStarts
<1>5. Safe(H, last)' = Safe(H, last)
  BY <1>3 DEF Safe
<1>6. Before(H, last)'
  BY <1>1, <1>3 DEF Before, Synced, Restorable, Committing
<1>7. ~(last + Sector <= jrn.size /\ ((isHot \/ last # jrn'.hdr) => HasMagic(jrn.file[last])))
  <2> SUFFICES ASSUME last + Sector <= jrn.size, (isHot \/ last # jrn'.hdr) => HasMagic(jrn.file[last])
               PROVE  FALSE
    OBVIOUS
  <2>1. last < jrn.size
    BY <1>2, SectorAssumption
  <2>2. ~isHot /\ last = jrn.hdr
    BY <1>1, <2>1 DEF Synced, Restorable
  <2>3. last = RoundUp(jrn.hdr) /\ ~StrayHeader
    BY <2>2 DEF Synced, Restorable, Committing
  <2> QED BY <2>2, <2>3 DEF StrayHeader
<1>8. SyncedPlayback(H, last)'
  BY <1>1, <1>3, <1>4, <1>5, <1>6, <1>7 DEF SyncedPlayback, Replaying
<1>9. \A p \in Page \ Safe(H, last) : disk'[p] = committed'[p]
  BY DEF Restored
<1> QED BY <1>1, <1>2, <1>3, <1>5, <1>8, <1>9 DEF Synced, Restorable

\* A write of the commit fails: what it damages is in the synced segments.
LEMMA CommitWriteFailsFine ==
    ASSUME IInv, Types', intact', CommitWriteFails
    PROVE  IInv'
<1>1. /\ phase = "commit" /\ todo # {} /\ eState = "dbmod" /\ ~StrayHeader
      /\ disk' \in Damaged(FirstTodo, mem[FirstTodo]) /\ StartPlayback(FALSE)
      /\ UNCHANGED <<eState, committed, mem, dirty, needSync, inJournal>>
  BY DEF CommitWriteFails, IInv, StateInv
<1>2. /\ jrn'.nRec = jrn.nRec
      /\ phase' = "playback" /\ hot' = FALSE /\ Bounded'
  BY <1>1, PlaybackAtStart DEF IInv, Moved
<1>3. PICK H \in SUBSET Nat, last \in Nat : last \in H /\ Synced(H, last)
  BY <1>1 DEF IInv, SyncedInv, SomeSynced
<1>4. Committing(H, last) /\ SectorClosed(Safe(H, last))
  BY <1>1, <1>3 DEF Synced, Restorable
<1>5. SectorOf(FirstTodo) \subseteq Safe(H, last)
  BY <1>1, <1>4, FirstIsTodo DEF IInv, Committing, SectorClosed
<1>6. \A q \in Page \ Safe(H, last) : disk'[q] = disk[q]
  BY <1>1, <1>5 DEF Damaged
<1>7. Page \ Safe(H, last) \subseteq Restored'
  BY <1>1, <1>4, <1>6 DEF Committing, Restored
<1>8. Synced(H, last)'
  BY <1>1, <1>2, <1>3, <1>7, SyncedStarts DEF IInv
<1>9. Typed'
  BY <1>2 DEF Types, Typed
<1>10. StateInv'
  BY <1>1, <1>2 DEF StateInv, InTransaction
<1>11. Coherence' /\ SyncedInv'
  BY <1>1, <1>2 DEF Coherence, SyncedInv
<1>12. LiveInv'
  BY <1>2, <1>3, <1>8 DEF LiveInv, SomeSynced
<1> QED BY <1>9, <1>10, <1>11, <1>12 DEF IInv

\* pager_unlock leaves the synced part of the journal for a hot playback.
LEMMA UnlockFine == ASSUME IInv, Types', Unlock PROVE IInv'
<1>1. Moved(jrn, jrn')
  <2>1. 0 \in 0 .. MaxPos
    BY Positions
  <2> QED BY <2>1 DEF Moved, IInv, Typed, Bounded, Journals, JournalsOf, Unlock
<1>2. Typed'
  BY <1>1 DEF Moved, IInv, Types, Typed, Bounded, Unlock, loopVars
<1>3. StateInv'
  BY DEF IInv, StateInv, InTransaction, Unlock, loopVars
<1>4. Coherence' /\ LiveInv'
  BY DEF Coherence, LiveInv, InTransaction, Unlock
<1>5. SyncedInv'
  <2>1. PICK H \in SUBSET Nat, last \in Nat : last \in H /\ Synced(H, last)
    BY DEF IInv, SyncedInv, SomeSynced, Unlock
  <2>2. Synced(H, last)'
    BY <1>1, <2>1 DEF Synced, Restorable, Unlock, Moved, Safe
  <2> QED BY <2>1, <2>2 DEF SyncedInv, SomeSynced
<1> QED BY <1>2, <1>3, <1>4, <1>5 DEF IInv

\* sqlite3PagerSharedLock finds it again.
LEMMA SharedLockFine == ASSUME IInv, Types', SharedLock PROVE IInv'
<1>1. /\ phase = "run" /\ StartPlayback(TRUE) /\ eState = "open" /\ eState' = "open"
      /\ UNCHANGED <<inJournal, dirty, needSync, committed, disk, mem, todo>>
  BY DEF SharedLock
<1>2. phase' = "playback" /\ hot' = TRUE /\ Bounded'
  BY <1>1, PlaybackAtStart DEF IInv
<1>3. Typed'
  BY <1>2 DEF Types, Typed
<1>4. StateInv'
  BY <1>1, <1>2 DEF IInv, StateInv, InTransaction
<1>5. Coherence' /\ LiveInv'
  BY <1>1, <1>2 DEF Coherence, LiveInv, InTransaction
<1>6. SyncedInv'
  <2>1. PICK H \in SUBSET Nat, last \in Nat : last \in H /\ Synced(H, last)
    BY <1>1 DEF IInv, SyncedInv, SomeSynced
  <2>2. mem = disk
    BY <1>1 DEF IInv, StateInv
  <2>3. Page \ Safe(H, last) \subseteq Restored'
    BY <1>1, <2>1, <2>2 DEF Synced, Restorable, Restored
  <2>4. Synced(H, last)'
    BY <1>1, <1>2, <2>1, <2>3, SyncedStarts DEF IInv
  <2> QED BY <2>1, <2>4 DEF SyncedInv, SomeSynced
<1> QED BY <1>3, <1>4, <1>5, <1>6 DEF IInv

------------------------------------------------------------------------------
(* The loops of pager_playback.                                             *)

\* A step of them: the journal stays as it is, and what the file and the cache
\* are given is what the transaction found.
PlaybackMoves ==
    /\ phase = "playback" /\ phase' = "playback"
    /\ Moved(jrn, jrn') /\ jrn'.hdr = jrn.hdr
    /\ eState' = eState /\ committed' = committed /\ dirty' = dirty
    /\ needSync' = needSync /\ inJournal' = inJournal /\ hot' = hot
    /\ \A p \in Page : disk'[p] \in {disk[p], committed[p]}
    /\ Restored \subseteq Restored'
    /\ eState = "cachemod" => disk' = disk
    /\ eState = "open" => mem' = disk'
    /\ left' \in 0 .. MaxPos

\* A running transaction is played back, or synced segments are.
LEMMA PlaybackCases ==
    ASSUME IInv, phase = "playback"
    PROVE  \/ eState # "open" /\ ~hot /\ \E H \in SUBSET Pos : Live(H)
           \/ \E H \in SUBSET Nat : \E last \in H : Synced(H, last)
BY DEF IInv, StateInv, LiveInv, SyncedInv, InTransaction, SomeLive, SomeSynced

\* A transaction is played back, in a step of this kind.
LEMMA LiveGoesOn ==
    ASSUME IInv, PlaybackMoves, NEW H \in SUBSET Pos, Live(H), LivePlayback(H)'
    PROVE  Live(H)'
<1>1. JournalHas(jrn', committed, H, inJournal)
  BY MovedHas DEF Live, PlaybackMoves
<1>2. \A p \in Waiting : disk'[p] = committed[p]
  <2>1. Waiting \subseteq inJournal /\ inJournal \subseteq Page
    BY TypeFacts DEF Live, JournalHas, Waiting, IInv
  <2> QED BY <2>1 DEF Live, PlaybackMoves
<1>3. Waiting' = Waiting /\ Safe(H, jrn.hdr)' = Safe(H, jrn.hdr)
  BY DEF Waiting, Safe, PlaybackMoves, Moved
<1>4. Page \ inJournal \subseteq Restored'
  BY DEF Live, PlaybackMoves
<1> QED BY <1>1, <1>2, <1>3, <1>4 DEF Live, PlaybackMoves, Moved

\* Synced segments are.
LEMMA SyncedGoesOn ==
    ASSUME IInv, PlaybackMoves, NEW H \in SUBSET Nat, NEW last \in H, Synced(H, last),
           Replaying(jrn, left, Restored, H, last, 0)'
    PROVE  Synced(H, last)'
<1>1. Safe(H, last)' = Safe(H, last) /\ Before(H, last)' = Before(H, last)
  BY DEF Safe, Before, PlaybackMoves, Moved
<1>2. SyncedPlayback(H, last)'
  BY <1>1 DEF SyncedPlayback, Synced, Restorable, PlaybackMoves, Moved
<1>3. \A p \in Page \ Safe(H, last) : disk'[p] = committed[p]
  BY DEF Synced, Restorable, PlaybackMoves
<1> QED BY <1>1, <1>2, <1>3 DEF Synced, Restorable, PlaybackMoves, Moved

\* Of a step of a playback it is enough to say where it leads.
LEMMA GoesOn ==
    ASSUME IInv, Types', PlaybackMoves,
           \A H \in SUBSET Pos : eState # "open" /\ Live(H) => LivePlayback(H)',
           \A H \in SUBSET Nat : \A last \in H :
              Synced(H, last) => Replaying(jrn, left, Restored, H, last, 0)'
    PROVE  IInv'
<1>1. Typed'
  BY DEF Types, Typed, Bounded, PlaybackMoves, Moved
<1>2. StateInv'
  BY DEF IInv, StateInv, InTransaction, PlaybackMoves, Moved
<1>3. Coherence'
  BY DEF Coherence, PlaybackMoves
<1>4. \A H \in SUBSET Nat : \A last \in H : Synced(H, last) => Synced(H, last)'
  BY SyncedGoesOn
<1>5. \A H \in SUBSET Pos : eState # "open" /\ Live(H) => Live(H)'
  BY LiveGoesOn
<1>6. LiveInv'
  <2> SUFFICES ASSUME InTransaction PROVE SomeLive' \/ SomeSynced'
    BY DEF LiveInv, InTransaction, PlaybackMoves
  <2>1. SomeLive \/ SomeSynced
    BY DEF IInv, LiveInv
  <2>2. SomeLive => SomeLive'
    BY <1>5 DEF SomeLive, InTransaction
  <2>3. SomeSynced => SomeSynced'
    BY <1>4 DEF SomeSynced
  <2> QED BY <2>1, <2>2, <2>3
<1>7. SyncedInv'
  BY <1>4 DEF SyncedInv, SomeSynced, PlaybackMoves, IInv, StateInv
<1> QED BY <1>1, <1>2, <1>3, <1>6, <1>7 DEF IInv

\* A unit that is in the file.
LEMMA CellInFile == \A i \in Pos : CellAt(i) = jrn.file[i]
BY DEF CellAt

\* readJournalHdr: the next segment is one of the chain.
LEMMA PlaybackHeaderFine == ASSUME IInv, Types', PlaybackHeader PROVE IInv'
<1> DEFINE h == NextHeader
<1>1. /\ phase = "playback" /\ left = 0 /\ HeaderThere
      /\ left' = IF CellAt(h).num = 0 /\ ~hot /\ h = jrn.hdr
                 THEN (jrn.size - (h + Sector)) \div Record
                 ELSE CellAt(h).num
      /\ jrn' = [jrn EXCEPT !.off = h + Sector, !.init = CellAt(h).init]
      /\ UNCHANGED <<eState, phase, committed, disk, mem, dirty, needSync, inJournal, hot>>
  BY DEF PlaybackHeader, InSegments
<1>2. /\ h = RoundUp(jrn.off) /\ h + Sector <= jrn.size
      /\ (hot \/ h # jrn.hdr) => HasMagic(CellAt(h))
  BY <1>1 DEF HeaderThere, NextHeader
<1> HIDE DEF h
<1>3. /\ jrn \in Journals /\ jrn.file \in [Pos -> Cells] /\ jrn.off \in Nat /\ jrn.hdr \in Nat
      /\ jrn.size \in Nat /\ jrn.size <= MaxPos /\ jrn.nRec \in Nat
  BY TypeFacts DEF IInv
<1>4. h \in Nat /\ h \in Pos /\ h + Sector \in 0 .. MaxPos
  <2>1. h \in Nat
    BY <1>2, <1>3, RoundUpMultiple
  <2> QED BY <1>2, <1>3, <2>1, Positions, SectorAssumption DEF Pos
<1>5. CellAt(h) = jrn.file[h] /\ jrn.file[h] \in Cells
  BY <1>3, <1>4, CellInFile
<1>6. /\ Moved(jrn, jrn') /\ jrn'.hdr = jrn.hdr /\ jrn'.off = h + Sector
      /\ jrn'.init = jrn.file[h].init
  BY <1>1, <1>3, <1>4, <1>5 DEF Journals, JournalsOf, Cells, CellsOf, Moved
<1>7. Restored' = Restored
  BY <1>1 DEF Restored
<1>8. ASSUME NEW H \in SUBSET Pos, eState # "open", Live(H)
      PROVE  LivePlayback(H)' /\ left' \in 0 .. MaxPos
  <2>1. JournalHas(jrn, committed, H, inJournal) /\ LivePlayback(H) /\ ~hot
    BY <1>1, <1>8 DEF Live, IInv, StateInv
  <2>2. /\ Chain(jrn.file, committed, H, jrn.hdr)
        /\ LastSegment(jrn.file, committed, jrn.hdr, jrn.nRec)
        /\ Slot(jrn.hdr, jrn.nRec) <= jrn.size
        /\ jrn.hdr \in H
    BY <2>1 DEF JournalHas, Chain
  <2> DEFINE linked == Links(jrn.file, committed, H, jrn.hdr)
  <2>3. linked
    BY <1>3, <2>2, ChainLinks
  <2>4. ~AtEnd(jrn, left, Restored, H, jrn.hdr, jrn.nRec)
    BY <1>2, <1>3, <1>4, SectorAssumption DEF AtEnd
  <2>5. ~InTail(jrn, left, Restored, H, jrn.hdr, jrn.nRec)
    BY <1>1 DEF InTail
  <2>6. ~AtRecord(jrn, left, Restored, H, jrn.hdr, jrn.nRec)
    BY <1>1, <1>3, <2>2, <2>3, RecordFound
  <2>7. AtHeader(jrn, left, Restored, H, jrn.hdr, jrn.nRec)
    BY <2>1, <2>4, <2>5, <2>6 DEF LivePlayback, Replaying
  <2>8. CASE h = jrn.hdr
    <3>1. jrn.file[h].num = 0
      BY <2>2, <2>8 DEF Chain
    <3>2. left' = (jrn.size - (jrn.hdr + Sector)) \div Record
      BY <1>1, <1>5, <2>1, <2>8, <3>1
    <3>3. jrn'.file = jrn.file /\ jrn'.size = jrn.size /\ jrn'.off = jrn.hdr + Sector
          /\ jrn'.init = jrn.file[jrn.hdr].init /\ jrn'.nRec = jrn.nRec
      BY <1>6, <2>8 DEF Moved
    <3>4. jrn.hdr = RoundUp(jrn.off)
      BY <1>2, <2>8
    <3>5. /\ left' \in Nat
          /\ \/ InTail(jrn', left', Restored, H, jrn.hdr, jrn.nRec)
             \/ AtEnd(jrn', left', Restored, H, jrn.hdr, jrn.nRec)
      BY <1>3, <2>2, <2>7, <3>2, <3>3, <3>4, LastHeaderPlayed
    <3>6. LivePlayback(H)'
      BY <1>6, <1>7, <3>3, <3>5 DEF LivePlayback
    <3>7. left' <= MaxPos
      <4> DEFINE rest == jrn.size - (h + Sector)
      <4>1. rest \in Nat /\ rest <= MaxPos
        <5>1. h + Sector \in Nat /\ MaxPos \in Nat
          BY <1>4, Positions, SectorAssumption
        <5> QED BY <1>2, <1>3, <5>1
      <4>2. left' = rest \div Record
        BY <2>8, <3>2
      <4> HIDE DEF rest
      <4>3. rest \div Record <= rest
        BY <4>1, SectorAssumption
      <4>4. rest \div Record \in Nat
        BY <4>1, SectorAssumption
      <4> QED BY <4>1, <4>2, <4>3, <4>4, Positions
    <3> QED BY <3>5, <3>6, <3>7
  <2>9. CASE h # jrn.hdr
    <3>1. left' = jrn.file[h].num
      BY <1>1, <1>5, <2>9
    <3>2. jrn'.file = jrn.file
      BY <1>6 DEF Moved
    <3>3. Replaying(jrn', jrn.file[h].num, Restored, H, jrn.hdr, jrn.nRec)
      BY <1>2, <1>3, <1>6, <2>2, <2>3, <2>7, <2>9, <3>2, HeaderPlayed
    <3>4. LivePlayback(H)'
      BY <1>6, <1>7, <3>1, <3>3 DEF LivePlayback, Moved
    <3>5. left' \in 0 .. MaxPos
      BY <1>5, <3>1, PagesFit, NPagesAssumption, Positions DEF Cells, CellsOf
    <3> QED BY <3>4, <3>5
  <2> QED BY <2>8, <2>9
<1>9. ASSUME NEW H \in SUBSET Nat, NEW last \in H, Synced(H, last)
      PROVE  Replaying(jrn, left, Restored, H, last, 0)' /\ left' \in 0 .. MaxPos
  <2>1. Links(jrn.file, committed, H, last) /\ SyncedPlayback(H, last)
    BY <1>1, <1>9 DEF Synced, Restorable
  <2>2. ~AtRecord(jrn, left, Restored, H, last, 0)
    BY <1>1, <1>3, <2>1, RecordFound
  <2>3. AtHeader(jrn, left, Restored, H, last, 0)
    BY <2>1, <2>2 DEF Replaying, SyncedPlayback
  <2>4. h # last
    BY <1>2, <1>5, <2>1 DEF SyncedPlayback
  <2>5. h \in H /\ jrn.file[h].num \in Nat
    BY <1>2, <1>5, <2>3, NPagesAssumption DEF AtHeader, Cells, CellsOf
  <2>6. h # jrn.hdr
    <3>1. Slot(h, jrn.file[h].num) <= jrn.hdr
      BY <2>1, <2>4, <2>5 DEF SyncedPlayback, Before
    <3>2. h + Sector <= Slot(h, jrn.file[h].num) /\ Slot(h, jrn.file[h].num) \in Nat
      BY <1>4, <2>5, SlotFacts
    <3> QED BY <1>3, <1>4, <3>1, <3>2, SectorAssumption
  <2>7. left' = jrn.file[h].num
    BY <1>1, <1>5, <2>6
  <2>8. jrn'.file = jrn.file
    BY <1>6 DEF Moved
  <2>9. Replaying(jrn', jrn.file[h].num, Restored, H, last, 0)
    <3>1. 0 \in Nat
      OBVIOUS
    <3> QED BY <1>2, <1>3, <1>6, <2>1, <2>3, <2>4, <2>8, <3>1, HeaderPlayed
  <2>10. left' \in 0 .. MaxPos
    BY <1>5, <2>7, PagesFit, NPagesAssumption, Positions DEF Cells, CellsOf
  <2> QED BY <1>7, <2>7, <2>9, <2>10
<1>10. left' \in 0 .. MaxPos
  BY <1>1, <1>8, <1>9, PlaybackCases
<1>11. PlaybackMoves
  BY <1>1, <1>6, <1>7, <1>10 DEF PlaybackMoves, IInv, StateInv
<1> QED BY <1>8, <1>9, <1>11, GoesOn

\* What a record of the transaction is read as.
LEMMA OriginalLoads ==
    ASSUME Typed, NEW p \in Page, Cell = Original(committed, p, jrn.init)
    PROVE  Applies /\ Cell.num = p /\ Loaded = committed[p]
<1>1. committed[p] \in [Part -> Value \cup {0}]
  BY TypeFacts DEF Database
<1>2. Cell.data = committed[p] /\ Cell.kind = "rec" /\ Cell.num = p
      /\ Cell.init = jrn.init /\ Cell.sample = Sample(committed[p])
  BY DEF Original
<1>3. \A k \in Part : Cell.data[k] # Hole
  BY <1>1, <1>2, ValueAssumption DEF Hole
<1>4. Loaded = committed[p]
  BY <1>1, <1>2, <1>3 DEF Loaded
<1> QED BY <1>2, <1>4 DEF Applies, ChecksumHolds

\* Where a playback reads a record.
AtSafe(H, last) ==
    /\ Cell.num \in Safe(H, last)
    /\ \E p \in Page : Cell = Original(committed, p, jrn.init)
    /\ jrn.off + Record <= jrn.hdr

\* In the records of a running transaction a playback is at a record the
\* transaction wrote, or behind them at one that does not have their seed.
LEMMA PlacesLive ==
    ASSUME IInv, InRecords, NEW H \in SUBSET Pos, Live(H)
    PROVE  /\ Chain(jrn.file, committed, H, jrn.hdr) /\ jrn.hdr \in H
           /\ Links(jrn.file, committed, H, jrn.hdr)
           /\ LastSegment(jrn.file, committed, jrn.hdr, jrn.nRec)
           /\ Slot(jrn.hdr, jrn.nRec) <= jrn.size
           /\ jrn.off \in Pos
           /\ jrn.off + Record \in 0 .. MaxPos
           /\ \/ /\ AtRecord(jrn, left, Restored, H, jrn.hdr, jrn.nRec)
                 /\ AtSafe(H, jrn.hdr)
              \/ /\ InTail(jrn, left, Restored, H, jrn.hdr, jrn.nRec)
                 /\ jrn.hdr < jrn.off
                 /\ \/ /\ Cell.num \in Waiting
                       /\ \E p \in Page : Cell = Original(committed, p, jrn.init)
                    \/ ~(Cell.kind = "rec" /\ Cell.init = jrn.init)
<1>1. /\ Chain(jrn.file, committed, H, jrn.hdr) /\ jrn.hdr \in H
      /\ LastSegment(jrn.file, committed, jrn.hdr, jrn.nRec)
      /\ Slot(jrn.hdr, jrn.nRec) <= jrn.size
      /\ LivePlayback(H)
  BY DEF Live, JournalHas, Chain, InRecords
<1>2. /\ jrn \in Journals /\ jrn.file \in [Pos -> Cells] /\ jrn.nRec \in Nat
      /\ jrn.size \in Nat /\ jrn.size <= MaxPos /\ left # 0 /\ jrn.off \in Nat
      /\ jrn.hdr \in Nat /\ jrn.hdr <= MaxPos
  BY TypeFacts DEF IInv, InRecords
<1>3. Links(jrn.file, committed, H, jrn.hdr)
  BY <1>1, <1>2, ChainLinks
<1>4. CASE AtRecord(jrn, left, Restored, H, jrn.hdr, jrn.nRec)
  <2>1. /\ jrn.off \in Pos /\ jrn.off + Record <= jrn.hdr
        /\ jrn.file[jrn.off].num \in Covered(jrn.file, H, jrn.hdr)
        /\ \E p \in Page : jrn.file[jrn.off] = Original(committed, p, jrn.init)
    BY <1>1, <1>2, <1>3, <1>4, RecordFound
  <2>2. AtSafe(H, jrn.hdr)
    BY <2>1, CellInFile DEF AtSafe, Cell, Safe
  <2>3. jrn.off + Record \in 0 .. MaxPos
    BY <1>2, <2>1, SectorAssumption, Positions
  <2> QED BY <1>1, <1>3, <1>4, <2>1, <2>2, <2>3
<1>5. CASE InTail(jrn, left, Restored, H, jrn.hdr, jrn.nRec)
  <2>1. /\ jrn.off \in Pos /\ jrn.hdr < jrn.off /\ jrn.off + Record <= jrn.size
        /\ \/ /\ jrn.file[jrn.off].num \in PagesIn(jrn.file, jrn.hdr, jrn.nRec)
              /\ \E p \in Page : jrn.file[jrn.off] = Original(committed, p, jrn.init)
           \/ ~(jrn.file[jrn.off].kind = "rec" /\ jrn.file[jrn.off].init = jrn.init)
    BY <1>1, <1>2, <1>5, TailFound
  <2>2. jrn.off + Record \in 0 .. MaxPos
    BY <1>2, <2>1, SectorAssumption, Positions
  <2> QED BY <1>1, <1>3, <1>5, <2>1, <2>2, CellInFile DEF Cell, Waiting
<1>6. ~AtHeader(jrn, left, Restored, H, jrn.hdr, jrn.nRec)
      /\ ~AtEnd(jrn, left, Restored, H, jrn.hdr, jrn.nRec)
  BY <1>2 DEF AtHeader, AtEnd
<1> QED BY <1>1, <1>4, <1>5, <1>6 DEF LivePlayback, Replaying

\* In the records of synced segments it is at one of the transaction's.
LEMMA PlacesSynced ==
    ASSUME IInv, InRecords, NEW H \in SUBSET Nat, NEW last \in H, Synced(H, last)
    PROVE  /\ Links(jrn.file, committed, H, last)
           /\ jrn.off \in Pos
           /\ jrn.off + Record \in 0 .. MaxPos
           /\ AtRecord(jrn, left, Restored, H, last, 0)
           /\ AtSafe(H, last)
<1>1. /\ Links(jrn.file, committed, H, last) /\ Replaying(jrn, left, Restored, H, last, 0)
      /\ Before(H, last)
  BY DEF Synced, Restorable, SyncedPlayback, InRecords
<1>2. /\ jrn.file \in [Pos -> Cells] /\ jrn.hdr \in Nat /\ jrn.hdr <= MaxPos
      /\ left # 0 /\ jrn.off \in Nat
  BY TypeFacts DEF IInv, InRecords
<1>3. AtRecord(jrn, left, Restored, H, last, 0)
  BY <1>1, <1>2 DEF Replaying, AtHeader
<1>4. /\ jrn.off \in Pos
      /\ \E h \in H \ {last} : jrn.off + Record <= Slot(h, jrn.file[h].num)
      /\ jrn.file[jrn.off].num \in Covered(jrn.file, H, last)
      /\ \E p \in Page : jrn.file[jrn.off] = Original(committed, p, jrn.init)
  BY <1>1, <1>2, <1>3, RecordFound
<1>5. jrn.off + Record <= jrn.hdr
  <2>1. PICK h \in H \ {last} : jrn.off + Record <= Slot(h, jrn.file[h].num)
    BY <1>4
  <2>2. h \in Pos /\ h \in Nat /\ jrn.file[h].num \in Nat
    BY <1>1, <1>2, LinkNumbers
  <2>3. Slot(h, jrn.file[h].num) \in Nat /\ Slot(h, jrn.file[h].num) <= jrn.hdr
    BY <1>1, <2>2, SlotFacts DEF Before
  <2> QED BY <1>2, <2>1, <2>3, SectorAssumption
<1>6. jrn.off + Record \in 0 .. MaxPos
  BY <1>2, <1>5, SectorAssumption, Positions
<1> QED BY <1>1, <1>3, <1>4, <1>5, <1>6, CellInFile DEF AtSafe, Cell, Safe

\* A record whose checksum fails ends the playback: it is none of the transaction,
\* and all that is the transaction's lies before it.
LEMMA PlaybackDoneFine == ASSUME IInv, Types', PlaybackDone PROVE IInv'
<1>1. /\ phase = "playback" /\ InRecords /\ left' = 0
      /\ jrn' = [jrn EXCEPT !.off = jrn.size]
      /\ UNCHANGED <<eState, phase, committed, disk, mem, dirty, needSync, inJournal, hot>>
  BY DEF PlaybackDone, InRecords
<1>2. ~\E p \in Page : Cell = Original(committed, p, jrn.init)
  <2> SUFFICES ASSUME NEW p \in Page, Cell = Original(committed, p, jrn.init) PROVE FALSE
    OBVIOUS
  <2>1. Applies
    BY OriginalLoads DEF IInv
  <2> QED BY <2>1 DEF Applies, PlaybackDone
<1>3. jrn \in Journals /\ Typed /\ jrn.nRec \in Nat
  BY TypeFacts DEF IInv
<1>4. Moved(jrn, jrn') /\ jrn'.hdr = jrn.hdr /\ jrn'.off = jrn.size
  BY <1>1, <1>3 DEF Journals, JournalsOf, Cells, Moved
<1>5. Restored' = Restored
  BY <1>1 DEF Restored
<1>6. ASSUME NEW H \in SUBSET Pos, eState # "open", Live(H)
      PROVE  LivePlayback(H)'
  <2>1. /\ Chain(jrn.file, committed, H, jrn.hdr) /\ jrn.hdr \in H
        /\ LastSegment(jrn.file, committed, jrn.hdr, jrn.nRec)
        /\ jrn.off \in Pos
        /\ InTail(jrn, left, Restored, H, jrn.hdr, jrn.nRec)
    BY <1>1, <1>2, <1>6, PlacesLive DEF AtSafe
  <2>2. jrn'.file = jrn.file /\ jrn'.size = jrn.size /\ jrn'.nRec = jrn.nRec
    BY <1>4 DEF Moved
  <2>3. ~\E p \in Page : jrn.file[jrn.off] = Original(committed, p, jrn.init)
    BY <1>2, <2>1, CellInFile DEF Cell
  <2>4. AtEnd(jrn', 0, Restored, H, jrn.hdr, jrn.nRec)
    BY <1>3, <1>4, <2>1, <2>2, <2>3, TailLeft
  <2> QED BY <1>1, <1>4, <1>5, <2>2, <2>4 DEF LivePlayback
<1>7. \A H \in SUBSET Nat : \A last \in H : ~Synced(H, last)
  BY <1>1, <1>2, PlacesSynced DEF AtSafe
<1>8. eState # "open"
  BY <1>1, <1>7, PlaybackCases
<1>9. PlaybackMoves
  <2>1. 0 \in 0 .. MaxPos
    BY Positions
  <2> QED BY <1>1, <1>4, <1>5, <1>8, <2>1 DEF PlaybackMoves
<1> QED BY <1>6, <1>7, <1>9, GoesOn

\* What has a page number beyond the database is none of the transaction.
LEMMA PlaybackSkipFine == ASSUME IInv, Types', PlaybackSkip PROVE IInv'
<1>1. /\ phase = "playback" /\ InRecords /\ left' = left - 1 /\ left > 0
      /\ jrn' = [jrn EXCEPT !.off = @ + Record]
      /\ UNCHANGED <<eState, phase, committed, disk, mem, dirty, needSync, inJournal, hot>>
  BY DEF PlaybackSkip, InRecords
<1>2. ~\E p \in Page : Cell = Original(committed, p, jrn.init)
  <2> SUFFICES ASSUME NEW p \in Page, Cell = Original(committed, p, jrn.init) PROVE FALSE
    OBVIOUS
  <2>1. Applies
    BY OriginalLoads DEF IInv
  <2> QED BY <2>1 DEF Applies, PlaybackSkip, HasMagic
<1>3. jrn \in Journals /\ Typed /\ jrn.nRec \in Nat /\ left \in Nat /\ left <= MaxPos
  BY TypeFacts DEF IInv
<1>4. Restored' = Restored
  BY <1>1 DEF Restored
<1>5. ASSUME NEW H \in SUBSET Pos, eState # "open", Live(H)
      PROVE  /\ LivePlayback(H)'
             /\ Moved(jrn, jrn') /\ jrn'.hdr = jrn.hdr
  <2>1. /\ Chain(jrn.file, committed, H, jrn.hdr) /\ jrn.hdr \in H
        /\ LastSegment(jrn.file, committed, jrn.hdr, jrn.nRec)
        /\ Slot(jrn.hdr, jrn.nRec) <= jrn.size
        /\ jrn.off \in Pos
        /\ jrn.off + Record \in 0 .. MaxPos
        /\ InTail(jrn, left, Restored, H, jrn.hdr, jrn.nRec)
    BY <1>1, <1>2, <1>5, PlacesLive DEF AtSafe
  <2>2. Moved(jrn, jrn') /\ jrn'.hdr = jrn.hdr /\ jrn'.off = jrn.off + Record
        /\ jrn'.init = jrn.init
    BY <1>1, <1>3, <2>1 DEF Journals, JournalsOf, Cells, Moved
  <2>3. jrn'.file = jrn.file /\ jrn'.size = jrn.size /\ jrn'.nRec = jrn.nRec
    BY <2>2 DEF Moved
  <2>4. (\E p \in Page : jrn.file[jrn.off] = Original(committed, p, jrn.init)) =>
           jrn.file[jrn.off].num \in Restored
    BY <1>2, <2>1, CellInFile DEF Cell
  <2>5. \/ InTail(jrn', left - 1, Restored, H, jrn.hdr, jrn.nRec)
        \/ AtEnd(jrn', left - 1, Restored, H, jrn.hdr, jrn.nRec)
    BY <1>3, <2>1, <2>2, <2>3, <2>4, TailPlayed
  <2> QED BY <1>1, <1>4, <2>2, <2>3, <2>5 DEF LivePlayback
<1>6. \A H \in SUBSET Nat : \A last \in H : ~Synced(H, last)
  BY <1>1, <1>2, PlacesSynced DEF AtSafe
<1>7. eState # "open" /\ Moved(jrn, jrn') /\ jrn'.hdr = jrn.hdr
  BY <1>1, <1>5, <1>6, PlaybackCases
<1>8. left' \in 0 .. MaxPos
  BY <1>1, <1>3, Positions
<1>9. PlaybackMoves
  BY <1>1, <1>4, <1>7, <1>8 DEF PlaybackMoves
<1> QED BY <1>5, <1>6, <1>9, GoesOn

\* The page of a record becomes what the transaction found.
LEMMA RecordRestores ==
    ASSUME IInv, PlaybackRecord
    PROVE  /\ Cell.num \in Page /\ Loaded = committed[Cell.num]
           /\ disk'[Cell.num] = committed[Cell.num] /\ mem'[Cell.num] = committed[Cell.num]
           /\ jrn.off \in Pos /\ jrn.off + Record \in 0 .. MaxPos
<1>1. /\ phase = "playback" /\ InRecords /\ Applies
      /\ disk' = IF WritesDatabase THEN [disk EXCEPT ![Cell.num] = Loaded] ELSE disk
      /\ \E cached \in BOOLEAN :
            mem' = [mem EXCEPT ![Cell.num] = IF cached THEN Loaded ELSE disk'[Cell.num]]
  BY DEF PlaybackRecord, InRecords
<1>2. Typed /\ disk \in Database /\ mem \in Database
  BY TypeFacts DEF IInv
<1>3. ASSUME NEW H, NEW last, AtSafe(H, last)
      PROVE  WritesDatabase \/ disk[Cell.num] = committed[Cell.num]
  <2>1. eState \in {"cachemod", "dbmod", "open"} /\ (eState = "cachemod" => disk = committed)
    BY <1>1 DEF IInv, StateInv
  <2> QED BY <1>3, <2>1 DEF AtSafe, WritesDatabase
<1>4. ASSUME NEW H \in SUBSET Pos, eState # "open", Live(H)
      PROVE  /\ \E p \in Page : Cell = Original(committed, p, jrn.init)
             /\ WritesDatabase \/ disk[Cell.num] = committed[Cell.num]
             /\ jrn.off \in Pos /\ jrn.off + Record \in 0 .. MaxPos
  <2>1. jrn.off \in Pos /\ jrn.off + Record \in 0 .. MaxPos
    BY <1>1, <1>4, PlacesLive
  <2>2. CASE AtSafe(H, jrn.hdr)
    BY <1>3, <2>1, <2>2 DEF AtSafe
  <2>3. CASE Cell.num \in Waiting /\ \E p \in Page : Cell = Original(committed, p, jrn.init)
    BY <1>4, <2>1, <2>3 DEF Live
  <2>4. CASE ~(Cell.kind = "rec" /\ Cell.init = jrn.init)
    BY <1>1, <2>4 DEF Applies, ChecksumHolds
  <2> QED BY <1>1, <1>4, <2>2, <2>3, <2>4, PlacesLive
<1>5. ASSUME NEW H \in SUBSET Nat, NEW last \in H, Synced(H, last)
      PROVE  /\ \E p \in Page : Cell = Original(committed, p, jrn.init)
             /\ WritesDatabase \/ disk[Cell.num] = committed[Cell.num]
             /\ jrn.off \in Pos /\ jrn.off + Record \in 0 .. MaxPos
  <2>1. AtSafe(H, last) /\ jrn.off \in Pos /\ jrn.off + Record \in 0 .. MaxPos
    BY <1>1, <1>5, PlacesSynced
  <2> QED BY <1>3, <2>1 DEF AtSafe
<1>6. /\ \E p \in Page : Cell = Original(committed, p, jrn.init)
      /\ WritesDatabase \/ disk[Cell.num] = committed[Cell.num]
      /\ jrn.off \in Pos /\ jrn.off + Record \in 0 .. MaxPos
  BY <1>1, <1>4, <1>5, PlaybackCases
<1>7. PICK p \in Page : Cell = Original(committed, p, jrn.init)
  BY <1>6
<1>8. Cell.num = p /\ Loaded = committed[p]
  BY <1>2, <1>7, OriginalLoads
<1>9. disk'[p] = committed[p]
  BY <1>1, <1>2, <1>6, <1>8 DEF Database
<1>10. mem'[p] = committed[p]
  BY <1>1, <1>2, <1>8, <1>9 DEF Database
<1> QED BY <1>6, <1>8, <1>9, <1>10

\* pager_playback_one_page: one more page is restored.
LEMMA PlaybackRecordFine == ASSUME IInv, Types', PlaybackRecord PROVE IInv'
<1> DEFINE p == Cell.num
<1>1. /\ phase = "playback" /\ InRecords /\ left' = left - 1 /\ left > 0
      /\ jrn' = [jrn EXCEPT !.off = @ + Record]
      /\ disk' = IF WritesDatabase THEN [disk EXCEPT ![p] = Loaded] ELSE disk
      /\ \E cached \in IF hot THEN {FALSE} ELSE IF p \in dirty THEN {TRUE} ELSE BOOLEAN :
            mem' = [mem EXCEPT ![p] = IF cached THEN Loaded ELSE disk'[p]]
      /\ UNCHANGED <<eState, phase, committed, dirty, needSync, inJournal, hot>>
  BY DEF PlaybackRecord, InRecords
<1>2. /\ p \in Page /\ disk'[p] = committed[p] /\ mem'[p] = committed[p]
      /\ jrn.off \in Pos /\ jrn.off + Record \in 0 .. MaxPos
  BY RecordRestores
<1>3. /\ jrn \in Journals /\ Typed /\ disk \in Database /\ mem \in Database
      /\ left \in Nat /\ left <= MaxPos /\ jrn.file \in [Pos -> Cells] /\ jrn.nRec \in Nat
  BY TypeFacts DEF IInv
<1>4. jrn.file[jrn.off].num = p
  BY <1>2, CellInFile DEF Cell
<1> HIDE DEF p
<1>5. \A q \in Page \ {p} : disk'[q] = disk[q] /\ mem'[q] = mem[q]
  BY <1>1, <1>3 DEF Database
<1>6. Restored \subseteq Restored' /\ p \in Restored' /\ committed' = committed
  BY <1>1, <1>2, <1>5 DEF Restored
<1>7. Moved(jrn, jrn') /\ jrn'.hdr = jrn.hdr /\ jrn'.off = jrn.off + Record
      /\ jrn'.init = jrn.init
  BY <1>1, <1>2, <1>3 DEF Journals, JournalsOf, Cells, Moved
<1>8. jrn'.file = jrn.file /\ jrn'.size = jrn.size /\ jrn'.nRec = jrn.nRec
  BY <1>7 DEF Moved
<1>9. jrn.file[jrn.off].num \in Restored'
  BY <1>4, <1>6
<1>10. ASSUME NEW H \in SUBSET Pos, eState # "open", Live(H)
       PROVE  LivePlayback(H)'
  <2>1. /\ Chain(jrn.file, committed, H, jrn.hdr) /\ jrn.hdr \in H
        /\ Links(jrn.file, committed, H, jrn.hdr)
        /\ LastSegment(jrn.file, committed, jrn.hdr, jrn.nRec)
        /\ Slot(jrn.hdr, jrn.nRec) <= jrn.size
        /\ \/ AtRecord(jrn, left, Restored, H, jrn.hdr, jrn.nRec)
           \/ InTail(jrn, left, Restored, H, jrn.hdr, jrn.nRec)
    BY <1>1, <1>10, PlacesLive
  <2>2. CASE AtRecord(jrn, left, Restored, H, jrn.hdr, jrn.nRec)
    <3>1. Replaying(jrn', left - 1, Restored', H, jrn.hdr, jrn.nRec)
      BY <1>3, <1>6, <1>7, <1>8, <1>9, <2>1, <2>2, RecordPlayed
    <3> QED BY <1>1, <1>7, <1>8, <3>1 DEF LivePlayback
  <2>3. CASE InTail(jrn, left, Restored, H, jrn.hdr, jrn.nRec)
    <3>1. \/ InTail(jrn', left - 1, Restored', H, jrn.hdr, jrn.nRec)
          \/ AtEnd(jrn', left - 1, Restored', H, jrn.hdr, jrn.nRec)
      BY <1>3, <1>6, <1>7, <1>8, <1>9, <2>1, <2>3, TailPlayed
    <3> QED BY <1>1, <1>7, <1>8, <3>1 DEF LivePlayback
  <2> QED BY <2>1, <2>2, <2>3
<1>11. ASSUME NEW H \in SUBSET Nat, NEW last \in H, Synced(H, last)
       PROVE  Replaying(jrn, left, Restored, H, last, 0)'
  <2>1. /\ Links(jrn.file, committed, H, last)
        /\ AtRecord(jrn, left, Restored, H, last, 0)
    BY <1>1, <1>11, PlacesSynced
  <2>2. Replaying(jrn', left - 1, Restored', H, last, 0)
    <3>1. 0 \in Nat
      OBVIOUS
    <3> QED BY <1>3, <1>6, <1>7, <1>8, <1>9, <2>1, <3>1, RecordPlayed
  <2> QED BY <1>1, <2>2
<1>12. PlaybackMoves
  <2>1. left' \in 0 .. MaxPos
    BY <1>1, <1>3, Positions
  <2>2. eState = "cachemod" => disk' = disk
    BY <1>1 DEF WritesDatabase
  <2>3. eState = "open" => mem' = disk'
    <3> SUFFICES ASSUME eState = "open" PROVE mem' = disk'
      OBVIOUS
    <3>1. mem = disk
      BY DEF IInv, StateInv
    <3>2. \A q \in Page : mem'[q] = disk'[q]
      BY <1>2, <1>5, <3>1
    <3>3. disk' \in Database /\ mem' \in Database
      BY DEF Types, PagerTypes
    <3> QED BY <3>2, <3>3 DEF Database
  <2>4. \A q \in Page : disk'[q] \in {disk[q], committed[q]}
    BY <1>2, <1>5
  <2> QED BY <1>1, <1>6, <1>7, <2>1, <2>2, <2>3, <2>4 DEF PlaybackMoves
<1> QED BY <1>10, <1>11, <1>12, GoesOn

\* The synced segments of a transaction that is under way.
LEMMA LiveRestorable ==
    ASSUME Typed, NEW H \in SUBSET Pos, Live(H)
    PROVE  jrn.hdr \in H /\ Restorable(H, jrn.hdr)
<1>1. /\ Chain(jrn.file, committed, H, jrn.hdr) /\ jrn.hdr \in H
      /\ Slot(jrn.hdr, jrn.nRec) <= jrn.size
      /\ inJournal = Safe(H, jrn.hdr) \cup Waiting
  BY DEF Live, JournalHas, Chain, Safe, Waiting
<1>2. /\ jrn.file \in [Pos -> Cells] /\ jrn.hdr \in Nat /\ jrn.nRec \in Nat /\ jrn.size \in Nat
  BY TypeFacts
<1>3. Links(jrn.file, committed, H, jrn.hdr)
  BY <1>1, <1>2, ChainLinks
<1>4. jrn.hdr <= jrn.size
  <2>1. jrn.hdr + Sector <= Slot(jrn.hdr, jrn.nRec) /\ Slot(jrn.hdr, jrn.nRec) \in Nat
    BY <1>2, SlotFacts
  <2> QED BY <1>1, <1>2, <2>1, SectorAssumption
<1>5. ~HasMagic(jrn.file[jrn.hdr])
  BY <1>1 DEF Chain, HasMagic
<1>6. \A h \in H \ {jrn.hdr} : Slot(h, jrn.file[h].num) <= jrn.size
  <2> SUFFICES ASSUME NEW h \in H \ {jrn.hdr} PROVE Slot(h, jrn.file[h].num) <= jrn.size
    OBVIOUS
  <2>1. h \in Nat /\ jrn.file[h].num \in Nat /\ Slot(h, jrn.file[h].num) <= jrn.hdr
    BY <1>2, <1>3, LinkNumbers
  <2>2. Slot(h, jrn.file[h].num) \in Nat
    BY <2>1, SlotFacts
  <2> QED BY <1>2, <1>4, <2>1, <2>2
<1>7. \A q \in Page \ Safe(H, jrn.hdr) : disk[q] = committed[q]
  BY <1>1 DEF Live, Restored
<1>8. SectorClosed(Safe(H, jrn.hdr))
  BY DEF Live
<1> QED BY <1>1, <1>3, <1>5, <1>6, <1>7, <1>8 DEF Restorable

\* A page that fails to be written damages no page outside its sector: what is
\* synced restores what it damages.
LEMMA DamageRestorable ==
    ASSUME NEW p, NEW content, disk' \in Damaged(p, content),
           committed' = committed, jrn' = jrn,
           NEW H, NEW last, Restorable(H, last), p \in Safe(H, last)
    PROVE  Restorable(H, last)'
<1>1. SectorOf(p) \subseteq Safe(H, last)
  BY DEF Restorable, SectorClosed
<1>2. \A q \in Page \ Safe(H, last) : disk'[q] = committed[q]
  BY <1>1 DEF Damaged, Restorable
<1>3. Safe(H, last)' = Safe(H, last)
  BY DEF Safe
<1> QED BY <1>2, <1>3 DEF Restorable

\* A failed write damages pages that are all in synced segments.
LEMMA PlaybackFailsFine == ASSUME IInv, Types', PlaybackFails PROVE IInv'
<1>1. /\ phase = "playback" /\ InRecords /\ Applies /\ WritesDatabase
      /\ disk' \in Damaged(Cell.num, Loaded)
      /\ left' = 0 /\ hot' = FALSE /\ phase' = "run" /\ eState' = "error"
      /\ committed' = committed /\ jrn' = jrn
  BY DEF PlaybackFails, InRecords
<1>2. Typed /\ jrn.hdr \in Nat
  BY TypeFacts DEF IInv
<1>3. ASSUME NEW H \in SUBSET Pos, eState # "open", Live(H)
      PROVE  SomeSynced'
  <2>1. jrn.off \in Pos /\ (AtSafe(H, jrn.hdr) \/ jrn.hdr < jrn.off)
    BY <1>1, <1>3, PlacesLive
  <2>2. jrn.off + Record <= jrn.hdr /\ jrn.off \in Nat
    BY <1>1, <2>1, Positions DEF WritesDatabase
  <2>3. AtSafe(H, jrn.hdr)
    BY <1>2, <2>1, <2>2, SectorAssumption
  <2>4. jrn.hdr \in H /\ Restorable(H, jrn.hdr)
    BY <1>2, <1>3, LiveRestorable
  <2>5. PICK last \in H : last = jrn.hdr
    BY <2>4
  <2>6. Restorable(H, last)'
    BY <1>1, <2>3, <2>4, <2>5, DamageRestorable DEF AtSafe
  <2>7. Synced(H, last)'
    BY <1>1, <2>6 DEF Synced
  <2>8. H \in SUBSET Nat
    BY Positions
  <2> QED BY <2>7, <2>8 DEF SomeSynced
<1>4. ASSUME NEW H \in SUBSET Nat, NEW last \in H, Synced(H, last)
      PROVE  SomeSynced'
  <2>1. AtSafe(H, last)
    BY <1>1, <1>4, PlacesSynced
  <2>2. Restorable(H, last)'
    BY <1>1, <1>4, <2>1, DamageRestorable DEF AtSafe, Synced
  <2>3. Synced(H, last)'
    BY <1>1, <2>2 DEF Synced
  <2> QED BY <2>3 DEF SomeSynced
<1>5. SomeSynced'
  BY <1>1, <1>3, <1>4, PlaybackCases
<1>6. Typed'
  <2>1. 0 \in 0 .. MaxPos
    BY Positions
  <2> QED BY <1>1, <1>2, <2>1 DEF Types, Typed, Bounded
<1>7. StateInv'
  BY <1>1 DEF StateInv, InTransaction
<1>8. Coherence' /\ LiveInv'
  BY <1>1 DEF Coherence, LiveInv, InTransaction
<1>9. SyncedInv'
  BY <1>5 DEF SyncedInv
<1> QED BY <1>6, <1>7, <1>8, <1>9 DEF IInv

\* When no further header is read, everything is restored.
LEMMA PlaybackEndFine == ASSUME IInv, Types', PlaybackEnd PROVE IInv'
<1>1. /\ phase = "playback" /\ left = 0 /\ ~HeaderThere
      /\ phase' = "run" /\ hot' = FALSE
      /\ EndTransaction
      /\ UNCHANGED <<committed, disk, mem, left>>
  BY DEF PlaybackEnd, InSegments
<1>2. /\ jrn \in Journals /\ Typed /\ jrn.file \in [Pos -> Cells] /\ jrn.nRec \in Nat
      /\ jrn.hdr \in Nat /\ jrn.size \in Nat /\ jrn.size <= MaxPos
  BY TypeFacts DEF IInv
<1>3. ASSUME NEW H \in SUBSET Pos, eState # "open", ~hot, Live(H)
      PROVE  Page \subseteq Restored
  <2>1. /\ JournalHas(jrn, committed, H, inJournal) /\ LivePlayback(H)
        /\ Page \ inJournal \subseteq Restored
    BY <1>1, <1>3 DEF Live
  <2>2. /\ Chain(jrn.file, committed, H, jrn.hdr)
        /\ Slot(jrn.hdr, jrn.nRec) <= jrn.size
        /\ inJournal = Covered(jrn.file, H, jrn.hdr) \cup PagesIn(jrn.file, jrn.hdr, jrn.nRec)
        /\ jrn.hdr \in H
    BY <2>1 DEF JournalHas, Chain
  <2>3. Links(jrn.file, committed, H, jrn.hdr)
    BY <1>2, <2>2, ChainLinks
  <2>4. ~AtHeader(jrn, left, Restored, H, jrn.hdr, jrn.nRec)
    <3> SUFFICES ASSUME RoundUp(jrn.off) \in H PROVE HeaderThere
      BY <1>1 DEF AtHeader
    <3>1. jrn.hdr + Sector <= jrn.size
      <4>1. jrn.hdr + Sector <= Slot(jrn.hdr, jrn.nRec) /\ Slot(jrn.hdr, jrn.nRec) \in Nat
        BY <1>2, SlotFacts
      <4> QED BY <1>2, <2>2, <4>1, SectorAssumption
    <3>2. CASE RoundUp(jrn.off) = jrn.hdr
      BY <1>3, <3>1, <3>2 DEF HeaderThere, NextHeader
    <3>3. CASE RoundUp(jrn.off) # jrn.hdr
      <4>1. RoundUp(jrn.off) + Sector <= jrn.hdr /\ HasMagic(jrn.file[RoundUp(jrn.off)])
        BY <1>2, <2>2, <2>3, <3>3, HeaderIsThere
      <4>2. RoundUp(jrn.off) \in Nat
        BY Positions
      <4>3. RoundUp(jrn.off) + Sector <= jrn.size
        BY <1>2, <3>1, <4>1, <4>2, SectorAssumption
      <4> QED BY <4>1, <4>3, CellInFile DEF HeaderThere, NextHeader
    <3> QED BY <3>2, <3>3
  <2>5. ~AtRecord(jrn, left, Restored, H, jrn.hdr, jrn.nRec)
    BY <1>1, <1>2, <2>2, <2>3, RecordFound
  <2>6. ~InTail(jrn, left, Restored, H, jrn.hdr, jrn.nRec)
    BY <1>1 DEF InTail
  <2>7. RestoredBefore(jrn.file, Restored, H, jrn.hdr, jrn.nRec, jrn.size)
    BY <2>1, <2>4, <2>5, <2>6 DEF LivePlayback, Replaying, AtEnd
  <2>8. inJournal \subseteq Restored
    BY <1>2, <2>2, <2>3, <2>7, AllRestored
  <2> QED BY <2>1, <2>8
<1>4. ASSUME NEW H \in SUBSET Nat, NEW last \in H, Synced(H, last)
      PROVE  Page \subseteq Restored
  <2>1. /\ Links(jrn.file, committed, H, last) /\ Replaying(jrn, left, Restored, H, last, 0)
        /\ Page \ Safe(H, last) \subseteq Restored
        /\ \A h \in H \ {last} : Slot(h, jrn.file[h].num) <= jrn.size
    BY <1>1, <1>4 DEF Synced, Restorable, SyncedPlayback
  <2>2. ~AtRecord(jrn, left, Restored, H, last, 0)
    BY <1>1, <1>2, <2>1, RecordFound
  <2>3. AtHeader(jrn, left, Restored, H, last, 0)
    BY <2>1, <2>2 DEF Replaying
  <2>4. RoundUp(jrn.off) = last
    <3> SUFFICES ASSUME RoundUp(jrn.off) # last PROVE HeaderThere
      BY <1>1
    <3> DEFINE h == RoundUp(jrn.off)
    <3>1. h \in H \ {last}
      BY <2>3 DEF AtHeader
    <3>2. h \in Nat /\ h \in Pos /\ HasMagic(jrn.file[h]) /\ jrn.file[h].num \in Nat
      BY <1>2, <2>1, <3>1, LinkNumbers
    <3>3. h + Sector <= jrn.size
      <4>1. h + Sector <= Slot(h, jrn.file[h].num) /\ Slot(h, jrn.file[h].num) \in Nat
        BY <3>2, SlotFacts
      <4>2. Slot(h, jrn.file[h].num) <= jrn.size
        BY <2>1, <3>1
      <4> HIDE DEF h
      <4> QED BY <1>2, <3>2, <4>1, <4>2, SectorAssumption
    <3> QED BY <3>2, <3>3, CellInFile DEF HeaderThere, NextHeader
  <2>5. RestoredBefore(jrn.file, Restored, H, last, 0, last + Sector)
    BY <2>3, <2>4 DEF AtHeader
  <2>6. last \in Nat /\ Slot(last, 0) = last + Sector /\ last + Sector \in Nat
    BY SlotFacts, SectorAssumption
  <2>7. Slot(last, 0) <= last + Sector /\ 0 \in Nat
    BY <2>6
  <2>8. Covered(jrn.file, H, last) \subseteq Restored
    BY <1>2, <2>1, <2>5, <2>6, <2>7, AllRestored
  <2> QED BY <2>1, <2>8 DEF Safe
<1>5. Page \subseteq Restored
  BY <1>1, <1>3, <1>4, PlaybackCases
<1>6. disk = committed /\ mem = committed
  <2>1. disk \in Database /\ mem \in Database /\ committed \in Database
    BY <1>2, TypeFacts
  <2> QED BY <1>5, <2>1 DEF Restored, Database
<1>7. Bounded'
  <2>1. jrn' \in Journals
    BY <1>1, <1>2, EndedType DEF EndTransaction
  <2> QED BY <1>1, <1>2, <2>1 DEF Typed, Bounded
<1>8. Quiet'
  BY <1>1, <1>6 DEF Quiet, EndTransaction
<1> QED BY <1>7, <1>8, QuietNext


------------------------------------------------------------------------------
(* A page is made writable.                                                 *)

\* Journal j, ready for the next record of the transaction.
Ready(j, H) ==
    /\ j \in Journals
    /\ JournalHolds(j, committed, H, inJournal)
    /\ SectorClosed(Covered(j.file, H, j.hdr))
    /\ SectorClosed(inJournal)
    /\ PagesIn(j.file, j.hdr, j.nRec) \subseteq needSync
    /\ needSync # {} => j.nRec # 0
    /\ Page \ inJournal \subseteq Restored
    /\ \A p \in PagesIn(j.file, j.hdr, j.nRec) : disk[p] = committed[p]

\* While nothing is played back, Live says of the journal what Ready does.
LEMMA ReadyLive ==
    \A H \in SUBSET Pos : phase = "run" /\ jrn \in Journals => (Live(H) <=> Ready(jrn, H))
BY DEF Live, Ready, JournalHolds, Waiting, Safe

\* pager_open_journal makes it ready for the first record.
LEMMA OpenedReady ==
    ASSUME IInv, phase = "run", eState \in {"locked", "cachemod", "dbmod"}
    PROVE  /\ OpenedJournal \in Journals
           /\ \E H \in SUBSET Pos : Ready(OpenedJournal, H)
           /\ eState # "locked" => OpenedJournal = jrn
<1>1. jrn \in Journals
  BY TypeFacts DEF IInv
<1>2. CASE eState = "locked"
  <2>1. /\ disk = committed /\ mem = committed /\ needSync = {} /\ inJournal = {}
    BY <1>2 DEF IInv, StateInv
  <2> DEFINE w == OpenedJournal
  <2>2. w = WriteHeader([jrn EXCEPT !.nRec = 0, !.off = 0, !.hdr = 0])
    BY <1>2 DEF OpenedJournal
  <2> HIDE DEF w
  <2>3. /\ w \in Journals /\ w.hdr = 0 /\ w.nRec = 0
        /\ JournalHolds(w, committed, {0}, {})
        /\ Covered(w.file, {0}, 0) = {}
        /\ PagesIn(w.file, 0, 0) = {}
    BY <1>1, <2>2, JournalOpened
  <2>4. {0} \in SUBSET Pos
    BY Positions
  <2>5. Ready(w, {0})
    BY <2>1, <2>3 DEF Ready, SectorClosed, Restored
  <2> QED BY <1>2, <2>3, <2>4, <2>5 DEF w
<1>3. CASE eState # "locked"
  <2>1. OpenedJournal = jrn
    BY <1>3 DEF OpenedJournal
  <2>2. PICK H \in SUBSET Pos : Live(H)
    BY <1>3 DEF IInv, LiveInv, InTransaction, SomeLive
  <2>3. Ready(jrn, H)
    BY <1>1, <2>2, ReadyLive
  <2> QED BY <1>1, <2>1, <2>3
<1> QED BY <1>2, <1>3

\* Pages are in one sector together or not at all.
LEMMA Sectors ==
    ASSUME NEW p \in Page
    PROVE  /\ p \in SectorOf(p) /\ SectorOf(p) \subseteq Page
           /\ \A q \in SectorOf(p) : SectorOf(q) = SectorOf(p)
BY DEF SectorOf

\* Journal w: j with the pages that p's becoming writable adds, S in all.
Added(j, w, H, S, p) ==
    /\ w \in Journals /\ S \subseteq Page
    /\ JournalHolds(w, committed, H, S)
    /\ SectorClosed(Covered(w.file, H, w.hdr))
    /\ SectorClosed(S)
    /\ PagesIn(w.file, w.hdr, w.nRec) \subseteq needSync \cup Flagged(p)
    /\ needSync \cup Flagged(p) # {} => w.nRec # 0
    /\ \A q \in PagesIn(w.file, w.hdr, w.nRec) : disk[q] = committed[q]
    /\ p \notin inJournal \/ j.nRec # 0 => w.nRec # 0
    /\ Touched(p) \subseteq S

\* Before a page is written, it and those of its sector that are needed are in
\* the journal as the transaction found them, if no part of them is lost.
LEMMA Journalled ==
    ASSUME IInv, NEW H \in SUBSET Pos, NEW j, Ready(j, H), NEW p \in Page,
           NEW stop, Whole(j, ToJournal(p), mem, stop)
    PROVE  Added(j, AddRecords(j, ToJournal(p), mem, stop), H, inJournal \cup ToJournal(p), p)
<1> SUFFICES ASSUME NEW w, w = AddRecords(j, ToJournal(p), mem, stop),
                    NEW S, S = inJournal \cup ToJournal(p)
             PROVE  Added(j, w, H, S, p)
  OBVIOUS
<1> DEFINE pages == ToJournal(p)
<1>1. /\ pages \in SUBSET Page /\ pages \subseteq SectorOf(p) /\ pages \cap inJournal = {}
      /\ SectorOf(p) \subseteq S /\ p \in S /\ Touched(p) \subseteq S
  BY Sectors DEF ToJournal, Touched
<1>2. /\ inJournal \in SUBSET Page /\ mem \in Database /\ committed \in Database
  BY TypeFacts DEF IInv
<1>3. \A q \in pages : mem[q] = committed[q] /\ disk[q] = committed[q]
  BY <1>1 DEF Ready, Restored
<1>4. /\ j \in Journals /\ JournalHolds(j, committed, H, inJournal) /\ j.nRec \in Nat
  BY NPagesAssumption DEF Ready, Journals, JournalsOf, Cells
<1>5. Cardinality(pages) \in Nat /\ (pages # {} => Cardinality(pages) # 0)
  <2>1. IsFiniteSet(pages) /\ Cardinality(pages) \in Nat
    BY <1>1, Ranks
  <2> HIDE DEF pages
  <2> QED BY <2>1, FS_EmptySet
<1>6. /\ w = AddRecords(j, pages, mem, stop) /\ S = inJournal \cup pages
      /\ Whole(j, pages, mem, stop)
  OBVIOUS
<1>7. pages = ToJournal(p)
  OBVIOUS
<1> HIDE DEF pages
<1>8. \A q \in pages : mem[q] = committed[q]
  BY <1>3
<1>9. /\ w \in Journals /\ w.hdr = j.hdr
      /\ w.nRec = j.nRec + Cardinality(pages)
      /\ JournalHolds(w, committed, H, inJournal \cup pages)
      /\ Covered(w.file, H, w.hdr) = Covered(j.file, H, j.hdr)
      /\ PagesIn(w.file, w.hdr, w.nRec) = PagesIn(j.file, j.hdr, j.nRec) \cup pages
  <2>1. pages \in SUBSET Page /\ pages \cap inJournal = {}
    BY <1>1
  <2>2. Extended(j, AddRecords(j, pages, mem, stop), committed, H, inJournal, pages)
    BY <1>2, <1>4, <1>6, <1>8, <2>1, JournalExtended
  <2> QED BY <1>6, <2>2 DEF Extended
<1>10. SectorClosed(Covered(w.file, H, w.hdr))
  BY <1>9 DEF Ready
<1>11. SectorClosed(S)
  <2> SUFFICES ASSUME NEW q \in S PROVE SectorOf(q) \subseteq S
    BY DEF SectorClosed
  <2>1. CASE q \in inJournal
    BY <1>6, <2>1 DEF Ready, SectorClosed
  <2>2. CASE q \in pages
    BY <1>1, <2>2, Sectors
  <2> QED BY <1>6, <2>1, <2>2
<1>12. pages \subseteq Flagged(p) /\ (Flagged(p) # {} => needSync # {} \/ pages # {})
  BY <1>1, <1>7 DEF Flagged
<1>13. PagesIn(w.file, w.hdr, w.nRec) \subseteq needSync \cup Flagged(p)
  BY <1>9, <1>12 DEF Ready
<1>14. j.nRec # 0 \/ pages # {} => w.nRec # 0
  BY <1>4, <1>5, <1>9
<1>15. needSync \cup Flagged(p) # {} => w.nRec # 0
  BY <1>12, <1>14 DEF Ready
<1>16. \A q \in PagesIn(w.file, w.hdr, w.nRec) : disk[q] = committed[q]
  BY <1>3, <1>9 DEF Ready
<1>17. p \notin inJournal => pages # {}
  BY <1>1, <1>6
<1> QED BY <1>1, <1>2, <1>6, <1>9, <1>10, <1>11, <1>13, <1>14, <1>15, <1>16, <1>17 DEF Added

\* sqlite3PagerWrite: what changes is in the journal.
LEMMA PagerWriteFine ==
    ASSUME IInv, Types', intact', NEW p \in Page, NEW content \in Content, PagerWrite(p, content)
    PROVE  IInv'
<1>1. /\ phase = "run" /\ phase' = "run" /\ eState \in {"locked", "cachemod", "dbmod"}
      /\ mem' = [mem EXCEPT ![p] = content]
      /\ UNCHANGED <<committed, disk, changeCountDone, todo, hot, left, txs>>
  BY DEF PagerWrite, loopVars
<1>2. Typed /\ Bounded /\ StateInv /\ Coherence /\ ~hot /\ mem \in Database
  BY <1>1, TypeFacts DEF IInv, StateInv, Typed
<1>3. \A q \in Page \ {p} : mem'[q] = mem[q]
  BY <1>1, <1>2 DEF Database
<1>4. CASE p \in dirty
  <2>1. UNCHANGED <<eState, dirty, needSync, inJournal, jopen, jrn, tmp>>
    BY <1>4 DEF PagerWrite
  <2>2. eState # "locked"
    BY <1>4, <1>2 DEF StateInv
  <2>3. PICK H \in SUBSET Pos : Live(H)
    BY <1>1, <2>2 DEF IInv, LiveInv, InTransaction, SomeLive
  <2>4. p \in inJournal
    BY <1>1, <1>2, <1>4, <2>2 DEF StateInv, InTransaction
  <2>5. Page \ inJournal \subseteq Restored'
    BY <1>1, <1>3, <2>3, <2>4 DEF Live, Restored
  <2>6. Live(H)'
    BY <1>1, <2>1, <2>3, <2>5 DEF Live, Safe, Waiting
  <2>7. Typed'
    BY <1>1, <1>2, <2>1 DEF Types, Typed, Bounded
  <2>8. StateInv'
    BY <1>1, <1>2, <2>1, <2>2 DEF StateInv, InTransaction
  <2>9. Coherence'
    BY <1>1, <1>2, <1>3, <1>4, <2>1, <2>2 DEF Coherence
  <2>10. LiveInv' /\ SyncedInv'
    BY <1>1, <2>1, <2>6 DEF LiveInv, SyncedInv, SomeLive
  <2> QED BY <2>7, <2>8, <2>9, <2>10 DEF IInv
<1>5. CASE p \notin dirty
  <2>1. PICK stop \in Stops(OpenedJournal, ToJournal(p)) :
            /\ jrn' = AddRecords(OpenedJournal, ToJournal(p), mem, stop)
            /\ intact' = (intact /\ Whole(OpenedJournal, ToJournal(p), mem, stop))
            /\ MakeWritable(p)
            /\ eState' = IF eState = "locked" THEN "cachemod" ELSE eState
    BY <1>5 DEF PagerWrite
  <2>2. PICK H \in SUBSET Pos : Ready(OpenedJournal, H)
    BY <1>1, OpenedReady
  <2>3. PICK S, w : S = inJournal \cup ToJournal(p) /\ jrn' = w
    OBVIOUS
  <2>4. /\ w \in Journals /\ S \subseteq Page
        /\ JournalHolds(w, committed, H, S)
        /\ SectorClosed(Covered(w.file, H, w.hdr))
        /\ SectorClosed(S)
        /\ PagesIn(w.file, w.hdr, w.nRec) \subseteq needSync \cup Flagged(p)
        /\ needSync \cup Flagged(p) # {} => w.nRec # 0
        /\ \A q \in PagesIn(w.file, w.hdr, w.nRec) : disk[q] = committed[q]
        /\ p \notin inJournal \/ OpenedJournal.nRec # 0 => w.nRec # 0
        /\ Touched(p) \subseteq S
    <3>1. Whole(OpenedJournal, ToJournal(p), mem, stop)
      BY <2>1
    <3>2. Added(OpenedJournal, w, H, S, p)
      BY <2>1, <2>2, <2>3, <3>1, Journalled
    <3> QED BY <3>2 DEF Added
  <2>5. /\ dirty' = dirty \cup Touched(p) /\ inJournal' = S
        /\ needSync' = needSync \cup Flagged(p) /\ jopen' = TRUE
    BY <2>1, <2>3 DEF MakeWritable
  <2>6. p \in Touched(p) /\ Flagged(p) \subseteq Page /\ inJournal \subseteq S
    BY <2>3, Sectors DEF Touched, Flagged
  <2>7. Page \ S \subseteq Restored'
    <3> SUFFICES ASSUME NEW q \in Page, q \notin S PROVE q \in Restored'
      OBVIOUS
    <3>1. q # p /\ q \in Restored
      BY <2>2, <2>4, <2>6 DEF Ready
    <3> QED BY <1>1, <1>3, <3>1 DEF Restored
  <2>8. Live(H)'
    BY <1>1, <2>3, <2>4, <2>5, <2>7 DEF Live, Safe, Waiting, JournalHolds
  <2>9. Typed'
    BY <1>1, <1>2, <2>3, <2>4 DEF Types, Typed, Bounded
  <2>10. dirty' \subseteq inJournal'
    <3>1. dirty \subseteq inJournal
      BY <1>1, <1>2 DEF StateInv, InTransaction
    <3> QED BY <2>4, <2>5, <2>6, <3>1
  <2>11. eState' = "cachemod" => disk = committed /\ w.nRec # 0
    <3>1. CASE eState = "locked"
      BY <1>2, <2>4, <3>1 DEF StateInv
    <3>2. CASE eState = "cachemod"
      <4>1. OpenedJournal = jrn
        BY <3>2 DEF OpenedJournal
      <4> QED BY <1>2, <2>4, <3>2, <4>1 DEF StateInv
    <3>3. CASE eState = "dbmod"
      BY <2>1, <3>3
    <3> QED BY <1>1, <3>1, <3>2, <3>3
  <2>12. eState' \in {"cachemod", "dbmod"}
    BY <1>1, <2>1
  <2>13. StateInv'
    BY <1>1, <1>2, <2>3, <2>10, <2>11, <2>12 DEF StateInv, InTransaction
  <2>14. Coherence'
    <3>1. \A q \in Page \ dirty : mem[q] = disk[q]
      BY <1>1, <1>2 DEF Coherence
    <3> QED BY <1>1, <1>3, <2>5, <2>6, <3>1 DEF Coherence
  <2>15. LiveInv' /\ SyncedInv'
    BY <1>1, <2>8, <2>12 DEF LiveInv, SyncedInv, SomeLive
  <2> QED BY <2>9, <2>13, <2>14, <2>15 DEF IInv
<1> QED BY <1>4, <1>5

\* The journal that a commit syncs is all that is needed to restore the file.
LEMMA CommitSynced ==
    ASSUME IInv, NEW H \in SUBSET Pos, NEW w \in Journals, NEW S \in SUBSET Page,
           JournalHolds(w, committed, H, S), ~Unguarded(w),
           SectorClosed(S), Page \ S \subseteq Restored, dirty' \subseteq S,
           jrn' = SyncJournal(w, FALSE), todo' = dirty', phase' = "commit",
           UNCHANGED <<committed, disk, mem>>
    PROVE  SomeSynced'
<1>1. PICK v : v = SyncJournal(w, FALSE)
  OBVIOUS
<1>2. w.hdr \in Pos /\ w.hdr < w.off /\ w.off \in Nat
  BY JournalNumbers
<1>3. SegmentSynced(w, v)
  BY <1>1, <1>2, JournalSegmentSynced
<1>4. PICK last \in Nat : last = RoundUp(w.off)
  BY <1>2, RoundUpMultiple
<1>5. /\ Findable(v, committed, H, last)
      /\ Held(v.file, H) = S
      /\ \A h \in H : Slot(h, v.file[h].num) <= v.hdr
      /\ v.hdr = w.off
  <2>1. v.hdr = w.off
    BY <1>3 DEF SegmentSynced
  <2>2. /\ Findable(v, committed, H, RoundUp(w.off))
        /\ Held(v.file, H) = S
        /\ \A h \in H : Slot(h, v.file[h].num) <= v.hdr
    BY <1>3, SyncedFindable
  <2> QED BY <1>4, <2>1, <2>2
<1>6. /\ Segments(v.file, committed, H, last)
      /\ \A h \in H : Slot(h, v.file[h].num) <= v.size
      /\ last < v.size => ~HasMagic(v.file[last])
  BY <1>5 DEF Findable
<1>7. last \notin H
  BY <1>6 DEF Segments
<1>8. PICK G \in SUBSET Nat : G = H \cup {last}
  BY Positions
<1>9. last \in G /\ G \ {last} = H
  BY <1>7, <1>8
<1>10. Covered(v.file, G, last) = S
  BY <1>5, <1>9 DEF Covered, Held
<1>11. jrn' = v
  BY <1>1
<1> HIDE <1>1
<1>12. Restored' = Restored
  BY DEF Restored
<1>13. Safe(G, last)' = S
  BY <1>10, <1>11 DEF Safe
<1>14. Links(v.file, committed, G, last)
  BY <1>6, <1>9 DEF Links
<1>15. \A p \in Page \ S : disk[p] = committed[p]
  BY DEF Restored
<1>16. Restorable(G, last)'
  BY <1>6, <1>9, <1>11, <1>13, <1>14, <1>15 DEF Restorable
<1>17. Committing(G, last)'
  BY <1>4, <1>5, <1>9, <1>11, <1>12, <1>13 DEF Committing, Before
<1>18. Synced(G, last)'
  BY <1>16, <1>17 DEF Synced
<1> QED BY <1>9, <1>18 DEF SomeSynced

\* sqlite3PagerCommitPhaseOne: the journal is synced before the file is touched.
LEMMA CommitPhaseOneFine == ASSUME IInv, Types', intact', CommitPhaseOne PROVE IInv'
<1>1. /\ phase = "run" /\ eState \in {"cachemod", "dbmod"}
      /\ eState' = "dbmod" /\ phase' = "commit"
      /\ todo' = dirty'
      /\ UNCHANGED <<committed, disk, mem, hot, left, txs>>
  BY DEF CommitPhaseOne
<1>2. Typed /\ Bounded /\ StateInv /\ Coherence /\ ~hot /\ OpenedJournal = jrn
  BY <1>1 DEF IInv, StateInv, OpenedJournal, Typed
<1>3. PICK H \in SUBSET Pos : Ready(jrn, H)
  BY <1>1, <1>2, OpenedReady
<1>4. 1 \in Page
  BY NPagesAssumption DEF Page
<1>5. dirty \subseteq inJournal /\ inJournal \in SUBSET Page /\ dirty \subseteq Page
  BY <1>1, <1>2, TypeFacts DEF StateInv, InTransaction
<1>6. PICK w \in Journals, S \in SUBSET Page :
          /\ jrn' = SyncJournal(w, FALSE) /\ ~Unguarded(w)
          /\ JournalHolds(w, committed, H, S)
          /\ inJournal \subseteq S /\ SectorClosed(S)
          /\ dirty \subseteq dirty' /\ dirty' \subseteq S
  <2>1. CASE changeCountDone \/ 1 \in dirty
    <3>1. jrn' = SyncJournal(jrn, FALSE) /\ dirty' = dirty /\ ~Unguarded(jrn)
      BY <2>1 DEF CommitPhaseOne
    <3>2. /\ jrn \in Journals /\ JournalHolds(jrn, committed, H, inJournal)
          /\ SectorClosed(inJournal)
      BY <1>3 DEF Ready
    <3> QED BY <1>5, <3>1, <3>2
  <2>2. CASE ~(changeCountDone \/ 1 \in dirty)
    <3>1. PICK stop \in Stops(jrn, ToJournal(1)) :
              /\ jrn' = SyncJournal(AddRecords(jrn, ToJournal(1), mem, stop), FALSE)
              /\ Whole(jrn, ToJournal(1), mem, stop)
              /\ ~Unguarded(AddRecords(jrn, ToJournal(1), mem, stop))
              /\ dirty' = dirty \cup Touched(1)
      BY <2>2 DEF CommitPhaseOne
    <3>2. PICK v, S : v = AddRecords(jrn, ToJournal(1), mem, stop) /\ S = inJournal \cup ToJournal(1)
      OBVIOUS
    <3>3. /\ v \in Journals /\ S \in SUBSET Page /\ JournalHolds(v, committed, H, S)
          /\ SectorClosed(S) /\ Touched(1) \subseteq S
      <4>1. Added(jrn, v, H, S, 1)
        BY <1>3, <1>4, <3>1, <3>2, Journalled
      <4> QED BY <4>1 DEF Added
    <3> QED BY <1>5, <3>1, <3>2, <3>3
  <2> QED BY <2>1, <2>2
<1>7. SomeSynced'
  <2>1. Page \ S \subseteq Restored
    BY <1>3, <1>6 DEF Ready
  <2> QED BY <1>1, <1>6, <2>1, CommitSynced
<1>8. Typed'
  <2>1. w.hdr \in Pos /\ w.hdr < w.off
    BY <1>6, JournalNumbers
  <2>2. jrn' \in Journals
    BY <1>6, <2>1, JournalSynced
  <2> QED BY <1>1, <1>2, <2>2 DEF Types, Typed, Bounded
<1>9. \A p \in Page \ dirty : mem[p] = disk[p]
  BY <1>1, <1>2 DEF Coherence
<1>10. StateInv'
  <2>1. \A p \in Page \ todo' : disk'[p] = mem'[p]
    BY <1>1, <1>6, <1>9
  <2> QED BY <1>1, <1>2, <2>1 DEF StateInv, InTransaction
<1>11. Coherence'
  BY <1>1, <1>6, <1>9 DEF Coherence
<1>12. LiveInv' /\ SyncedInv'
  BY <1>1, <1>7 DEF LiveInv, SyncedInv, InTransaction
<1> QED BY <1>8, <1>10, <1>11, <1>12 DEF IInv

------------------------------------------------------------------------------
(* A page is spilled.                                                       *)

\* Journal w, with sync the pages that still need one, when page p goes to the
\* database.
Spillable(w, H, sync, p) ==
    /\ w \in Journals
    /\ JournalHolds(w, committed, H, inJournal)
    /\ SectorClosed(Covered(w.file, H, w.hdr))
    /\ SectorClosed(inJournal)
    /\ PagesIn(w.file, w.hdr, w.nRec) \subseteq sync
    /\ sync # {} => w.nRec # 0
    /\ Page \ inJournal \subseteq Restored
    /\ \A q \in PagesIn(w.file, w.hdr, w.nRec) : disk[q] = committed[q]
    /\ p \in Covered(w.file, H, w.hdr)
    /\ p \notin PagesIn(w.file, w.hdr, w.nRec)

\* pagerStress syncs the journal, if it must, so that the record of the page that
\* is spilled is in a synced segment.
LEMMA SpillSynced ==
    ASSUME IInv, NEW p \in Page, SyncForSpill(p)
    PROVE  \E H \in SUBSET Pos : \E w : jrn' = w /\ Spillable(w, H, needSync', p)
<1>1. /\ phase = "run" /\ eState \in {"cachemod", "dbmod"} /\ p \in dirty
      /\ IF SpillSyncs(p)
         THEN jrn' = SyncJournal(jrn, TRUE) /\ needSync' = {}
         ELSE jrn' = jrn /\ needSync' = needSync
  BY DEF SyncForSpill
<1>2. PICK H \in SUBSET Pos : Ready(jrn, H)
  BY <1>1, OpenedReady DEF OpenedJournal
<1>3. p \in inJournal /\ inJournal \in SUBSET Page
  <2>1. dirty \subseteq inJournal
    BY <1>1 DEF IInv, StateInv, InTransaction
  <2> QED BY <1>1, <2>1, TypeFacts DEF IInv
<1>4. CASE SpillSyncs(p)
  <2>1. jrn.nRec # 0
    BY <1>2, <1>4 DEF SpillSyncs, Ready, IInv, StateInv
  <2>2. PICK w : w = SyncJournal(jrn, TRUE)
    OBVIOUS
  <2>3. Segmented(w, committed, H, inJournal)
    BY <1>2, <1>3, <2>1, <2>2, JournalSegmented DEF Ready
  <2>4. PICK G \in SUBSET Pos : G = H \cup {w.hdr}
    BY <2>3 DEF Segmented
  <2>5. Spillable(w, G, {}, p)
    BY <1>2, <1>3, <2>3, <2>4 DEF Spillable, Segmented, Ready
  <2> QED BY <1>1, <1>4, <2>2, <2>5
<1>5. CASE ~SpillSyncs(p)
  <2>1. p \notin PagesIn(jrn.file, jrn.hdr, jrn.nRec)
    BY <1>2, <1>5 DEF SpillSyncs, Ready
  <2>2. inJournal = Covered(jrn.file, H, jrn.hdr) \cup PagesIn(jrn.file, jrn.hdr, jrn.nRec)
    BY <1>2 DEF Ready, JournalHolds, JournalHas
  <2>3. Spillable(jrn, H, needSync, p)
    BY <1>2, <1>3, <2>1, <2>2 DEF Spillable, Ready
  <2> QED BY <1>1, <1>5, <2>3
<1> QED BY <1>4, <1>5

\* A page that is spilled is in a synced segment.
LEMMA SpillFine == ASSUME IInv, Types', NEW p \in Page, Spill(p) PROVE IInv'
<1>1. /\ SyncForSpill(p) /\ disk' = [disk EXCEPT ![p] = mem[p]]
      /\ dirty' = dirty \ {p} /\ eState' = "dbmod" /\ phase = "run" /\ phase' = "run"
      /\ eState \in {"cachemod", "dbmod"}
      /\ UNCHANGED <<committed, mem, inJournal, todo, hot, left>>
  BY DEF Spill, SyncForSpill, loopVars
<1>2. Typed /\ Bounded /\ StateInv /\ Coherence /\ ~hot /\ disk \in Database /\ inJournal \subseteq Page
  BY <1>1, TypeFacts DEF IInv, StateInv, Typed
<1>3. PICK H \in SUBSET Pos : \E w : jrn' = w /\ Spillable(w, H, needSync', p)
  BY <1>1, SpillSynced
<1>4. PICK w : jrn' = w /\ Spillable(w, H, needSync', p)
  BY <1>3
<1>5. disk'[p] = mem[p] /\ \A q \in Page \ {p} : disk'[q] = disk[q]
  BY <1>1, <1>2 DEF Database
<1>6. p \in inJournal
  BY <1>4 DEF Spillable, JournalHolds, JournalHas
<1>7. Page \ inJournal \subseteq Restored'
  BY <1>1, <1>4, <1>5, <1>6 DEF Restored, Spillable
<1>8. \A q \in PagesIn(w.file, w.hdr, w.nRec) : disk'[q] = committed[q]
  <2>1. PagesIn(w.file, w.hdr, w.nRec) \subseteq Page
    BY <1>2, <1>4 DEF Spillable, JournalHolds, JournalHas
  <2> QED BY <1>4, <1>5, <2>1 DEF Spillable
<1>9. Live(H)'
  BY <1>1, <1>4, <1>7, <1>8 DEF Live, Safe, Waiting, JournalHolds, Spillable
<1>10. Typed'
  BY <1>1, <1>2, <1>4 DEF Types, Typed, Bounded, Spillable
<1>11. StateInv'
  BY <1>1, <1>2 DEF StateInv, InTransaction
<1>12. Coherence'
  BY <1>1, <1>2, <1>5 DEF Coherence
<1>13. LiveInv' /\ SyncedInv'
  BY <1>1, <1>9 DEF LiveInv, SyncedInv, SomeLive
<1> QED BY <1>10, <1>11, <1>12, <1>13 DEF IInv

\* So are those a failed spill damages.
LEMMA SpillFailsFine == ASSUME IInv, Types', NEW p \in Page, SpillFails(p) PROVE IInv'
<1>1. /\ SyncForSpill(p) /\ disk' \in Damaged(p, mem[p])
      /\ eState' = "error" /\ phase = "run" /\ phase' = "run"
      /\ eState \in {"cachemod", "dbmod"}
      /\ UNCHANGED <<committed, mem, inJournal, todo, hot, left>>
  BY DEF SpillFails, SyncForSpill, loopVars
<1>2. Typed /\ Bounded /\ ~hot
  BY <1>1 DEF IInv, StateInv, Typed
<1>3. PICK H \in SUBSET Pos : \E w : jrn' = w /\ Spillable(w, H, needSync', p)
  BY <1>1, SpillSynced
<1>4. PICK w : jrn' = w /\ Spillable(w, H, needSync', p)
  BY <1>3
<1>5. /\ Chain(w.file, committed, H, w.hdr) /\ w.hdr \in H
      /\ inJournal = Covered(w.file, H, w.hdr) \cup PagesIn(w.file, w.hdr, w.nRec)
      /\ Slot(w.hdr, w.nRec) <= w.size
      /\ SectorClosed(Covered(w.file, H, w.hdr))
  BY <1>4 DEF Spillable, JournalHolds, JournalHas, Chain
<1>6. w.file \in [Pos -> Cells] /\ w.hdr \in Nat /\ w.nRec \in Nat /\ w.size \in Nat
  BY <1>4, NPagesAssumption, Positions DEF Spillable, Journals, JournalsOf, Cells
<1>7. w.hdr <= w.size
  <2>1. w.hdr + Sector <= Slot(w.hdr, w.nRec) /\ Slot(w.hdr, w.nRec) \in Nat
    BY <1>6, SlotFacts
  <2> QED BY <1>5, <1>6, <2>1, SectorAssumption
<1>8. PICK last \in H : last = w.hdr
  BY <1>5
<1>9. /\ Links(w.file, committed, H, last)
      /\ ~HasMagic(w.file[last])
      /\ \A h \in H \ {last} : Slot(h, w.file[h].num) <= w.size
  <2>1. Links(w.file, committed, H, last)
    BY <1>5, <1>6, <1>8, ChainLinks
  <2>2. ~HasMagic(w.file[last])
    BY <1>5, <1>8 DEF Chain, HasMagic
  <2>3. ASSUME NEW h \in H \ {last} PROVE Slot(h, w.file[h].num) <= w.size
    <3>1. h \in Nat /\ w.file[h].num \in Nat /\ Slot(h, w.file[h].num) <= last
      BY <1>6, <2>1, LinkNumbers
    <3>2. Slot(h, w.file[h].num) \in Nat
      BY <3>1, SlotFacts
    <3> QED BY <1>6, <1>7, <1>8, <3>1, <3>2
  <2> QED BY <2>1, <2>2, <2>3
<1>10. \A q \in Page \ Covered(w.file, H, last) : disk'[q] = committed[q]
  <2>1. \A q \in Page \ Covered(w.file, H, last) : disk[q] = committed[q]
    BY <1>4, <1>5, <1>8 DEF Spillable, Restored
  <2>2. SectorOf(p) \subseteq Covered(w.file, H, last)
    BY <1>4, <1>8 DEF Spillable, SectorClosed
  <2> QED BY <1>1, <2>1, <2>2 DEF Damaged
<1>11. Restorable(H, last)'
  BY <1>1, <1>4, <1>5, <1>8, <1>9, <1>10 DEF Restorable, Safe
<1>12. SomeSynced'
  <2>1. Synced(H, last)'
    BY <1>1, <1>11 DEF Synced
  <2>2. H \in SUBSET Nat
    BY Positions
  <2> QED BY <2>1, <2>2 DEF SomeSynced
<1>13. Typed'
  BY <1>1, <1>2, <1>4 DEF Types, Typed, Bounded, Spillable
<1>14. StateInv'
  BY <1>1, <1>2 DEF StateInv, InTransaction
<1>15. Coherence' /\ LiveInv'
  BY <1>1 DEF Coherence, LiveInv, InTransaction
<1>16. SyncedInv'
  BY <1>12 DEF SyncedInv
<1> QED BY <1>13, <1>14, <1>15, <1>16 DEF IInv

------------------------------------------------------------------------------
(* Every step.                                                              *)

\* No step leaves the invariant while the journal is intact.
LEMMA StepFine ==
    ASSUME IInv, Types', intact', [Next]_vars, ~PowerLoss
    PROVE  IInv'
<1>1. CASE Begin
  BY <1>1, BeginFine
<1>2. CASE \E p \in Page : \E content \in Content : PagerWrite(p, content)
  BY <1>2, PagerWriteFine
<1>3. CASE \E p \in Page : Spill(p)
  BY <1>3, SpillFine
<1>4. CASE \E p \in Page : SpillFails(p)
  BY <1>4, SpillFailsFine
<1>5. CASE CommitPhaseOne
  BY <1>5, CommitPhaseOneFine
<1>6. CASE CommitWrite
  BY <1>6, CommitWriteFine
<1>7. CASE CommitWriteFails
  BY <1>7, CommitWriteFailsFine
<1>8. CASE CommitWritten
  BY <1>8, CommitWrittenFine
<1>9. CASE CommitPhaseTwo
  BY <1>9, CommitPhaseTwoFine
<1>10. CASE Rollback
  BY <1>10, RollbackFine
<1>11. CASE PlaybackHeader
  BY <1>11, PlaybackHeaderFine
<1>12. CASE PlaybackDone
  BY <1>12, PlaybackDoneFine
<1>13. CASE PlaybackSkip
  BY <1>13, PlaybackSkipFine
<1>14. CASE PlaybackRecord
  BY <1>14, PlaybackRecordFine
<1>15. CASE PlaybackFails
  BY <1>15, PlaybackFailsFine
<1>16. CASE PlaybackEnd
  BY <1>16, PlaybackEndFine
<1>17. CASE Unlock
  BY <1>17, UnlockFine
<1>18. CASE SharedLock
  BY <1>18, SharedLockFine
<1>19. CASE Close
  <2>1. Reopened /\ disk' = committed'
    BY <1>19 DEF Close, Reopened
  <2> QED BY <2>1, ReopenedFine
<1>20. CASE UNCHANGED vars
  <2>1. UNCHANGED <<eState, phase, committed, disk, mem, dirty, needSync, inJournal,
                    jrn, todo, hot, left>>
    BY <1>20 DEF vars
  <2>2. Typed' /\ StateInv' /\ Coherence'
    BY <2>1 DEF IInv, Types, Typed, Bounded, StateInv, Coherence, InTransaction
  <2>3. SomeLive' = SomeLive
    BY <2>1 DEF SomeLive, Live, Safe, Waiting, Restored, LivePlayback
  <2>4. SomeSynced' = SomeSynced
    BY <2>1 DEF SomeSynced, Synced, Restorable, Committing, SyncedPlayback, Before, Safe, Restored
  <2>5. LiveInv' /\ SyncedInv'
    BY <2>1, <2>3, <2>4 DEF IInv, LiveInv, SyncedInv, InTransaction
  <2> QED BY <2>2, <2>5 DEF IInv
<1> QED
  BY <1>1, <1>2, <1>3, <1>4, <1>5, <1>6, <1>7, <1>8, <1>9, <1>10, <1>11, <1>12, <1>13,
     <1>14, <1>15, <1>16, <1>17, <1>18, <1>19, <1>20 DEF Next, Playback

\* A journal that is not intact does not become so but by a reset.
LEMMA StaysBroken == ASSUME [Next]_vars, ~PowerLoss, intact' PROVE intact
BY DEF Next, vars, Begin, PagerWrite, Spill, SpillFails, SyncForSpill, CommitPhaseOne, CommitWrite, CommitWriteFails, CommitWritten, CommitPhaseTwo, Rollback, Playback, PlaybackHeader, PlaybackDone, PlaybackSkip, PlaybackRecord, PlaybackFails, PlaybackEnd, Unlock, SharedLock, Close

\* The invariant holds in every state.
LEMMA Invariant == Spec => []Inv
<1>1. Init => Inv
  BY InitFine
<1>2. ASSUME Inv, [Next]_vars PROVE Inv'
  <2>1. Types'
    BY <1>2, StepTypes DEF Inv
  <2>2. ASSUME intact', ~PowerLoss PROVE IInv'
    BY <1>2, <2>1, <2>2, StaysBroken, StepFine DEF Inv
  <2>3. ASSUME PowerLoss PROVE IInv'
    <3>1. Reopened /\ disk' = committed'
      BY <2>3 DEF PowerLoss, Reopened
    <3> QED BY <2>1, <3>1, ReopenedFine
  <2> QED BY <2>1, <2>2, <2>3 DEF Inv
<1> QED BY <1>1, <1>2, PTL DEF Spec

\* The variables of the pager and of the journal keep their types, whatever
\* fails; while the journal is intact, the offsets stay within what one
\* transaction can write to the RAM file.
THEOREM TypeCorrect == Spec => []TypeOK
<1>1. Inv => TypeOK
  BY DEF Inv, IInv, Typed, TypeOK
<1> QED BY <1>1, Invariant, PTL

\* A page that is not dirty can be dropped from the cache (pcache1 of one KiB
\* does) and read again from the file, as long as the journal is intact.
THEOREM Coherent == Spec => []CacheCoherent
<1>1. Inv => CacheCoherent
  BY DEF Inv, IInv, CacheCoherent
<1> QED BY <1>1, Invariant, PTL

\* All or nothing: after sqlite3PagerCommitPhaseTwo, sqlite3PagerRollback or a
\* hot playback the file and the pages are what the last transaction left,
\* whatever errors struck on the way, if the journal is intact.
THEOREM Atomicity == Spec => []Atomic
<1>1. Inv => Atomic
  BY DEF Inv, IInv, StateInv, Atomic
<1> QED BY <1>1, Invariant, PTL

\* A step of a playback restores a page or leaves it.
LEMMA StepReplays ==
    ASSUME IInv, [Next]_vars, phase = "playback", phase' # "run", NEW p \in Page
    PROVE  mem'[p] \in {mem[p], committed[p]}
<1>1. CASE PlaybackRecord
  <2>1. mem'[Cell.num] = committed[Cell.num]
    BY <1>1, RecordRestores
  <2>2. p # Cell.num => mem'[p] = mem[p]
    <3>1. mem \in Database /\ \E c : mem' = [mem EXCEPT ![Cell.num] = c]
      BY <1>1, TypeFacts DEF IInv, PlaybackRecord
    <3> QED BY <3>1 DEF Database
  <2> QED BY <2>1, <2>2
<1>2. CASE PlaybackHeader \/ PlaybackDone \/ PlaybackSkip \/ UNCHANGED vars
  BY <1>2 DEF PlaybackHeader, PlaybackDone, PlaybackSkip, vars
<1> QED
  BY <1>1, <1>2 DEF Next, Playback, PlaybackFails, PlaybackEnd, Begin, PagerWrite, Spill, SpillFails, SyncForSpill, CommitPhaseOne, CommitWrite, CommitWriteFails, CommitWritten, CommitPhaseTwo, Rollback, Unlock, SharedLock, Close, PowerLoss, Reopened

\* pager_playback of an intact journal gives the client's pages nothing but what
\* they were before the transaction: no record of an older one, none that is
\* half written.
THEOREM ReplayRestored == Spec => ReplayRestores
<1>1. Inv /\ [Next]_vars =>
         [intact /\ phase = "playback" /\ phase' # "run" =>
             \A p \in Page : mem'[p] \in {mem[p], committed[p]}]_vars
  BY StepReplays DEF Inv
<1> QED BY <1>1, Invariant, PTL DEF Spec, ReplayRestores

------------------------------------------------------------------------------
(* What a hot rollback would give.                                          *)

\* What it takes for a hot rollback to give the old database.
HotRestores ==
    \E H \in SUBSET Pos : \E end \in Nat :
        /\ Findable(jrn, committed, H, end)
        /\ \A p \in Page \ Held(jrn.file, H) : disk[p] = committed[p]

\* The segments that restore the file are found.
LEMMA RestorableFound ==
    ASSUME NEW H, NEW last, Restorable(H, last)
    PROVE  HotRestores
<1>1. /\ last \in Nat /\ H \ {last} \in SUBSET Pos
      /\ Findable(jrn, committed, H \ {last}, last)
  BY DEF Restorable, Links, Findable
<1>2. Held(jrn.file, H \ {last}) = Safe(H, last)
  BY DEF Held, Safe, Covered
<1>3. \A p \in Page \ Held(jrn.file, H \ {last}) : disk[p] = committed[p]
  BY <1>2 DEF Restorable
<1> QED BY <1>1, <1>3 DEF HotRestores

\* In every state that the property is about, a hot rollback finds what it needs.
LEMMA WhatIsFound ==
    ASSUME IInv, eState \in {"dbmod", "finished", "error", "open"}
    PROVE  HotRestores
<1>1. ASSUME NEW H \in SUBSET Pos, Live(H)
      PROVE  HotRestores
  BY <1>1, LiveRestorable, RestorableFound DEF IInv
<1>2. ASSUME NEW H \in SUBSET Nat, NEW last \in H, Synced(H, last)
      PROVE  HotRestores
  BY <1>2, RestorableFound DEF Synced
<1>3. SomeLive \/ SomeSynced
  BY DEF IInv, LiveInv, SyncedInv, InTransaction
<1> QED BY <1>1, <1>2, <1>3 DEF SomeLive, SomeSynced

\* From the first sync of the journal on, playing it back as a hot one gives the
\* old database, at every point of a transaction, of its commit and of a playback,
\* after an error too, if the journal is intact: syncJournal counts the records
\* before their pages are written, and lets no header of an older transaction
\* follow the last.
THEOREM HotReplayable == Spec => []HotJournalRestores
<1>1. Inv => HotJournalRestores
  <2> SUFFICES ASSUME IInv, eState \in {"dbmod", "finished", "error", "open"}, NEW p \in Page
               PROVE  IF HotRecords(p) = {}
                      THEN disk[p] = committed[p]
                      ELSE \A i \in HotRecords(p) : jrn.file[i].data = committed[p]
    BY DEF Inv, HotJournalRestores
  <2>1. PICK H \in SUBSET Pos, end \in Nat :
            /\ Findable(jrn, committed, H, end)
            /\ \A q \in Page \ Held(jrn.file, H) : disk[q] = committed[q]
    BY WhatIsFound DEF HotRestores
  <2>2. jrn \in Journals
    BY TypeFacts DEF IInv
  <2>3. /\ \A i \in HotRecords(p) : jrn.file[i].data = committed[p]
        /\ HotRecords(p) = {} => p \notin Held(jrn.file, H)
    BY <2>1, <2>2, RecordsFound
  <2> QED BY <2>1, <2>3
<1> QED BY <1>1, Invariant, PTL

=============================================================================
