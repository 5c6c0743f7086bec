------------------------- MODULE TransactionsProofs -------------------------
(****************************************************************************)
(* Proofs about transactions and savepoints, for any size of a database, a  *)
(* sector, the sub-journal and the stack of savepoints, and a card that may *)
(* fail.  The last theorem is that nothing a transaction does, spills,      *)
(* evicts or undoes in part keeps it from being undone, with the cache or   *)
(* from the disk alone.                                                     *)
(****************************************************************************)
EXTENDS Transactions, FiniteSetTheorems, WellFoundedInduction, TLAPS

PageRecord == [pgno : Page, data : Value]
SavepointRecord == [iOffset : Nat, iSubRec : 0 .. StmtSpill, nOrig : Page,
                    pInSavepoint : SUBSET Page]

\* The type invariant is about the pager and about the handle.
PageTypes ==
    /\ eState \in {"reader", "locked", "cachemod", "dbmod"}
    /\ dbSize \in Page /\ dbOrigSize \in 1 .. dbSize
    /\ file \in [Page -> Value]
    /\ cache \in [Page -> Value \cup {Absent}]
    /\ writeable \subseteq dirty /\ dirty \subseteq Page
    /\ needSync \subseteq Page
    /\ jrn \in Seq([pgno : 0 .. MaxPages, data : Value \cup {Absent}])
    /\ sub \in Seq([pgno : Page, data : Value]) /\ Len(sub) <= StmtSpill
SavepointTypes ==
    aSavepoint \in Seq(SavepointRecord) /\ Len(aSavepoint) <= MaxSavepoints + 1
HandleTypes ==
    /\ autoCommit \in BOOLEAN
    /\ nOpen \in 0 .. MaxSavepoints
    /\ isTransactionSavepoint \in BOOLEAN
    /\ stmt \in [running : BOOLEAN, usesStmtJournal : BOOLEAN,
                 iStatement : 0 .. MaxSavepoints + 1, wrote : BOOLEAN]

LEMMA TypeParts == TypeOK <=> PageTypes /\ SavepointTypes /\ HandleTypes
BY DEF TypeOK, PageTypes, SavepointTypes, HandleTypes, SavepointRecord

InTransaction == eState \in {"cachemod", "dbmod"}
subPages == {sub[i].pgno : i \in 1 .. Len(sub)}
\* The pages the transaction has had to do with
touchedPages == pInJournal \cup dirty \cup subPages
\* A record of the main journal no sync has covered yet
Unsynced(i) ==
    /\ i \in 1 .. Len(jrn)
    /\ \A h \in 1 .. Len(jrn) : IsHeader(jrn[h]) => h < i

\* The journal begins with a header, if anything has been written to it, and
\* has one record of a page at most.
JournalShape ==
    /\ \A i \in 1 .. Len(jrn) : jrn[i] = Header \/ jrn[i] \in PageRecord
    /\ \A i, j \in 1 .. Len(jrn) :
          jrn[i].pgno = jrn[j].pgno => i = j \/ IsHeader(jrn[i])
    /\ InTransaction => Len(jrn) > 0 /\ jrn[1] = Header
    /\ eState = "cachemod" =>
          \A i \in 1 .. Len(jrn) : IsHeader(jrn[i]) => i = 1

\* Before the first page is written there is nothing to undo.
NothingToUndo ==
    ~InTransaction => /\ jrn = <<>> /\ sub = <<>>
                      /\ dirty = {} /\ needSync = {}

\* A write statement under way has begun the write transaction.
StatementLocks == stmt.running => eState # "reader"

\* The savepoints of the pager, outermost first, at their sizes
SavepointSizes ==
    /\ eState = "reader" => aSavepoint = <<>>
    /\ \A i \in 1 .. Len(aSavepoint) :
          /\ aSavepoint[i].nOrig \in dbOrigSize .. dbSize
          /\ \A j \in i .. Len(aSavepoint) :
                aSavepoint[i].nOrig <= aSavepoint[j].nOrig

\* A dirty page, and a page of the sub-journal, has a record in the main
\* journal if the transaction found it in the file.
DirtyRecorded ==
    /\ \A p \in dirty : cache[p] # Absent
    /\ \A p \in dirty \cup subPages : p <= dbOrigSize => p \in pInJournal

\* The whole of a sector is recorded with the first of its pages,
SectorRecorded ==
    \A p \in touchedPages, q \in 1 .. dbOrigSize :
        SectorOf(q) = SectorOf(p) => q \in pInJournal

\* and none of it is written to the file before the sync.
SectorUnsynced ==
    \A q \in needSync, p \in Page :
        SectorOf(p) = SectorOf(q) /\ (p <= q \/ p <= dbSize \/ p \in touchedPages)
            => p \in needSync \cap dirty

\* Nothing of the transaction is in the file before the first sync.
NotSpilled == eState = "cachemod" => touchedPages \subseteq needSync

\* As long as a record is not synced, the file still has what it says.
UnsyncedStored ==
    \A i \in 1 .. Len(jrn) :
        Unsynced(i) => /\ jrn[i].pgno \in needSync
                       /\ jrn[i].data = file[jrn[i].pgno]

\* What the last commit left is in the records, and where there is none it is
\* what the b-tree reads.
CommittedKept ==
    /\ past = [committed |-> past.committed, saved |-> past.saved,
               undo |-> past.undo]
    /\ eState = "reader" => past.committed = Current
    /\ eState = "locked" => dbSize = dbOrigSize
    /\ eState # "reader" =>
          /\ past.committed \in [1 .. dbOrigSize -> Value]
          /\ \A p \in (1 .. dbOrigSize) \ pInJournal :
                Read(p) = past.committed[p]
          /\ \A i \in 1 .. Len(jrn) : ~IsHeader(jrn[i]) =>
                /\ jrn[i].pgno <= dbOrigSize
                /\ jrn[i].data = past.committed[jrn[i].pgno]

PagesInv ==
    /\ JournalShape /\ NothingToUndo /\ DirtyRecorded /\ SectorRecorded
    /\ SectorUnsynced /\ NotSpilled /\ UnsyncedStored /\ CleanIsStored
    /\ CommittedKept
IInv == TypeOK /\ StatementLocks /\ SavepointSizes /\ PagesInv
------------------------------------------------------------------------------
(* Sets of pages as sequences, and the ends of sets of places.              *)

LEMMA PagesFinite ==
    ASSUME NEW S \in SUBSET Page
    PROVE  IsFiniteSet(S) /\ Cardinality(S) \in Nat
<1>1. IsFiniteSet(1 .. MaxPages)
  BY PagesAssumption, FS_Interval
<1> QED BY <1>1, FS_Subset, FS_CardinalityType DEF Page

\* SetToSeq names every member once.
LEMMA SetToSeqProperties ==
    ASSUME NEW S, IsFiniteSet(S)
    PROVE  /\ SetToSeq(S) \in [1 .. Cardinality(S) -> S]
           /\ \A i, j \in 1 .. Cardinality(S) :
                  SetToSeq(S)[i] = SetToSeq(S)[j] => i = j
           /\ \A x \in S : \E i \in 1 .. Cardinality(S) : SetToSeq(S)[i] = x
<1> DEFINE n == Cardinality(S)
           s == SetToSeq(S)
<1>1. n \in Nat /\ Bijection(1 .. n, S) # {}
  BY FS_CardinalityType DEF ExistsBijection
<1>2. \E f \in [1 .. n -> S] : IsInjective(f)
  BY <1>1 DEF Bijection, Injection
<1>3. s \in [1 .. n -> S] /\ IsInjective(s)
  BY <1>2 DEF SetToSeq
<1>4. \A i, j \in 1 .. n : s[i] = s[j] => i = j
  BY <1>3 DEF IsInjective
<1>5. ASSUME NEW x \in S, \A i \in 1 .. n : s[i] # x
      PROVE  FALSE
  <2>1. s \in [1 .. n -> S \ {x}]
    BY <1>3, <1>5
  <2>2. IsFiniteSet(S \ {x}) /\ Cardinality(S \ {x}) = n - 1
    BY FS_RemoveElement
  <2>3. IsFiniteSet(1 .. n) /\ Cardinality(1 .. n) = n
    BY <1>1, FS_Interval
  <2>4. \E i, j \in 1 .. n : i # j /\ s[i] = s[j]
    BY <2>1, <2>2, <2>3, <1>1, FS_PigeonHole
  <2> QED BY <2>4, <1>4
<1> QED BY <1>3, <1>4, <1>5

\* Least is what its name says.
LEMMA LeastProperties ==
    ASSUME NEW S \in SUBSET Nat, S # {}
    PROVE  Least(S) \in S /\ \A i \in S : Least(S) <= i
<1>1. \E i \in S : \A j \in S : ~ (<<j, i>> \in OpToRel(<, Nat))
  BY NatLessThanWellFounded, WFMin, Zenon
<1>2. \E i \in S : \A j \in S : i <= j
  <2>1. PICK i \in S : \A j \in S : ~ (<<j, i>> \in OpToRel(<, Nat))
    BY <1>1
  <2>2. ASSUME NEW j \in S PROVE i <= j
    <3>1. ~ (j < i)
      BY <2>1, Zenon DEF OpToRel
    <3> QED BY <3>1
  <2> QED BY <2>2
<1> QED BY <1>2 DEF Least

\* What is recorded of a set of pages
LEMMA RecordsProperties ==
    ASSUME TypeOK, NEW S \in SUBSET Page
    PROVE  /\ Records(S) \in Seq(PageRecord)
           /\ \A i \in 1 .. Len(Records(S)) :
                 /\ Records(S)[i].pgno \in S
                 /\ Records(S)[i].data = Read(Records(S)[i].pgno)
           /\ \A i, j \in 1 .. Len(Records(S)) :
                 Records(S)[i].pgno = Records(S)[j].pgno => i = j
           /\ \A p \in S : \E i \in 1 .. Len(Records(S)) : Records(S)[i].pgno = p
<1> DEFINE n == Cardinality(S)
           s == SetToSeq(S)
<1>1. n \in Nat /\ IsFiniteSet(S)
  BY PagesFinite
<1>2. /\ s \in [1 .. n -> S]
      /\ \A i, j \in 1 .. n : s[i] = s[j] => i = j
      /\ \A p \in S : \E i \in 1 .. n : s[i] = p
  BY <1>1, SetToSeqProperties
<1>3. Records(S) = [i \in 1 .. n |-> Record(s[i], Read(s[i]))]
  BY DEF Records
<1>4. \A p \in Page : Read(p) \in Value
  BY DEF TypeOK, Read
<1> HIDE DEF n, s
<1>5. \A i \in 1 .. n : /\ Records(S)[i] \in PageRecord
                        /\ Records(S)[i].pgno = s[i]
                        /\ Records(S)[i].data = Read(s[i])
  BY <1>2, <1>3, <1>4 DEF Record, PageRecord
<1>6. Records(S) \in Seq(PageRecord) /\ Len(Records(S)) = n
  BY <1>1, <1>3, <1>5
<1> QED BY <1>2, <1>5, <1>6
------------------------------------------------------------------------------
(* What the journals hold.                                                  *)

\* A record of a page, or a header
LEMMA JournalEntry ==
    ASSUME JournalShape, NEW i \in 1 .. Len(jrn)
    PROVE  /\ ~IsHeader(jrn[i]) => jrn[i].pgno \in Page /\ jrn[i].data \in Value
           /\ IsHeader(jrn[i]) <=> jrn[i] = Header
           /\ jrn[i].pgno \in 0 .. MaxPages
BY PagesAssumption DEF JournalShape, IsHeader, Header, PageRecord, Page

LEMMA SeqElement == \A S : \A s \in Seq(S) : \A i \in 1 .. Len(s) : s[i] \in S
OBVIOUS

LEMMA SeqAppend == \A S : \A s \in Seq(S), e \in S : Append(s, e) \in Seq(S)
OBVIOUS

LEMMA SeqPrefix ==
    \A S : \A s \in Seq(S) : \A n \in 0 .. Len(s) : SubSeq(s, 1, n) \in Seq(S)
OBVIOUS

LEMMA SeqFunction ==
    \A S : \A n \in Nat : \A f \in [1 .. n -> S] : f \in Seq(S) /\ Len(f) = n
OBVIOUS

LEMMA SubEntry ==
    ASSUME TypeOK, NEW i \in 1 .. Len(sub)
    PROVE  sub[i] \in PageRecord /\ sub[i].pgno \in Page /\ sub[i].data \in Value
<1>1. sub \in Seq(PageRecord)
  BY DEF TypeOK, PageRecord
<1>2. sub[i] \in PageRecord
  BY <1>1, SeqElement
<1> QED BY <1>2 DEF PageRecord

LEMMA InJournal ==
    ASSUME JournalShape
    PROVE  /\ pInJournal \subseteq Page
           /\ \A p \in Page : p \in pInJournal <=>
                 \E i \in 1 .. Len(jrn) : jrn[i].pgno = p /\ ~IsHeader(jrn[i])
<1>1. pInJournal \subseteq Page
  BY JournalEntry DEF pInJournal, IsHeader
<1>2. ASSUME NEW p \in Page, NEW i \in 1 .. Len(jrn), jrn[i].pgno = p
      PROVE  ~IsHeader(jrn[i]) /\ p \in pInJournal
  BY <1>2, PagesAssumption DEF pInJournal, IsHeader, Page
<1>3. ASSUME NEW p \in pInJournal
      PROVE  \E i \in 1 .. Len(jrn) : jrn[i].pgno = p
  BY <1>3 DEF pInJournal
<1> QED BY <1>1, <1>2, <1>3

\* What is behind the last header is not synced.
LEMMA JournalHdr ==
    ASSUME TypeOK, JournalShape, InTransaction
    PROVE  /\ journalHdr \in 1 .. Len(jrn)
           /\ IsHeader(jrn[journalHdr])
           /\ \A i \in 1 .. Len(jrn) : Unsynced(i) <=> journalHdr < i
<1> DEFINE n == Len(jrn)
           headers == {i \in 1 .. n : IsHeader(jrn[i])}
           behind == {n - h : h \in headers}
<1>1. n \in Nat /\ n > 0 /\ 1 \in headers
  BY DEF TypeOK, JournalShape, IsHeader, Header
<1>2. behind \in SUBSET Nat /\ behind # {}
  BY <1>1
<1>3. PICK h \in headers : n - h = Least(behind)
  BY <1>2, LeastProperties
<1>4. ASSUME NEW g \in headers PROVE g <= h
  <2>1. n - g \in behind
    BY <1>4
  <2>2. n - h <= n - g
    BY <1>2, <1>3, <2>1, LeastProperties
  <2> QED BY <1>1, <2>2
<1>5. journalHdr \in headers /\ \A g \in headers : g <= journalHdr
  BY <1>4 DEF journalHdr
<1>6. ASSUME NEW i \in 1 .. n
      PROVE  Unsynced(i) <=> journalHdr < i
  BY <1>1, <1>5 DEF Unsynced
<1> QED BY <1>5, <1>6

\* What pager_playback_one_page makes of a record of the main journal, or of the
\* sub-journal
FromMain(page, i) == /\ page.data = jrn[i].data
                     /\ page.main
                     /\ page.synced <=> i < journalHdr
FromSub(page, i, p) == /\ page.data = sub[i].data
                       /\ ~page.main
                       /\ page.synced <=> cache[p] = Absent \/ p \notin needSync

LEMMA FromMainRecord ==
    ASSUME NEW page, NEW i,
           page = [data |-> jrn[i].data, main |-> TRUE, synced |-> i < journalHdr]
    PROVE  FromMain(page, i)
<1>1. page.data = jrn[i].data /\ page.main /\ (page.synced <=> i < journalHdr)
  BY Zenon
<1> QED BY <1>1 DEF FromMain

LEMMA FromSubRecord ==
    ASSUME NEW page, NEW i, NEW p,
           page = [data |-> sub[i].data, main |-> FALSE,
                   synced |-> cache[p] = Absent \/ p \notin needSync]
    PROVE  FromSub(page, i, p)
<1>1. /\ page.data = sub[i].data /\ ~page.main
      /\ page.synced <=> cache[p] = Absent \/ p \notin needSync
  BY Zenon
<1> QED BY <1>1 DEF FromSub

\* What a page is played back with
LEMMA PlayedProperties ==
    ASSUME TypeOK, JournalShape, NEW first \in Nat \ {0}, NEW firstSub \in Nat \ {0},
           NEW size \in Page, NEW p \in DOMAIN Played(first, firstSub, size)
    PROVE  /\ p \in Page /\ p <= size
           /\ \/ \E i \in 1 .. Len(jrn) :
                    /\ jrn[i].pgno = p /\ ~IsHeader(jrn[i])
                    /\ FromMain(Played(first, firstSub, size)[p], i)
              \/ \E i \in 1 .. Len(sub) :
                    /\ sub[i].pgno = p
                    /\ FromSub(Played(first, firstSub, size)[p], i, p)
<1> DEFINE main == {i \in MainPlayed(first, size) : jrn[i].pgno = p}
           more == {i \in SubPlayed(firstSub, size) : sub[i].pgno = p}
<1>1. p \in Page /\ (main # {} \/ more # {})
  BY DEF Played
<1>2. main \in SUBSET Nat /\ more \in SUBSET Nat
  BY DEF MainPlayed, SubPlayed
<1>3. \A i \in main : i \in 1 .. Len(jrn) /\ ~IsHeader(jrn[i])
                      /\ jrn[i].pgno = p /\ p <= size
  BY DEF MainPlayed, TypeOK
<1>4. \A i \in more : i \in 1 .. Len(sub) /\ sub[i].pgno = p /\ p <= size
  BY DEF SubPlayed, TypeOK
<1>5. Played(first, firstSub, size)[p] =
         IF main # {}
         THEN [data |-> jrn[Least(main)].data, main |-> TRUE,
               synced |-> Least(main) < journalHdr]
         ELSE [data |-> sub[Least(more)].data, main |-> FALSE,
               synced |-> cache[p] = Absent \/ p \notin needSync]
  BY DEF Played
<1> HIDE DEF main, more
<1>6. CASE main # {}
  <2>1. Least(main) \in main
    BY <1>2, <1>6, LeastProperties
  <2>2. FromMain(Played(first, firstSub, size)[p], Least(main))
    BY <1>5, <1>6, FromMainRecord, Zenon
  <2> QED BY <1>1, <1>3, <2>1, <2>2
<1>7. CASE main = {}
  <2>1. Least(more) \in more
    BY <1>1, <1>2, <1>7, LeastProperties
  <2>2. FromSub(Played(first, firstSub, size)[p], Least(more), p)
    BY <1>5, <1>7, FromSubRecord, Zenon
  <2> QED BY <1>1, <1>4, <2>1, <2>2
<1> QED BY <1>6, <1>7

\* The whole transaction undone, every page it has recorded is played back.
LEMMA WholePlayed ==
    ASSUME TypeOK, JournalShape, NEW p \in pInJournal, p <= dbOrigSize
    PROVE  /\ p \in DOMAIN WholeTransaction
           /\ \E i \in 1 .. Len(jrn) :
                 /\ jrn[i].pgno = p /\ ~IsHeader(jrn[i])
                 /\ FromMain(WholeTransaction[p], i)
<1> DEFINE first == 1
           firstSub == Len(sub) + 1
           main == {i \in MainPlayed(first, dbOrigSize) : jrn[i].pgno = p}
<1>1. PICK k \in 1 .. Len(jrn) : jrn[k].pgno = p /\ ~IsHeader(jrn[k]) /\ p \in Page
  BY InJournal
<1>2. k \in main
  BY <1>1 DEF MainPlayed
<1>3. main \in SUBSET Nat
  BY DEF MainPlayed
<1>4. Least(main) \in main
  BY <1>2, <1>3, LeastProperties
<1>5. \A i \in main : i \in 1 .. Len(jrn) /\ ~IsHeader(jrn[i]) /\ jrn[i].pgno = p
  BY DEF MainPlayed, TypeOK
<1>6. p \in DOMAIN WholeTransaction
  BY <1>1, <1>2 DEF WholeTransaction, Played
<1>7. WholeTransaction[p] =
         [data |-> jrn[Least(main)].data, main |-> TRUE,
          synced |-> Least(main) < journalHdr]
  BY <1>1, <1>2 DEF WholeTransaction, Played
<1>8. FromMain(WholeTransaction[p], Least(main))
  BY <1>7, FromMainRecord, Zenon
<1> QED BY <1>4, <1>5, <1>6, <1>8

\* Nothing but what is recorded is played back.
LEMMA OnlyRecordedPlayed ==
    ASSUME TypeOK, JournalShape, DirtyRecorded, NEW first \in Nat \ {0},
           NEW firstSub \in Nat \ {0}, NEW size \in Page,
           NEW p \in DOMAIN Played(first, firstSub, size)
    PROVE  /\ p \in pInJournal \cup subPages
           /\ p <= dbOrigSize => p \in pInJournal
<1>1. p \in Page /\ p \in pInJournal \cup subPages
  BY PlayedProperties, InJournal DEF subPages
<1> QED BY <1>1 DEF DirtyRecorded

\* A page that needs a sync is dirty, and so in the cache.
LEMMA NeedSyncDirty ==
    ASSUME TypeOK, SectorUnsynced, DirtyRecorded
    PROVE  needSync \subseteq dirty /\ \A p \in needSync : cache[p] # Absent
<1>1. \A p \in needSync : p \in Page /\ p <= p /\ SectorOf(p) = SectorOf(p)
  BY PagesAssumption DEF TypeOK, Page
<1>2. needSync \subseteq dirty
  BY <1>1 DEF SectorUnsynced
<1> QED BY <1>2 DEF DirtyRecorded

\* What playing back does to a page of the cache and of the file.
LEMMA PlaybackEffect ==
    ASSUME IInv, NEW first \in Nat \ {0}, NEW firstSub \in Nat \ {0},
           NEW size \in Page, NEW played, played = Played(first, firstSub, size),
           NEW p \in Page
    PROVE  /\ ~AddedToCache(played, p)
           /\ FilePage(played, p) \in Value
           /\ CachePage(played, p) \in Value \cup {Absent}
           /\ \A i \in 1 .. Len(jrn) :
                 Unsynced(i) /\ jrn[i].pgno = p => FilePage(played, p) = file[p]
           /\ p \notin dirty /\ p <= dbSize =>
                 CachePage(played, p) \in {Absent, FilePage(played, p)}
           /\ p \notin DOMAIN played =>
                 CachePage(played, p) = cache[p] /\ FilePage(played, p) = file[p]
           /\ cache[p] # Absent => CachePage(played, p) # Absent
           /\ p \in DOMAIN played =>
                 /\ played[p].data \in Value
                 /\ cache[p] = Absent => ToFile(played, p)
<1> USE DEF IInv, PagesInv
<1>1. cache[p] \in Value \cup {Absent} /\ file[p] \in Value /\ Absent \notin Value
  BY ValueAssumption DEF TypeOK
<1>2. p \notin dirty /\ p <= dbSize => cache[p] \in {Absent, file[p]}
  BY DEF CleanIsStored, Page
<1>3. CASE p \notin DOMAIN played
  BY <1>1, <1>2, <1>3 DEF AddedToCache, FilePage, CachePage, ToFile
<1>4. CASE p \in DOMAIN played
  <2>1. p \in pInJournal \cup subPages
    BY <1>4, OnlyRecordedPlayed
  <2>2. InTransaction
    BY <2>1 DEF NothingToUndo, pInJournal, subPages
  <2>3. eState # "dbmod" => p \in needSync
    BY <2>1, <2>2 DEF InTransaction, NotSpilled, touchedPages
  <2>4. p \in needSync => p \in dirty /\ cache[p] # Absent
    BY NeedSyncDirty
  <2>5. ASSUME NEW i \in 1 .. Len(jrn), jrn[i].pgno = p, ~IsHeader(jrn[i]),
               FromMain(played[p], i)
        PROVE  /\ played[p].data \in Value
               /\ ~AddedToCache(played, p)
               /\ p \notin dirty => ToFile(played, p)
               /\ \A k \in 1 .. Len(jrn) :
                     Unsynced(k) /\ jrn[k].pgno = p => ~ToFile(played, p)
    <3>1. played[p].data \in Value /\ ~AddedToCache(played, p)
      BY <2>5, JournalEntry DEF AddedToCache, FromMain
    <3>2. i # journalHdr /\ (Unsynced(i) <=> journalHdr < i) /\ journalHdr \in Int
      BY <2>2, <2>5, JournalHdr
    <3>3. Unsynced(i) => p \in needSync
      BY <2>5 DEF UnsyncedStored
    <3>4. ASSUME p \notin dirty PROVE ToFile(played, p)
      <4>1. i < journalHdr
        BY <3>2, <3>3, <3>4, <2>4
      <4>2. eState = "dbmod"
        BY <2>3, <2>4, <3>4
      <4> QED BY <4>1, <4>2, <2>5, <1>4 DEF ToFile, FromMain
    <3>5. ASSUME NEW k \in 1 .. Len(jrn), Unsynced(k), jrn[k].pgno = p
          PROVE  ~ToFile(played, p)
      <4>1. k = i
        BY <2>5, <3>5 DEF JournalShape
      <4>2. ~ (i < journalHdr)
        BY <3>2, <3>5, <4>1
      <4> QED BY <4>2, <2>5 DEF ToFile, FromMain
    <3> QED BY <3>1, <3>4, <3>5
  <2>6. ASSUME NEW i \in 1 .. Len(sub), sub[i].pgno = p, FromSub(played[p], i, p)
        PROVE  /\ played[p].data \in Value
               /\ ~AddedToCache(played, p)
               /\ p \notin dirty => ToFile(played, p)
               /\ \A k \in 1 .. Len(jrn) :
                     Unsynced(k) /\ jrn[k].pgno = p => ~ToFile(played, p)
    <3>1. played[p].data \in Value
      <4>1. sub[i].data \in Value
        BY SubEntry
      <4> QED BY <4>1, <2>6 DEF FromSub
    <3>2. played[p].synced <=> cache[p] = Absent \/ p \notin needSync
      BY <2>6 DEF FromSub
    <3>3. p \notin needSync => eState = "dbmod"
      BY <2>3
    <3>4. p \notin needSync => ToFile(played, p)
      BY <1>4, <3>2, <3>3 DEF ToFile
    <3>5. ~AddedToCache(played, p)
      BY <2>4, <3>4 DEF AddedToCache
    <3>6. p \notin dirty => ToFile(played, p)
      BY <2>4, <3>4
    <3>7. ASSUME NEW k \in 1 .. Len(jrn), Unsynced(k), jrn[k].pgno = p
          PROVE  ~ToFile(played, p)
      <4>1. p \in needSync
        BY <3>7 DEF UnsyncedStored
      <4> QED BY <4>1, <2>4, <3>2 DEF ToFile
    <3> QED BY <3>1, <3>5, <3>6, <3>7
  <2>7. /\ played[p].data \in Value
        /\ ~AddedToCache(played, p)
        /\ p \notin dirty => ToFile(played, p)
        /\ \A k \in 1 .. Len(jrn) :
              Unsynced(k) /\ jrn[k].pgno = p => ~ToFile(played, p)
    BY <1>4, <2>5, <2>6, PlayedProperties
  <2>8. cache[p] = Absent => p \notin dirty
    BY DEF DirtyRecorded
  <2> QED BY <1>1, <1>4, <2>7, <2>8 DEF FilePage, CachePage
<1> QED BY <1>3, <1>4

------------------------------------------------------------------------------
(* The steps that write no record, and lose no content: commands, reads,    *)
(* evictions, and going back to a savepoint.                                *)

MildPage(p) ==
    /\ \A i \in 1 .. Len(jrn) :
          Unsynced(i) /\ jrn[i].pgno = p => file'[p] = file[p]
    /\ p \notin dirty /\ p <= dbSize => cache'[p] \in {Absent, file'[p]}
    /\ p \in dirty => cache'[p] # Absent
    /\ (eState = "reader" \/ p <= dbOrigSize) /\ p <= dbSize /\ p \notin pInJournal
          => Read(p)' = Read(p)

Mild ==
    /\ UNCHANGED <<eState, dbOrigSize, jrn, dirty, needSync>>
    /\ sub' \in {sub, <<>>}
    /\ file' \in [Page -> Value] /\ cache' \in [Page -> Value \cup {Absent}]
    /\ writeable' = writeable
    /\ dbSize' \in Page
    /\ IF eState = "reader" THEN dbSize' = dbSize ELSE dbSize' \in dbOrigSize .. dbSize
    /\ past' = [committed |-> past.committed, saved |-> past'.saved,
                undo |-> past'.undo]
    /\ \A p \in Page : MildPage(p)

LEMMA PastFields ==
    ASSUME NEW saved, NEW undo, NEW c,
           past' = [committed |-> c, saved |-> saved, undo |-> undo]
    PROVE  /\ past'.committed = c
           /\ past' = [committed |-> past'.committed, saved |-> past'.saved,
                       undo |-> past'.undo]
OBVIOUS

LEMMA MildStep ==
    ASSUME IInv, Mild
    PROVE  PagesInv' /\ PageTypes'
<1> USE DEF IInv, PagesInv
<1>1. subPages' \subseteq subPages
  BY DEF Mild, subPages
<1>2. pInJournal' = pInJournal
  BY DEF Mild, pInJournal
<1>3. touchedPages' \subseteq touchedPages
  BY <1>1, <1>2 DEF Mild, touchedPages
<1>4. dbSize' <= dbSize /\ dbSize' \in Page /\ dbSize \in Page /\ dbOrigSize \in Page
  BY PagesAssumption DEF Mild, TypeOK, Page
<1>5. \A i : Unsynced(i)' <=> Unsynced(i)
  BY DEF Mild, Unsynced
<1>6. \A p, q : SectorOf(p)' = SectorOf(p)
  BY DEF SectorOf
<1>7. JournalShape'
  BY DEF Mild, JournalShape, InTransaction
<1>8. NothingToUndo'
  BY DEF Mild, NothingToUndo, InTransaction
<1>9. DirtyRecorded'
  <2>1. \A p \in dirty : p \in Page
    BY DEF TypeOK
  <2>2. \A p \in dirty' : cache'[p] # Absent
    BY <2>1 DEF Mild, MildPage
  <2> QED BY <1>1, <1>2, <2>2 DEF Mild, DirtyRecorded
<1>10. SectorRecorded'
  BY <1>2, <1>3 DEF Mild, SectorRecorded, SectorOf
<1>11. SectorUnsynced'
  <2> SUFFICES ASSUME NEW q \in needSync, NEW p \in Page, SectorOf(p) = SectorOf(q),
                      p <= q \/ p <= dbSize' \/ p \in touchedPages'
               PROVE  p \in needSync \cap dirty
    BY DEF Mild, SectorUnsynced, SectorOf
  <2>1. p <= dbSize' => p <= dbSize
    BY <1>4 DEF Page
  <2> QED BY <1>3, <2>1 DEF SectorUnsynced
<1>12. NotSpilled'
  BY <1>3 DEF Mild, NotSpilled
<1>13. UnsyncedStored'
  <2> SUFFICES ASSUME NEW i \in 1 .. Len(jrn), Unsynced(i)
               PROVE  jrn[i].pgno \in needSync /\ jrn[i].data = file'[jrn[i].pgno]
    BY <1>5 DEF Mild, UnsyncedStored
  <2>1. jrn[i].pgno \in needSync /\ jrn[i].data = file[jrn[i].pgno]
    BY DEF UnsyncedStored
  <2>2. jrn[i].pgno \in Page
    BY <2>1 DEF TypeOK
  <2> QED BY <2>1, <2>2 DEF Mild, MildPage
<1>14. CleanIsStored'
  <2> SUFFICES ASSUME NEW p \in 1 .. dbSize', p \notin dirty
               PROVE  cache'[p] \in {Absent, file'[p]}
    BY DEF Mild, CleanIsStored
  <2>1. p \in Page /\ p <= dbSize
    BY <1>4, PagesAssumption DEF Page
  <2> QED BY <2>1 DEF Mild, MildPage
<1>15. CommittedKept'
  <2>1. /\ past' = [committed |-> past'.committed, saved |-> past'.saved, undo |-> past'.undo]
        /\ past'.committed = past.committed
    <3>1. past' = [committed |-> past.committed, saved |-> past'.saved, undo |-> past'.undo]
      BY DEF Mild
    <3> QED BY <3>1, PastFields
  <2>2. ASSUME eState = "reader"
        PROVE  past.committed = Current'
    <3>1. past.committed = Current /\ pInJournal = {}
      BY <2>2 DEF CommittedKept, NothingToUndo, InTransaction, pInJournal
    <3>2. dbSize' = dbSize
      BY <2>2 DEF Mild
    <3>3. \A p \in 1 .. dbSize : Read(p)' = Read(p)
      <4>1. \A p \in 1 .. dbSize : p \in Page /\ p <= dbSize
        BY <1>4, PagesAssumption DEF Page
      <4> QED BY <2>2, <3>1, <4>1 DEF Mild, MildPage
    <3> QED BY <3>1, <3>2, <3>3 DEF Current
  <2>3. eState = "locked" => dbSize' = dbOrigSize
    BY <1>4 DEF CommittedKept, Mild, Page
  <2>4. ASSUME eState # "reader", NEW p \in (1 .. dbOrigSize) \ pInJournal
        PROVE  Read(p)' = past.committed[p]
    <3>1. p \in Page /\ p <= dbOrigSize /\ p <= dbSize
      BY <1>4, PagesAssumption DEF TypeOK, Page
    <3>2. Read(p)' = Read(p)
      BY <2>4, <3>1 DEF Mild, MildPage
    <3> QED BY <2>4, <3>2 DEF CommittedKept
  <2>5. eState # "reader" =>
           /\ past.committed \in [1 .. dbOrigSize -> Value]
           /\ \A i \in 1 .. Len(jrn) : ~IsHeader(jrn[i]) =>
                 /\ jrn[i].pgno <= dbOrigSize
                 /\ jrn[i].data = past.committed[jrn[i].pgno]
    BY DEF CommittedKept
  <2>6. UNCHANGED <<eState, dbOrigSize, jrn>>
    BY DEF Mild
  <2> QED BY <2>1, <2>2, <2>3, <2>4, <2>5, <2>6, <1>2 DEF CommittedKept, IsHeader
<1>16. PageTypes'
  <2>1. dbOrigSize \in 1 .. dbSize'
    <3>1. dbOrigSize \in 1 .. dbSize
      BY DEF TypeOK
    <3> QED BY <1>4, <3>1 DEF Mild
  <2>2. sub' \in Seq([pgno : Page, data : Value]) /\ Len(sub') <= StmtSpill
    <3>1. sub \in Seq([pgno : Page, data : Value]) /\ Len(sub) <= StmtSpill
      BY DEF TypeOK
    <3>2. <<>> \in Seq([pgno : Page, data : Value]) /\ Len(<<>>) <= StmtSpill
      BY LimitsAssumption
    <3> QED BY <3>1, <3>2 DEF Mild
  <2> QED BY <2>1, <2>2 DEF Mild, TypeOK, PageTypes
<1> QED BY <1>7, <1>8, <1>9, <1>10, <1>11, <1>12, <1>13, <1>14, <1>15, <1>16

\* The history of a step that commits nothing
Uncommitted == past' = [committed |-> past.committed, saved |-> past'.saved,
                        undo |-> past'.undo]

LEMMA PastExcept ==
    ASSUME CommittedKept, NEW saved, NEW undo,
           \/ past' = [past EXCEPT !.saved = saved]
           \/ past' = [past EXCEPT !.undo = undo]
           \/ past' = [past EXCEPT !.saved = saved, !.undo = undo]
           \/ past' = past
    PROVE  Uncommitted
<1>1. past = [committed |-> past.committed, saved |-> past.saved, undo |-> past.undo]
  BY DEF CommittedKept
<1> QED BY <1>1 DEF Uncommitted

LEMMA UnmovedMild ==
    ASSUME IInv, UNCHANGED <<eState, dbOrigSize, dbSize, pages, jrn>>,
           sub' \in {sub, <<>>}, Uncommitted
    PROVE  Mild
<1> USE DEF IInv, PagesInv
<1>1. UNCHANGED <<file, cache, dirty, needSync, writeable>>
  BY DEF pages
<1>2. ASSUME NEW p \in Page PROVE MildPage(p)
  <2>1. /\ file[p] \in Value /\ cache[p] \in Value \cup {Absent}
        /\ p \in dirty => cache[p] # Absent
    BY DEF TypeOK, DirtyRecorded
  <2>2. p \notin dirty /\ p <= dbSize => cache[p] \in {Absent, file[p]}
    BY DEF CleanIsStored, Page
  <2> QED BY <1>1, <2>1, <2>2 DEF MildPage, Read
<1>3. dbSize \in Page /\ dbSize \in dbOrigSize .. dbSize
  BY PagesAssumption DEF TypeOK, Page
<1>4. file \in [Page -> Value] /\ cache \in [Page -> Value \cup {Absent}]
  BY DEF TypeOK
<1> QED BY <1>1, <1>2, <1>3, <1>4 DEF Mild, Uncommitted

LEMMA PlayBackMild ==
    ASSUME IInv, eState # "reader", UNCHANGED <<eState, dbOrigSize, jrn>>,
           sub' \in {sub, <<>>}, Uncommitted,
           NEW first \in Nat \ {0}, NEW firstSub \in Nat \ {0},
           NEW size \in dbOrigSize .. dbSize,
           PlayBack(Played(first, firstSub, size), size)
    PROVE  Mild
<1> DEFINE played == Played(first, firstSub, size)
<1> USE DEF IInv, PagesInv
<1>1. size \in Page /\ dbSize \in Page /\ dbOrigSize \in Page
  BY PagesAssumption DEF TypeOK, Page
<1>2. /\ file' = [p \in Page |-> FilePage(played, p)]
      /\ cache' = [p \in Page |-> CachePage(played, p)]
      /\ UNCHANGED <<writeable, needSync>>
  BY DEF PlayBack, FileAfter, CacheAfter
<1> HIDE DEF played
<1>3. ASSUME NEW p \in Page
      PROVE  /\ MildPage(p) /\ ~AddedToCache(played, p)
             /\ FilePage(played, p) \in Value
             /\ CachePage(played, p) \in Value \cup {Absent}
  <2>1. /\ ~AddedToCache(played, p)
        /\ FilePage(played, p) \in Value
        /\ CachePage(played, p) \in Value \cup {Absent}
        /\ \A i \in 1 .. Len(jrn) :
              Unsynced(i) /\ jrn[i].pgno = p => FilePage(played, p) = file[p]
        /\ p \notin dirty /\ p <= dbSize =>
              CachePage(played, p) \in {Absent, FilePage(played, p)}
        /\ p \notin DOMAIN played =>
              CachePage(played, p) = cache[p] /\ FilePage(played, p) = file[p]
        /\ cache[p] # Absent => CachePage(played, p) # Absent
    BY <1>1, PlaybackEffect DEF played
  <2>2. p \in dirty => cache[p] # Absent
    BY DEF DirtyRecorded
  <2>3. p <= dbOrigSize /\ p \notin pInJournal => p \notin DOMAIN played
    BY <1>1, OnlyRecordedPlayed DEF played
  <2>4. p <= dbOrigSize /\ p \notin pInJournal => Read(p)' = Read(p)
    BY <1>2, <2>1, <2>3 DEF Read
  <2> QED BY <1>2, <2>1, <2>2, <2>4 DEF MildPage
<1>4. UNCHANGED dirty /\ dbSize' = size
  BY <1>3 DEF PlayBack, played
<1>5. file' \in [Page -> Value] /\ cache' \in [Page -> Value \cup {Absent}]
  BY <1>2, <1>3
<1> QED BY <1>1, <1>2, <1>3, <1>4, <1>5 DEF Mild, Uncommitted

LEMMA FetchMild ==
    ASSUME IInv, NEW p \in Page, Fetch(p)
    PROVE  Mild
<1> USE DEF IInv, PagesInv
<1>1. /\ UNCHANGED <<eState, dbOrigSize, dbSize, file, dirty, writeable,
                      needSync, jrn, sub, past>>
      /\ cache' = [cache EXCEPT ![p] = file[p]] /\ cache[p] = Absent
  BY DEF Fetch, journals
<1>2. ASSUME NEW q \in Page PROVE MildPage(q)
  <2>1. /\ file[q] \in Value /\ cache[q] \in Value \cup {Absent}
        /\ q \in dirty => cache[q] # Absent
        /\ cache'[q] = IF q = p THEN file[q] ELSE cache[q]
        /\ Absent \notin Value
    BY <1>1, ValueAssumption DEF TypeOK, DirtyRecorded
  <2>2. q \notin dirty /\ q <= dbSize => cache[q] \in {Absent, file[q]}
    BY DEF CleanIsStored, Page
  <2> QED BY <1>1, <2>1, <2>2 DEF MildPage, Read
<1>3. dbSize \in Page /\ dbSize \in dbOrigSize .. dbSize
  BY PagesAssumption DEF TypeOK, Page
<1>4. Uncommitted
  BY <1>1, PastExcept
<1>5. file' \in [Page -> Value] /\ cache' \in [Page -> Value \cup {Absent}]
  BY <1>1 DEF TypeOK
<1> QED BY <1>1, <1>2, <1>3, <1>4, <1>5 DEF Mild, Uncommitted

LEMMA EvictMild ==
    ASSUME IInv, NEW p \in Page, Evict(p)
    PROVE  Mild
<1> USE DEF IInv, PagesInv
<1>1. /\ UNCHANGED <<eState, dbOrigSize, dbSize, file, dirty, writeable,
                      jrn, sub, past>>
      /\ cache' = [cache EXCEPT ![p] = Absent]
      /\ p \notin dirty /\ needSync' = needSync \ {p}
  BY DEF Evict, journals
<1>2. needSync' = needSync
  BY <1>1, NeedSyncDirty
<1>3. ASSUME NEW q \in Page PROVE MildPage(q)
  <2>1. /\ file[q] \in Value /\ cache[q] \in Value \cup {Absent}
        /\ q \in dirty => cache[q] # Absent
        /\ cache'[q] = IF q = p THEN Absent ELSE cache[q]
    BY <1>1 DEF TypeOK, DirtyRecorded
  <2>2. q \notin dirty /\ q <= dbSize => cache[q] \in {Absent, file[q]}
    BY DEF CleanIsStored, Page
  <2> QED BY <1>1, <2>1, <2>2 DEF MildPage, Read
<1>4. dbSize \in Page /\ dbSize \in dbOrigSize .. dbSize
  BY PagesAssumption DEF TypeOK, Page
<1>5. Uncommitted
  BY <1>1, PastExcept
<1>6. file' \in [Page -> Value] /\ cache' \in [Page -> Value \cup {Absent}]
  BY <1>1 DEF TypeOK
<1> QED BY <1>1, <1>2, <1>3, <1>4, <1>5, <1>6 DEF Mild, Uncommitted

------------------------------------------------------------------------------
(* A page goes to the database file, after a sync if its record needs one.  *)

\* A header more
LEMMA HeaderAppended ==
    ASSUME TypeOK, JournalShape, jrn' = Append(jrn, Header)
    PROVE  /\ Len(jrn') = Len(jrn) + 1 /\ Len(jrn) \in Nat
           /\ \A i \in 1 .. Len(jrn) : jrn'[i] = jrn[i]
           /\ IsHeader(jrn'[Len(jrn) + 1]) /\ jrn'[Len(jrn) + 1] = Header
           /\ \A i \in 1 .. Len(jrn') : i \in 1 .. Len(jrn) \/ i = Len(jrn) + 1
           /\ pInJournal' = pInJournal
<1>1. /\ Len(jrn') = Len(jrn) + 1 /\ Len(jrn) \in Nat
      /\ \A i \in 1 .. Len(jrn) : jrn'[i] = jrn[i]
      /\ jrn'[Len(jrn) + 1] = Header
  BY DEF TypeOK
<1>2. IsHeader(jrn'[Len(jrn) + 1]) /\ Header.pgno = 0
  BY <1>1 DEF IsHeader, Header
<1>3. \A i \in 1 .. Len(jrn') : i \in 1 .. Len(jrn) \/ i = Len(jrn) + 1
  BY <1>1
<1>4. ASSUME NEW p PROVE p \in pInJournal' <=> p \in pInJournal
  <2>1. p \in pInJournal' <=> p # 0 /\ \E i \in 1 .. Len(jrn') : jrn'[i].pgno = p
    BY DEF pInJournal
  <2>2. p \in pInJournal <=> p # 0 /\ \E i \in 1 .. Len(jrn) : jrn[i].pgno = p
    BY DEF pInJournal
  <2>3. \A i \in 1 .. Len(jrn) : i \in 1 .. Len(jrn')
    BY <1>1
  <2> QED BY <1>1, <1>2, <1>3, <2>1, <2>2, <2>3
<1> QED BY <1>1, <1>2, <1>3, <1>4

LEMMA SpillPages ==
    ASSUME IInv, NEW p \in Page, Spill(p)
    PROVE  PagesInv'
<1> USE DEF IInv, PagesInv
<1>1. /\ UNCHANGED <<dbSize, dbOrigSize, cache, sub, past>>
      /\ p \in dirty /\ dirty' = dirty \ {p}
      /\ file' = IF p <= dbSize THEN [file EXCEPT ![p] = cache[p]] ELSE file
  BY DEF Spill
<1>2. InTransaction
  BY <1>1 DEF NothingToUndo
<1> DEFINE synced == p \in needSync \/ eState = "cachemod"
<1>3. synced => jrn' = Append(jrn, Header) /\ eState' = "dbmod" /\ needSync' = {}
  BY DEF Spill
<1>4. ~synced => /\ UNCHANGED <<jrn, eState, needSync>>
                 /\ eState = "dbmod" /\ p \notin needSync
  BY <1>2 DEF Spill, InTransaction
<1> HIDE DEF synced
<1>5. eState' = "dbmod" /\ needSync' \subseteq needSync /\ pInJournal' = pInJournal
  BY <1>3, <1>4, HeaderAppended DEF pInJournal
<1>6. \A q \in Page : /\ file'[q] = IF q = p /\ p <= dbSize THEN cache[p] ELSE file[q]
                      /\ q \in dirty => cache[q] # Absent
  BY <1>1 DEF TypeOK, DirtyRecorded
<1>7. subPages' = subPages /\ touchedPages' \subseteq touchedPages
  BY <1>1, <1>5 DEF subPages, touchedPages
<1>8. JournalShape'
  <2>1. CASE synced
    <3>1. \A i \in 1 .. Len(jrn') : jrn'[i] = Header \/ jrn'[i] \in PageRecord
      BY <1>3, <2>1, HeaderAppended DEF JournalShape, PageRecord, Page
    <3>2. ASSUME NEW i \in 1 .. Len(jrn'), NEW j \in 1 .. Len(jrn'),
                 jrn'[i].pgno = jrn'[j].pgno
          PROVE  i = j \/ IsHeader(jrn'[i])
      BY <1>3, <2>1, <3>2, HeaderAppended DEF JournalShape, IsHeader
    <3>3. Len(jrn') > 0 /\ jrn'[1] = Header
      <4>1. Len(jrn) > 0 /\ jrn[1] = Header
        BY <1>2 DEF JournalShape
      <4> QED BY <4>1, <1>3, <2>1, HeaderAppended
    <3> QED BY <1>5, <3>1, <3>2, <3>3 DEF JournalShape, IsHeader, PageRecord
  <2>2. CASE ~synced
    BY <1>4, <1>5, <2>2 DEF JournalShape, InTransaction
  <2> QED BY <2>1, <2>2
<1>9. NothingToUndo'
  BY <1>5 DEF NothingToUndo, InTransaction
<1>10. DirtyRecorded'
  BY <1>1, <1>5, <1>7 DEF DirtyRecorded
<1>11. SectorRecorded'
  BY <1>1, <1>5, <1>7 DEF SectorRecorded, SectorOf
<1>12. SectorUnsynced'
  <2>1. CASE synced
    BY <1>3, <2>1 DEF SectorUnsynced
  <2>2. CASE ~synced
    <3> SUFFICES ASSUME NEW q \in needSync, NEW r \in Page, SectorOf(r) = SectorOf(q),
                        r <= q \/ r <= dbSize \/ r \in touchedPages'
                 PROVE  r \in needSync \cap (dirty \ {p})
      BY <1>1, <1>4, <2>2 DEF SectorUnsynced, SectorOf
    <3>1. r \in needSync \cap dirty
      BY <1>7 DEF SectorUnsynced
    <3> QED BY <1>4, <2>2, <3>1
  <2> QED BY <2>1, <2>2
<1>13. NotSpilled'
  BY <1>5 DEF NotSpilled
<1>14. UnsyncedStored'
  <2>1. CASE synced
    <3>1. \A i \in 1 .. Len(jrn') : ~Unsynced(i)'
      BY <1>3, <2>1, HeaderAppended DEF Unsynced
    <3> QED BY <3>1 DEF UnsyncedStored
  <2>2. CASE ~synced
    <3> SUFFICES ASSUME NEW i \in 1 .. Len(jrn), Unsynced(i)
                 PROVE  jrn[i].pgno \in needSync /\ jrn[i].data = file'[jrn[i].pgno]
      BY <1>4, <2>2 DEF UnsyncedStored, Unsynced
    <3>1. jrn[i].pgno \in needSync /\ jrn[i].data = file[jrn[i].pgno]
      BY DEF UnsyncedStored
    <3>2. jrn[i].pgno \in Page /\ jrn[i].pgno # p
      BY <1>4, <2>2, <3>1 DEF TypeOK
    <3> QED BY <1>6, <3>1, <3>2
  <2> QED BY <2>1, <2>2
<1>15. CleanIsStored'
  <2> SUFFICES ASSUME NEW q \in (1 .. dbSize) \ (dirty \ {p})
               PROVE  cache[q] \in {Absent, file'[q]}
    BY <1>1 DEF CleanIsStored
  <2>1. q \in Page /\ q <= dbSize
    BY PagesAssumption DEF TypeOK, Page
  <2>2. q # p => cache[q] \in {Absent, file[q]}
    BY DEF CleanIsStored
  <2> QED BY <1>6, <2>1, <2>2
<1>16. CommittedKept'
  <2>1. \A q \in Page : Read(q)' = Read(q)
    BY <1>1, <1>6 DEF Read
  <2>2. \A q \in 1 .. dbOrigSize : q \in Page
    BY PagesAssumption DEF TypeOK, Page
  <2>3. eState # "reader" /\ eState' # "reader" /\ eState' # "locked"
    BY <1>2, <1>5 DEF InTransaction
  <2>4. \A i \in 1 .. Len(jrn') : ~IsHeader(jrn'[i]) =>
           /\ jrn'[i].pgno <= dbOrigSize
           /\ jrn'[i].data = past.committed[jrn'[i].pgno]
    BY <1>3, <1>4, <2>3, HeaderAppended DEF CommittedKept
  <2> QED BY <1>1, <1>5, <2>1, <2>2, <2>3, <2>4 DEF CommittedKept, IsHeader
<1> QED BY <1>8, <1>9, <1>10, <1>11, <1>12, <1>13, <1>14, <1>15, <1>16

------------------------------------------------------------------------------
(* The end of a transaction.                                                *)

LEMMA EndPages ==
    ASSUME TypeOK, NEW newFile \in [Page -> Value],
           NEW newCache \in [Page -> Value \cup {Absent}], NEW size \in Page,
           EndTransaction(newFile, newCache, size), dbOrigSize <= size,
           \A p \in 1 .. size : newCache[p] \in {Absent, newFile[p]},
           past' = [committed |-> past'.committed, saved |-> past'.saved,
                    undo |-> past'.undo],
           past'.committed = [p \in 1 .. size |-> newFile[p]]
    PROVE  PagesInv' /\ SavepointSizes' /\ PageTypes' /\ SavepointTypes'
<1>1. /\ eState' = "reader" /\ dbSize' = size /\ file' = newFile
      /\ cache' = [p \in Page |-> IF p <= size THEN newCache[p] ELSE Absent]
      /\ dirty' = {} /\ needSync' = {}
      /\ jrn' = <<>> /\ sub' = <<>> /\ aSavepoint' = <<>>
  BY DEF EndTransaction
<1>2. pInJournal' = {} /\ subPages' = {} /\ touchedPages' = {}
  BY <1>1 DEF pInJournal, subPages, touchedPages
<1>3. \A p \in 1 .. size : cache'[p] \in {Absent, newFile[p]} /\ Read(p)' = newFile[p]
  <2>1. \A p \in 1 .. size : p \in Page /\ p <= size
    BY PagesAssumption DEF Page
  <2> QED BY <1>1, <2>1 DEF Read
<1>4. JournalShape' /\ NothingToUndo' /\ SavepointSizes'
  BY <1>1 DEF JournalShape, NothingToUndo, SavepointSizes, InTransaction
<1>5. DirtyRecorded' /\ SectorRecorded' /\ SectorUnsynced' /\ NotSpilled' /\ UnsyncedStored'
  BY <1>1, <1>2 DEF DirtyRecorded, SectorRecorded, SectorUnsynced, NotSpilled, UnsyncedStored
<1>6. CleanIsStored'
  BY <1>1, <1>3 DEF CleanIsStored
<1>7. past'.committed = Current'
  BY <1>1, <1>3 DEF Current
<1>8. CommittedKept'
  BY <1>1, <1>7 DEF CommittedKept
<1>9. PageTypes' /\ SavepointTypes'
  <2>1. dbOrigSize \in 1 .. size /\ dbOrigSize' = dbOrigSize /\ writeable' = {}
    BY PagesAssumption DEF TypeOK, Page, EndTransaction
  <2>2. cache' \in [Page -> Value \cup {Absent}]
    BY <1>1
  <2> QED BY <1>1, <2>1, <2>2, LimitsAssumption DEF PageTypes, SavepointTypes
<1> QED BY <1>4, <1>5, <1>6, <1>8, <1>9 DEF PagesInv

LEMMA CommitPages ==
    ASSUME IInv, CommitBtree
    PROVE  PagesInv' /\ SavepointSizes' /\ PageTypes' /\ SavepointTypes'
<1> USE DEF IInv, PagesInv
<1> DEFINE newFile == [p \in Page |-> IF p \in dirty /\ p <= dbSize
                                      THEN cache[p] ELSE file[p]]
<1>1. /\ past' = [committed |-> Current, saved |-> <<>>, undo |-> NoContents]
      /\ EndTransaction(newFile, cache, dbSize)
  BY DEF CommitBtree
<1>2. past'.committed = Current
      /\ past' = [committed |-> past'.committed, saved |-> past'.saved, undo |-> past'.undo]
  BY <1>1, PastFields
<1>3. \A p \in Page : p \in dirty => cache[p] \in Value
  BY DEF TypeOK, DirtyRecorded
<1>4. newFile \in [Page -> Value] /\ cache \in [Page -> Value \cup {Absent}]
      /\ dbSize \in Page /\ dbOrigSize <= dbSize
  BY <1>3, PagesAssumption DEF TypeOK, Page
<1>5. \A p \in 1 .. dbSize : p \in Page /\ p <= dbSize
  BY PagesAssumption DEF TypeOK, Page
<1>6. \A p \in 1 .. dbSize : cache[p] \in {Absent, newFile[p]} /\ newFile[p] = Read(p)
  BY <1>3, <1>5, ValueAssumption DEF CleanIsStored, Read
<1>7. Current = [p \in 1 .. dbSize |-> newFile[p]]
  BY <1>6 DEF Current
<1> HIDE DEF newFile
<1> QED BY <1>1, <1>2, <1>4, <1>6, <1>7, EndPages

\* The whole transaction undone, a page has in the file what it was committed
\* with, and the cache nothing else.
LEMMA RollbackRestores ==
    ASSUME IInv, InTransaction, NEW p \in 1 .. dbOrigSize
    PROVE  /\ p \in Page
           /\ FilePage(WholeTransaction, p) = past.committed[p]
           /\ CachePage(WholeTransaction, p) \in {Absent, past.committed[p]}
<1>1. p \in Page /\ p <= dbSize /\ dbOrigSize \in Page /\ p <= dbOrigSize
  BY PagesAssumption DEF IInv, TypeOK, Page
<1>2. 1 \in Nat \ {0} /\ Len(sub) + 1 \in Nat \ {0}
  BY DEF IInv, TypeOK
<1>3. /\ p \notin dirty =>
            CachePage(WholeTransaction, p) \in {Absent, FilePage(WholeTransaction, p)}
      /\ p \notin DOMAIN WholeTransaction =>
            /\ CachePage(WholeTransaction, p) = cache[p]
            /\ FilePage(WholeTransaction, p) = file[p]
  <2> DEFINE undone == WholeTransaction
  <2>1. undone = Played(1, Len(sub) + 1, dbOrigSize)
    BY DEF WholeTransaction
  <2> HIDE DEF undone
  <2>2. /\ p \notin dirty /\ p <= dbSize =>
             CachePage(undone, p) \in {Absent, FilePage(undone, p)}
        /\ p \notin DOMAIN undone =>
             CachePage(undone, p) = cache[p] /\ FilePage(undone, p) = file[p]
    BY <1>1, <1>2, <2>1, PlaybackEffect
  <2> QED BY <1>1, <2>2 DEF undone
<1> USE DEF IInv, PagesInv
<1>4. eState # "reader"
  BY DEF InTransaction
<1>5. CASE p \in pInJournal
  <2>1. PICK i \in 1 .. Len(jrn) :
           jrn[i].pgno = p /\ ~IsHeader(jrn[i]) /\ FromMain(WholeTransaction[p], i)
    BY <1>1, <1>5, WholePlayed
  <2>2. p \in DOMAIN WholeTransaction
    BY <1>1, <1>5, WholePlayed
  <2>3. jrn[i].data = past.committed[p]
    BY <1>4, <2>1 DEF CommittedKept
  <2>4. WholeTransaction[p].data = past.committed[p]
    BY <2>1, <2>3 DEF FromMain
  <2>5. ASSUME ~ToFile(WholeTransaction, p) PROVE file[p] = past.committed[p]
    <3>1. CASE eState = "cachemod"
      <4>1. Len(jrn) \in Nat /\ jrn[1] = Header /\ \A h \in 1 .. Len(jrn) : IsHeader(jrn[h]) => h = 1
        BY <3>1 DEF JournalShape, InTransaction, TypeOK
      <4>2. IsHeader(Header)
        BY DEF IsHeader, Header
      <4>3. 1 < i
        BY <2>1, <4>1, <4>2
      <4>4. Unsynced(i)
        BY <4>1, <4>3 DEF Unsynced
      <4> QED BY <2>1, <2>3, <4>4 DEF UnsyncedStored
    <3>2. CASE eState = "dbmod"
      <4>1. ~ (i < journalHdr)
        BY <2>1, <2>2, <2>5, <3>2 DEF ToFile, FromMain
      <4>2. i # journalHdr /\ journalHdr \in Int /\ (Unsynced(i) <=> journalHdr < i)
        BY <2>1, JournalHdr
      <4>3. Unsynced(i)
        BY <4>1, <4>2
      <4> QED BY <2>1, <2>3, <4>3 DEF UnsyncedStored
    <3> QED BY <3>1, <3>2 DEF InTransaction
  <2>6. FilePage(WholeTransaction, p) = past.committed[p]
    BY <2>4, <2>5 DEF FilePage
  <2>7. p \in dirty => CachePage(WholeTransaction, p) = past.committed[p]
    BY <2>2, <2>4 DEF CachePage, DirtyRecorded
  <2> QED BY <1>1, <1>3, <2>6, <2>7
<1>6. CASE p \notin pInJournal
  <2>1. p \notin DOMAIN WholeTransaction
    BY <1>1, <1>2, <1>6, OnlyRecordedPlayed DEF WholeTransaction
  <2>2. p \notin dirty
    BY <1>1, <1>6 DEF DirtyRecorded
  <2>3. Read(p) = past.committed[p]
    BY <1>4, <1>6 DEF CommittedKept
  <2>4. cache[p] \in {Absent, file[p]}
    BY <1>1, <2>2 DEF CleanIsStored, Page
  <2>5. file[p] = past.committed[p]
    BY <2>3, <2>4 DEF Read
  <2> QED BY <1>1, <1>3, <2>1, <2>2, <2>5
<1> QED BY <1>5, <1>6

LEMMA RollbackPages ==
    ASSUME IInv, RollbackAll
    PROVE  PagesInv' /\ SavepointSizes' /\ PageTypes' /\ SavepointTypes'
<1> USE DEF IInv, PagesInv
<1>1. past' = [past EXCEPT !.saved = <<>>, !.undo = NoContents]
  BY DEF RollbackAll
<1>2. Uncommitted
  BY <1>1, PastExcept
<1>3. /\ past' = [committed |-> past'.committed, saved |-> past'.saved, undo |-> past'.undo]
      /\ past'.committed = past.committed
  BY <1>2, PastFields DEF Uncommitted
<1>4. dbSize \in Page /\ dbOrigSize \in Page /\ dbOrigSize <= dbSize
      /\ dbOrigSize <= dbOrigSize /\ \A p \in 1 .. dbSize : p \in Page
  BY PagesAssumption DEF TypeOK, Page
<1>5. CASE InTransaction
  <2> DEFINE newFile == FileAfter(WholeTransaction)
             newCache == CacheAfter(WholeTransaction)
  <2>1. EndTransaction(newFile, newCache, dbOrigSize)
    BY <1>5 DEF RollbackAll, InTransaction
  <2>2. 1 \in Nat \ {0} /\ Len(sub) + 1 \in Nat \ {0}
    BY DEF TypeOK
  <2>3. \A p \in Page : /\ FilePage(WholeTransaction, p) \in Value
                        /\ CachePage(WholeTransaction, p) \in Value \cup {Absent}
    BY <1>4, <2>2, PlaybackEffect DEF WholeTransaction
  <2>4. newFile \in [Page -> Value] /\ newCache \in [Page -> Value \cup {Absent}]
    BY <2>3 DEF FileAfter, CacheAfter
  <2>5. \A p \in 1 .. dbOrigSize : /\ newCache[p] \in {Absent, newFile[p]}
                                   /\ newFile[p] = past.committed[p]
    BY <1>5, RollbackRestores DEF FileAfter, CacheAfter
  <2>6. past.committed \in [1 .. dbOrigSize -> Value]
    BY <1>5 DEF CommittedKept, InTransaction
  <2>7. past'.committed = [p \in 1 .. dbOrigSize |-> newFile[p]]
    BY <1>3, <2>5, <2>6
  <2> HIDE DEF newFile, newCache
  <2> QED BY <1>3, <1>4, <2>1, <2>4, <2>5, <2>7, EndPages
<1>6. CASE ~InTransaction
  <2>1. EndTransaction(file, cache, dbSize)
    BY <1>6 DEF RollbackAll, InTransaction
  <2>2. dirty = {} /\ pInJournal = {}
    BY <1>6 DEF NothingToUndo, pInJournal
  <2>3. \A p \in 1 .. dbSize : cache[p] \in {Absent, file[p]} /\ Read(p) = file[p]
    BY <2>2 DEF CleanIsStored, Read
  <2>4. past.committed = [p \in 1 .. dbSize |-> file[p]]
    <3>1. CASE eState = "reader"
      BY <2>3, <3>1 DEF CommittedKept, Current
    <3>2. CASE eState = "locked"
      <4>1. /\ past.committed \in [1 .. dbSize -> Value]
            /\ \A p \in (1 .. dbSize) \ pInJournal : Read(p) = past.committed[p]
        BY <3>2 DEF CommittedKept
      <4>2. \A p \in 1 .. dbSize : past.committed[p] = file[p]
        BY <2>2, <2>3, <4>1
      <4> QED BY <4>1, <4>2
    <3> QED BY <1>6, <3>1, <3>2 DEF InTransaction, TypeOK
  <2>5. file \in [Page -> Value] /\ cache \in [Page -> Value \cup {Absent}]
    BY DEF TypeOK
  <2> QED BY <1>3, <1>4, <2>1, <2>3, <2>4, <2>5, EndPages
<1> QED BY <1>5, <1>6

------------------------------------------------------------------------------
(* A page is written.                                                       *)

\* The pages of a sector, and those of them that are recorded with page p
LEMMA WriteSets ==
    ASSUME IInv, NEW p \in Page, NEW data \in Value, Write(p, data)
    PROVE  /\ \A q : q \in Sector(p) <=>
                 q \in Page /\ q <= dbSize' /\ SectorOf(q) = SectorOf(p)
           /\ p \in Sector(p) /\ Touched(p) \subseteq Sector(p)
           /\ p \notin Touched(p) => /\ Touched(p) = {}
                                     /\ p \in dirty /\ p <= dbSize
           /\ \A q \in Sector(p) :
                 Touched(p) # {} => q \in Touched(p) \/ q \in pInJournal
           /\ MainRecorded(p) \subseteq Touched(p)
           /\ MainRecorded(p) \cap pInJournal = {}
           /\ \A q \in Touched(p) :
                 q <= dbOrigSize => q \in MainRecorded(p) \cup pInJournal
           /\ \A q \in MainRecorded(p) : q <= dbOrigSize
           /\ SubRecorded(p, MainRecorded(p)) \subseteq Touched(p) \cup {p}
           /\ dbSize' = (IF p > dbSize THEN p ELSE dbSize)
           /\ p <= dbSize + 1 /\ dbSize' \in Page
<1> USE DEF IInv
<1>1. dbSize \in Page /\ dbSize \in Int /\ p \in Int /\ p >= 1 /\ MaxPages \in Nat
  BY PagesAssumption DEF TypeOK, Page
<1>2. dbSize' = Max2(dbSize, p) /\ p <= dbSize + 1
  BY DEF Write
<1>3. dbSize' = (IF p > dbSize THEN p ELSE dbSize) /\ dbSize' \in Page
  BY <1>1, <1>2 DEF Max2, Page
<1>4. Max2(p, dbSize) = dbSize'
  BY <1>1, <1>3 DEF Max2
<1>5. Sector(p) = {q \in 1 .. dbSize' : SectorOf(q) = SectorOf(p)}
  BY <1>4 DEF Sector
<1>6. \A q : q \in 1 .. dbSize' <=> q \in Page /\ q <= dbSize'
  BY <1>1, <1>3 DEF Page
<1>7. \A q : q \in Sector(p) <=> q \in Page /\ q <= dbSize' /\ SectorOf(q) = SectorOf(p)
  BY <1>5, <1>6
<1>8. p \in Sector(p)
  BY <1>1, <1>3, <1>7
<1>9. CASE p \in writeable /\ p <= dbSize
  <2>1. Touched(p) = {} /\ p \in dirty
    BY <1>9 DEF Touched, TypeOK
  <2> QED BY <1>2, <1>3, <1>7, <1>8, <1>9, <2>1 DEF MainRecorded, SubRecorded
<1>10. CASE ~ (p \in writeable /\ p <= dbSize)
  <2>1. Touched(p) = {q \in Sector(p) : q = p \/ q \notin pInJournal}
    BY <1>10 DEF Touched
  <2> QED BY <1>2, <1>3, <1>7, <1>8, <2>1 DEF MainRecorded, SubRecorded
<1> QED BY <1>9, <1>10

\* The records of a write, behind those there were
LEMMA WriteJournal ==
    ASSUME IInv, NEW p \in Page, NEW data \in Value, Write(p, data)
    PROVE  /\ JournalShape' /\ InTransaction'
           /\ jrn' \in Seq([pgno : 0 .. MaxPages, data : Value \cup {Absent}])
           /\ pInJournal' = pInJournal \cup MainRecorded(p)
           /\ \A i \in 1 .. Len(jrn') :
                 \/ IsHeader(jrn'[i])
                 \/ /\ i \in 1 .. Len(jrn) /\ jrn'[i] = jrn[i]
                    /\ Unsynced(i)' => Unsynced(i)
                 \/ /\ jrn'[i].pgno \in MainRecorded(p)
                    /\ jrn'[i].data = Read(jrn'[i].pgno)
<1> USE DEF IInv, PagesInv
<1> DEFINE b == IF eState = "locked" THEN <<Header>> ELSE jrn
           main == MainRecorded(p)
           r == Records(main)
           Entry == [pgno : 0 .. MaxPages, data : Value \cup {Absent}]
<1>1. main \in SUBSET Page /\ main \cap pInJournal = {}
  BY WriteSets
<1>2. /\ r \in Seq(PageRecord)
      /\ \A i \in 1 .. Len(r) : r[i].pgno \in main /\ r[i].data = Read(r[i].pgno)
      /\ \A i, j \in 1 .. Len(r) : r[i].pgno = r[j].pgno => i = j
      /\ \A q \in main : \E i \in 1 .. Len(r) : r[i].pgno = q
  BY <1>1, RecordsProperties
<1>3. jrn' = b \o r /\ eState' = (IF eState = "locked" THEN "cachemod" ELSE eState)
  BY DEF Write
<1>4. eState # "reader" /\ eState \in {"locked", "cachemod", "dbmod"}
  BY DEF Write, StatementLocks, TypeOK
<1>5. PageRecord \subseteq Entry /\ Header \in Entry /\ IsHeader(Header)
      /\ \A e \in PageRecord : ~IsHeader(e) /\ e.pgno \in Page
  BY PagesAssumption DEF PageRecord, Header, IsHeader, Page
<1>6. /\ b \in Seq(Entry) /\ Len(b) \in Nat /\ Len(b) > 0 /\ b[1] = Header
      /\ \A i \in 1 .. Len(b) : b[i] = Header \/ b[i] \in PageRecord
      /\ \A i, j \in 1 .. Len(b) : b[i].pgno = b[j].pgno => i = j \/ IsHeader(b[i])
      /\ eState # "dbmod" => \A i \in 1 .. Len(b) : IsHeader(b[i]) => i = 1
      /\ \A i \in 1 .. Len(b) : ~IsHeader(b[i]) => i \in 1 .. Len(jrn) /\ b[i] = jrn[i]
      /\ \A i \in 1 .. Len(jrn) : i \in 1 .. Len(b) /\ b[i] = jrn[i]
  <2>1. CASE eState = "locked"
    <3>1. jrn = <<>> /\ b = <<Header>>
      BY <2>1 DEF NothingToUndo, InTransaction
    <3> HIDE DEF b
    <3> QED BY <1>5, <3>1
  <2>2. CASE eState # "locked"
    <3>1. InTransaction /\ b = jrn
      BY <1>4, <2>2 DEF InTransaction
    <3>2. jrn \in Seq(Entry)
      BY DEF TypeOK
    <3> HIDE DEF b, Entry
    <3> QED BY <1>4, <3>1, <3>2 DEF JournalShape, InTransaction
  <2> QED BY <2>1, <2>2
<1>7. InTransaction'
  BY <1>3, <1>4 DEF InTransaction
<1> HIDE DEF b, r, Entry, main
<1>8. /\ Len(jrn') = Len(b) + Len(r) /\ Len(r) \in Nat /\ jrn' \in Seq(Entry)
      /\ \A i \in 1 .. Len(b) : jrn'[i] = b[i] /\ i \in 1 .. Len(jrn')
      /\ \A i \in 1 .. Len(r) : /\ Len(b) + i \in 1 .. Len(jrn')
                                /\ jrn'[Len(b) + i] = r[i]
  <2>1. r \in Seq(Entry)
    BY <1>2, <1>5
  <2> QED BY <1>3, <1>6, <2>1
<1>9. \A i \in 1 .. Len(jrn') : i \in 1 .. Len(b) \/ \E k \in 1 .. Len(r) : i = Len(b) + k
  <2> SUFFICES ASSUME NEW i \in 1 .. Len(jrn'), i \notin 1 .. Len(b)
               PROVE  i - Len(b) \in 1 .. Len(r) /\ i = Len(b) + (i - Len(b))
    OBVIOUS
  <2> QED BY <1>6, <1>8
<1>10. \A k \in 1 .. Len(r) : r[k] \in PageRecord
  BY <1>2, SeqElement
<1>11. ASSUME NEW i \in 1 .. Len(b), ~IsHeader(b[i])
       PROVE  b[i].pgno \in pInJournal /\ b[i].pgno \notin main
  <2>1. i \in 1 .. Len(jrn) /\ jrn[i].pgno = b[i].pgno /\ b[i].pgno # 0
    BY <1>6, <1>11 DEF IsHeader
  <2> QED BY <1>1, <2>1 DEF pInJournal, main
<1>12. JournalShape'
  <2>1. \A i \in 1 .. Len(jrn') : jrn'[i] = Header \/ jrn'[i] \in PageRecord
    <3> TAKE i \in 1 .. Len(jrn')
    <3>1. CASE i \in 1 .. Len(b)
      BY <1>6, <1>8, <3>1
    <3>2. CASE \E k \in 1 .. Len(r) : i = Len(b) + k
      BY <1>8, <1>10, <3>2
    <3> QED BY <1>9, <3>1, <3>2
  <2>2. ASSUME NEW i \in 1 .. Len(jrn'), NEW j \in 1 .. Len(jrn'),
               jrn'[i].pgno = jrn'[j].pgno, ~IsHeader(jrn'[i])
        PROVE  i = j
    <3>1. ~IsHeader(jrn'[j])
      BY <2>2 DEF IsHeader
    <3>2. CASE i \in 1 .. Len(b) /\ j \in 1 .. Len(b)
      BY <1>6, <1>8, <2>2, <3>2
    <3>3. CASE i \in 1 .. Len(b) /\ \E k \in 1 .. Len(r) : j = Len(b) + k
      BY <1>2, <1>8, <1>11, <2>2, <3>3
    <3>4. CASE j \in 1 .. Len(b) /\ \E k \in 1 .. Len(r) : i = Len(b) + k
      BY <1>2, <1>8, <1>11, <2>2, <3>1, <3>4
    <3>5. CASE /\ \E k \in 1 .. Len(r) : i = Len(b) + k
               /\ \E k \in 1 .. Len(r) : j = Len(b) + k
      <4>1. PICK k \in 1 .. Len(r), l \in 1 .. Len(r) :
               i = Len(b) + k /\ j = Len(b) + l
        BY <3>5
      <4>2. jrn'[i] = r[k] /\ jrn'[j] = r[l]
        BY <1>8, <4>1
      <4>3. k = l
        BY <1>2, <2>2, <4>2
      <4> QED BY <4>1, <4>3
    <3> QED BY <1>9, <3>2, <3>3, <3>4, <3>5
  <2>3. Len(jrn') > 0 /\ jrn'[1] = Header
    BY <1>6, <1>8
  <2>4. ASSUME eState' = "cachemod", NEW i \in 1 .. Len(jrn'), IsHeader(jrn'[i])
        PROVE  i = 1
    <3>1. eState # "dbmod"
      BY <1>3, <2>4
    <3>2. i \in 1 .. Len(b)
      BY <1>5, <1>8, <1>9, <1>10, <2>4
    <3> QED BY <1>6, <1>8, <2>4, <3>1, <3>2
  <2> QED BY <2>1, <2>2, <2>3, <2>4 DEF JournalShape, IsHeader, PageRecord
<1>13. ASSUME NEW i \in 1 .. Len(jrn'), ~IsHeader(jrn'[i])
       PROVE  \/ /\ i \in 1 .. Len(jrn) /\ jrn'[i] = jrn[i]
                 /\ Unsynced(i)' => Unsynced(i)
              \/ jrn'[i].pgno \in main /\ jrn'[i].data = Read(jrn'[i].pgno)
  <2>1. CASE i \in 1 .. Len(b)
    <3>1. i \in 1 .. Len(jrn) /\ jrn'[i] = jrn[i]
      BY <1>6, <1>8, <1>13, <2>1
    <3>2. \A h \in 1 .. Len(jrn) : h \in 1 .. Len(jrn') /\ jrn'[h] = jrn[h]
      BY <1>6, <1>8
    <3>3. Unsynced(i)' => Unsynced(i)
      BY <3>1, <3>2 DEF Unsynced, IsHeader
    <3> QED BY <3>1, <3>3
  <2>2. CASE \E k \in 1 .. Len(r) : i = Len(b) + k
    BY <1>2, <1>8, <2>2
  <2> QED BY <1>9, <2>1, <2>2
<1>14. pInJournal' = pInJournal \cup main
  <2>1. \A q : q \in pInJournal' <=> q # 0 /\ \E i \in 1 .. Len(jrn') : jrn'[i].pgno = q
    BY DEF pInJournal
  <2>2. \A q : q \in pInJournal <=> q # 0 /\ \E i \in 1 .. Len(jrn) : jrn[i].pgno = q
    BY DEF pInJournal
  <2>3. \A q \in main : q # 0
    BY <1>1, PagesAssumption DEF Page, main
  <2>4. ASSUME NEW q \in pInJournal' PROVE q \in pInJournal \cup main
    <3>1. PICK i \in 1 .. Len(jrn') : jrn'[i].pgno = q /\ q # 0
      BY <2>1
    <3>2. ~IsHeader(jrn'[i])
      BY <3>1 DEF IsHeader
    <3> QED BY <1>13, <2>2, <3>1, <3>2
  <2>5. ASSUME NEW q \in pInJournal PROVE q \in pInJournal'
    BY <1>6, <1>8, <2>1, <2>2
  <2>6. ASSUME NEW q \in main PROVE q \in pInJournal'
    BY <1>2, <1>8, <2>1, <2>3
  <2> QED BY <2>4, <2>5, <2>6
<1> QED BY <1>7, <1>8, <1>12, <1>13, <1>14 DEF main, Entry

\* The pages of the journals and the cache after a write
LEMMA WriteTouched ==
    ASSUME IInv, NEW p \in Page, NEW data \in Value, Write(p, data)
    PROVE  /\ dirty' = dirty \cup Touched(p)
           /\ touchedPages' = touchedPages \cup Touched(p)
           /\ \A q \in subPages' : q \in subPages \cup Touched(p) \cup dirty
           /\ \A q \in Page : q # p => Read(q)' = Read(q)
           /\ cache' \in [Page -> Value \cup {Absent}] /\ cache'[p] = data
           /\ \A q \in Page : q \in Touched(p) => cache'[q] # Absent
           /\ \A q \in Page : q \notin Touched(p) \cup {p} => cache'[q] = cache[q]
<1> USE DEF IInv, PagesInv
<1> DEFINE more == SubRecorded(p, MainRecorded(p))
<1>1. /\ dirty' = dirty \cup Touched(p)
      /\ sub' = sub \o Records(more)
      /\ cache' = [q \in Page |-> IF q = p THEN data
                                  ELSE IF q \in Touched(p) THEN Read(q)
                                  ELSE cache[q]]
      /\ UNCHANGED file
  BY DEF Write
<1>2. more \subseteq Touched(p) \cup {p} /\ (p \notin Touched(p) => p \in dirty)
      /\ MainRecorded(p) \subseteq Touched(p) /\ more \in SUBSET Page
      /\ Touched(p) \subseteq Page
  <2>1. Touched(p) \subseteq Page
    BY WriteSets
  <2> QED BY <2>1, WriteSets
<1>3. sub \in Seq(PageRecord)
  BY DEF TypeOK, PageRecord
<1>4. /\ Records(more) \in Seq(PageRecord)
      /\ \A i \in 1 .. Len(Records(more)) : Records(more)[i].pgno \in more
  BY <1>2, RecordsProperties
<1> HIDE DEF more
<1>5. ASSUME NEW i \in 1 .. Len(sub')
      PROVE  sub'[i].pgno \in subPages \cup more
  <2>1. CASE i \in 1 .. Len(sub)
    <3>1. sub'[i] = sub[i]
      BY <1>1, <1>3, <1>4, <2>1
    <3> QED BY <2>1, <3>1 DEF subPages
  <2>2. CASE i \notin 1 .. Len(sub)
    <3>1. i - Len(sub) \in 1 .. Len(Records(more)) /\ sub'[i] = Records(more)[i - Len(sub)]
      BY <1>1, <1>3, <1>4, <2>2
    <3> QED BY <1>4, <3>1
  <2> QED BY <2>1, <2>2
<1>6. subPages \subseteq subPages'
  <2>1. \A i \in 1 .. Len(sub) : i \in 1 .. Len(sub') /\ sub'[i] = sub[i]
    BY <1>1, <1>3, <1>4
  <2> QED BY <2>1 DEF subPages
<1>7. \A q \in subPages' : q \in subPages \cup Touched(p) \cup dirty
  <2>1. \A q \in subPages' : q \in subPages \cup more
    BY <1>5 DEF subPages
  <2> QED BY <1>2, <2>1
<1>8. pInJournal' = pInJournal \cup MainRecorded(p)
  BY WriteJournal
<1>9. touchedPages' = touchedPages \cup Touched(p)
  BY <1>1, <1>2, <1>6, <1>7, <1>8 DEF touchedPages
<1>10. \A q \in Page : Read(q) \in Value /\ file[q] \in Value
  BY DEF TypeOK, Read
<1>11. cache' \in [Page -> Value \cup {Absent}] /\ cache'[p] = data
  BY <1>1, <1>10 DEF TypeOK
<1>12. \A q \in Page : q # p => Read(q)' = Read(q)
  <2> SUFFICES ASSUME NEW q \in Page, q # p PROVE Read(q)' = Read(q)
    OBVIOUS
  <2>1. cache'[q] = IF q \in Touched(p) THEN Read(q) ELSE cache[q]
    BY <1>1
  <2>2. Read(q) # Absent
    BY <1>10, ValueAssumption
  <2>3. CASE q \in Touched(p)
    BY <2>1, <2>2, <2>3 DEF Read
  <2>4. CASE q \notin Touched(p)
    BY <1>1, <2>1, <2>4 DEF Read
  <2> QED BY <2>3, <2>4
<1>13. ASSUME NEW q \in Page, q \in Touched(p) PROVE cache'[q] # Absent
  BY <1>1, <1>10, <1>13, ValueAssumption
<1>14. ASSUME NEW q \in Page, q \notin Touched(p) \cup {p} PROVE cache'[q] = cache[q]
  BY <1>1, <1>14
<1> QED BY <1>1, <1>7, <1>9, <1>11, <1>12, <1>13, <1>14

\* What a write makes need a sync: its whole sector, or nothing
LEMMA WriteNeedSync ==
    ASSUME IInv, NEW p \in Page, NEW data \in Value, Write(p, data)
    PROVE  /\ needSync \subseteq needSync' /\ needSync' \subseteq needSync \cup Sector(p)
           /\ MainRecorded(p) \subseteq needSync'
           /\ Touched(p) = {} => needSync' = needSync
           /\ Touched(p) # {} /\ needSync \cap Sector(p) # {} =>
                 Touched(p) \subseteq needSync'
           /\ needSync' # needSync /\ needSync \cap Sector(p) = {} =>
                 /\ Touched(p) \subseteq needSync'
                 /\ \/ MainRecorded(p) # {}
                    \/ eState # "dbmod"
           /\ eState # "dbmod" => Touched(p) \subseteq needSync'
<1> USE DEF IInv, PagesInv
<1> DEFINE main == MainRecorded(p)
           appended == {q \in Touched(p) : q > dbOrigSize /\ eState # "dbmod"}
           cached == {q \in Page : cache[q] # Absent} \cup Touched(p)
           need == (needSync \cup main \cup appended) \cap Sector(p)
<1>1. needSync' = IF Touched(p) # {} /\ need # {}
                  THEN needSync \cup (Sector(p) \cap cached) ELSE needSync
  BY DEF Write, NeedSyncAfter
<1>2. /\ Touched(p) \subseteq Sector(p) /\ main \subseteq Touched(p)
      /\ p \in Sector(p) /\ (Touched(p) # {} => p \in Touched(p))
      /\ \A q \in Touched(p) : q <= dbOrigSize => q \in main \cup pInJournal
  BY WriteSets
<1>3. Touched(p) \subseteq Sector(p) \cap cached
  BY <1>2
<1>4. eState # "dbmod" /\ Touched(p) # {} => need # {}
  <2> SUFFICES ASSUME eState # "dbmod", p \in Touched(p) PROVE p \in need
    BY <1>2
  <2>1. p \in Int /\ dbOrigSize \in Int
    BY PagesAssumption DEF TypeOK, Page
  <2>2. CASE p > dbOrigSize
    BY <1>2, <2>2
  <2>3. CASE p <= dbOrigSize
    <3>1. p \in main \/ p \in pInJournal
      BY <1>2, <2>3
    <3>2. p \in pInJournal => p \in needSync
      <4>1. eState = "cachemod" => touchedPages \subseteq needSync
        BY DEF NotSpilled
      <4>2. p \in pInJournal => InTransaction
        BY DEF NothingToUndo, pInJournal
      <4> QED BY <4>1, <4>2 DEF InTransaction, touchedPages
    <3> QED BY <1>2, <3>1, <3>2
  <2> QED BY <2>1, <2>2, <2>3
<1>5. main # {} => need # {} /\ Touched(p) # {}
  BY <1>2
<1>6. needSync \cap Sector(p) # {} => need # {}
  OBVIOUS
<1>7. need # {} /\ needSync \cap Sector(p) = {} => main # {} \/ eState # "dbmod"
  OBVIOUS
<1> HIDE DEF main, cached, need, appended
<1> QED BY <1>1, <1>2, <1>3, <1>4, <1>5, <1>6, <1>7 DEF main

LEMMA WriteSectors ==
    ASSUME IInv, NEW p \in Page, NEW data \in Value, Write(p, data)
    PROVE  SectorRecorded' /\ SectorUnsynced' /\ NotSpilled'
<1> USE DEF IInv, PagesInv
<1> DEFINE S == Touched(p)
<1>1. /\ dirty' = dirty \cup S /\ touchedPages' = touchedPages \cup S
      /\ dbOrigSize' = dbOrigSize
      /\ pInJournal' = pInJournal \cup MainRecorded(p)
      /\ eState' = (IF eState = "locked" THEN "cachemod" ELSE eState)
  BY WriteTouched, WriteJournal DEF Write
<1>2. /\ \A q : q \in Sector(p) <=> q \in Page /\ q <= dbSize' /\ SectorOf(q) = SectorOf(p)
      /\ p \in Sector(p) /\ S \subseteq Sector(p)
      /\ p \notin S => S = {} /\ p \in dirty /\ p <= dbSize
      /\ \A q \in Sector(p) : S # {} => q \in S \/ q \in pInJournal
      /\ MainRecorded(p) \subseteq S /\ MainRecorded(p) \cap pInJournal = {}
      /\ \A q \in S : q <= dbOrigSize => q \in MainRecorded(p) \cup pInJournal
      /\ \A q \in MainRecorded(p) : q <= dbOrigSize
      /\ dbSize' = (IF p > dbSize THEN p ELSE dbSize)
      /\ p <= dbSize + 1
  BY WriteSets
<1>3. /\ needSync \subseteq needSync' /\ needSync' \subseteq needSync \cup Sector(p)
      /\ S = {} => needSync' = needSync
      /\ S # {} /\ needSync \cap Sector(p) # {} => S \subseteq needSync'
      /\ needSync' # needSync /\ needSync \cap Sector(p) = {} =>
            S \subseteq needSync' /\ (MainRecorded(p) # {} \/ eState # "dbmod")
      /\ eState # "dbmod" => S \subseteq needSync'
  BY WriteNeedSync
<1>4. /\ dbSize \in Int /\ p \in Int /\ dbOrigSize \in Int /\ dbOrigSize <= dbSize
      /\ \A q \in Page : q \in Int /\ q >= 1
      /\ \A q \in 1 .. dbOrigSize : q \in Page /\ q <= dbOrigSize
      /\ needSync \subseteq Page
  BY PagesAssumption DEF TypeOK, Page
<1>5. eState # "dbmod" => touchedPages \subseteq needSync
  <2>1. eState = "cachemod" => touchedPages \subseteq needSync
    BY DEF NotSpilled
  <2>2. ~InTransaction => touchedPages = {}
    BY DEF NothingToUndo, touchedPages, pInJournal, subPages
  <2> QED BY <2>1, <2>2 DEF InTransaction
<1> HIDE DEF S
<1>6. SectorRecorded'
  <2> SUFFICES ASSUME NEW r \in touchedPages \cup S, NEW q \in 1 .. dbOrigSize,
                      SectorOf(q) = SectorOf(r)
               PROVE  q \in pInJournal \cup MainRecorded(p)
    BY <1>1 DEF SectorRecorded, SectorOf
  <2>1. CASE r \in touchedPages
    BY <2>1 DEF SectorRecorded
  <2>2. CASE r \in S
    <3>1. q \in Page /\ q <= dbSize' /\ q <= dbOrigSize
      BY <1>2, <1>4
    <3>2. q \in Sector(p)
      BY <1>2, <2>2, <3>1
    <3> QED BY <1>2, <2>2, <3>1, <3>2
  <2> QED BY <2>1, <2>2
<1>7. NotSpilled'
  BY <1>1, <1>3, <1>5 DEF NotSpilled
<1>8. SectorUnsynced'
  <2> SUFFICES ASSUME NEW q \in needSync', NEW r \in Page, SectorOf(r) = SectorOf(q),
                      r <= q \/ r <= dbSize' \/ r \in touchedPages \cup S
               PROVE  r \in needSync' /\ r \in dirty \cup S
    BY <1>1 DEF SectorUnsynced, SectorOf
  <2>1. ASSUME NEW o \in needSync, SectorOf(r) = SectorOf(o),
               r <= o \/ r <= dbSize \/ r \in touchedPages
        PROVE  r \in needSync' /\ r \in dirty
    BY <1>3, <2>1 DEF SectorUnsynced
  <2>2. q \in needSync \/ q \in Sector(p)
    BY <1>3
  <2>3. q \in Int /\ r \in Int
    BY <1>2, <1>4, <2>2
  <2>4. CASE SectorOf(q) # SectorOf(p)
    <3>1. q \in needSync /\ r \notin S /\ r # p
      BY <1>2, <2>2, <2>4
    <3>2. r <= dbSize' => r <= dbSize
      BY <1>2, <1>4, <2>3, <3>1
    <3> QED BY <2>1, <3>1, <3>2
  <2>5. CASE S = {}
    <3>1. q \in needSync /\ dbSize' = dbSize
      BY <1>2, <1>3, <1>4, <2>5
    <3> QED BY <2>1, <2>5, <3>1
  <2>6. CASE S # {} /\ SectorOf(q) = SectorOf(p)
    <3>1. p \in S /\ (r <= dbSize' => r \in Sector(p))
      BY <1>2, <2>6
    <3>2. CASE \E o \in needSync : SectorOf(o) = SectorOf(p)
      <4>1. PICK o \in needSync : SectorOf(o) = SectorOf(p)
        BY <3>2
      <4>2. needSync \cap Sector(p) # {}
        <5>1. p <= dbSize \/ p <= o => p \in needSync
          BY <4>1 DEF SectorUnsynced
        <5>2. o <= dbSize' => o \in Sector(p)
          BY <1>2, <1>4, <4>1
        <5> QED BY <1>2, <1>4, <4>1, <5>1, <5>2
      <4>3. S \subseteq needSync'
        BY <1>3, <2>6, <4>2
      <4>4. CASE r \in S
        BY <4>3, <4>4
      <4>5. CASE r <= dbSize \/ r \in touchedPages
        BY <2>1, <2>6, <4>1, <4>5
      <4>6. CASE r <= dbSize' /\ r > dbSize
        <5>1. r = p
          BY <1>2, <1>4, <2>3, <4>6
        <5> QED BY <3>1, <4>3, <5>1
      <4>7. CASE r <= q /\ q \in needSync
        BY <2>1, <4>7
      <4>8. CASE r <= q /\ q \in Sector(p)
        <5>1. r <= dbSize' /\ dbSize' \in Int
          BY <1>2, <1>4, <2>3, <4>8
        <5> QED BY <1>4, <2>3, <4>5, <4>6, <5>1
      <4> QED BY <1>2, <1>4, <2>2, <2>3, <4>4, <4>5, <4>6, <4>7, <4>8
    <3>3. CASE ~ \E o \in needSync : SectorOf(o) = SectorOf(p)
      <4>1. q \notin needSync /\ q \in Sector(p) /\ needSync \cap Sector(p) = {}
            /\ needSync' # needSync
        BY <1>2, <2>2, <2>6, <3>3
      <4>2. S \subseteq needSync' /\ (MainRecorded(p) # {} \/ eState # "dbmod")
        BY <1>3, <4>1
      <4>3. ASSUME NEW t \in touchedPages, SectorOf(t) = SectorOf(p)
            PROVE  FALSE
        <5>1. CASE eState # "dbmod"
          BY <1>5, <3>3, <4>3, <5>1
        <5>2. CASE MainRecorded(p) # {}
          <6>1. PICK m \in MainRecorded(p) : TRUE
            BY <5>2
          <6>2. m \in Sector(p) /\ m \notin pInJournal /\ m <= dbOrigSize
            BY <1>2, <6>1
          <6>3. m \in Page /\ SectorOf(m) = SectorOf(t)
            BY <1>2, <4>3, <6>2
          <6>4. m \in 1 .. dbOrigSize
            BY <1>4, <6>2, <6>3
          <6> QED BY <6>2, <6>3, <6>4 DEF SectorRecorded
        <5> QED BY <4>2, <5>1, <5>2
      <4>4. Sector(p) \subseteq S
        <5>1. \A t \in Sector(p) : t \notin pInJournal
          BY <1>2, <4>3 DEF touchedPages
        <5> QED BY <1>2, <2>6, <5>1
      <4>5. r \in Sector(p) \/ r \in S
        <5>1. r \notin touchedPages
          BY <2>6, <4>3
        <5>2. q <= dbSize' /\ dbSize' \in Int
          BY <1>2, <1>4, <4>1
        <5>3. r <= q => r <= dbSize'
          BY <2>3, <5>2
        <5> QED BY <3>1, <5>1, <5>3
      <4> QED BY <4>2, <4>4, <4>5
    <3> QED BY <3>2, <3>3
  <2> QED BY <2>4, <2>5, <2>6
<1> QED BY <1>6, <1>7, <1>8

LEMMA WritePages ==
    ASSUME IInv, NEW p \in Page, NEW data \in Value, Write(p, data)
    PROVE  PagesInv'
<1> USE DEF IInv, PagesInv
<1> DEFINE S == Touched(p)
           main == MainRecorded(p)
<1>1. /\ dirty' = dirty \cup S
      /\ \A q \in subPages' : q \in subPages \cup S \cup dirty
      /\ \A q \in Page : q # p => Read(q)' = Read(q)
      /\ cache'[p] = data
      /\ \A q \in Page : q \in S => cache'[q] # Absent
      /\ \A q \in Page : q \notin S \cup {p} => cache'[q] = cache[q]
  BY WriteTouched
<1>2. /\ S \subseteq Page /\ main \subseteq S /\ main \cap pInJournal = {}
      /\ p \in S \/ p \in dirty
      /\ \A q \in S : q <= dbOrigSize => q \in main \cup pInJournal
      /\ \A q \in main : q <= dbOrigSize
      /\ dbSize' = (IF p > dbSize THEN p ELSE dbSize) /\ p <= dbSize + 1
      /\ dbSize' \in Page
  <2>1. S \subseteq Page
    BY WriteSets
  <2> QED BY <2>1, WriteSets
<1>3. /\ JournalShape' /\ InTransaction' /\ pInJournal' = pInJournal \cup main
      /\ \A i \in 1 .. Len(jrn') :
            \/ IsHeader(jrn'[i])
            \/ i \in 1 .. Len(jrn) /\ jrn'[i] = jrn[i] /\ (Unsynced(i)' => Unsynced(i))
            \/ jrn'[i].pgno \in main /\ jrn'[i].data = Read(jrn'[i].pgno)
  BY WriteJournal
<1>4. needSync \subseteq needSync' /\ main \subseteq needSync'
  BY WriteNeedSync
<1>5. /\ dbSize \in Int /\ p \in Int /\ dbOrigSize \in Int /\ dbOrigSize <= dbSize
      /\ \A q \in 1 .. dbSize : q \in Page
      /\ \A q \in Page : q \in Int /\ q >= 1
      /\ dirty \subseteq Page
  BY PagesAssumption DEF TypeOK, Page
<1>6. UNCHANGED <<file, dbOrigSize, past>> /\ data # Absent /\ eState # "reader"
  BY ValueAssumption DEF Write, StatementLocks
<1> HIDE DEF S, main
<1>7. SectorRecorded' /\ SectorUnsynced' /\ NotSpilled'
  BY WriteSectors
<1>8. NothingToUndo'
  BY <1>3 DEF NothingToUndo
<1>9. DirtyRecorded'
  <2>1. ASSUME NEW q \in dirty' PROVE cache'[q] # Absent
    <3>1. q \in Page
      BY <1>1, <1>2, <1>5
    <3>2. q \in S \/ q = p \/ (q \in dirty /\ cache'[q] = cache[q])
      BY <1>1, <3>1
    <3> QED BY <1>1, <1>6, <3>1, <3>2 DEF DirtyRecorded
  <2>2. ASSUME NEW q \in dirty' \cup subPages', q <= dbOrigSize
        PROVE  q \in pInJournal'
    <3>1. q \in dirty \cup subPages \cup S
      BY <1>1
    <3> QED BY <1>2, <1>3, <2>2, <3>1 DEF DirtyRecorded
  <2> QED BY <1>6, <2>1, <2>2 DEF DirtyRecorded
<1>10. \A q \in main : /\ q \in Page /\ q <= dbOrigSize /\ q \in 1 .. dbSize
                       /\ q \notin dirty /\ q \notin pInJournal
                       /\ Read(q) = file[q]
  <2> TAKE q \in main
  <2>1. q \in Page /\ q <= dbOrigSize /\ q \notin pInJournal
    BY <1>2
  <2>2. q \in 1 .. dbSize /\ q \notin dirty
    BY <1>5, <2>1 DEF DirtyRecorded
  <2>3. cache[q] \in {Absent, file[q]}
    BY <2>2 DEF CleanIsStored
  <2> QED BY <2>1, <2>2, <2>3 DEF Read
<1>11. UnsyncedStored'
  <2> SUFFICES ASSUME NEW i \in 1 .. Len(jrn'), Unsynced(i)'
               PROVE  jrn'[i].pgno \in needSync' /\ jrn'[i].data = file[jrn'[i].pgno]
    BY <1>6 DEF UnsyncedStored
  <2>1. ~IsHeader(jrn'[i])
    <3>1. i \in Nat
      OBVIOUS
    <3> QED BY <3>1 DEF Unsynced
  <2>2. CASE i \in 1 .. Len(jrn) /\ jrn'[i] = jrn[i] /\ Unsynced(i)
    BY <1>4, <2>2 DEF UnsyncedStored
  <2>3. CASE jrn'[i].pgno \in main /\ jrn'[i].data = Read(jrn'[i].pgno)
    BY <1>4, <1>10, <2>3
  <2> QED BY <1>3, <2>1, <2>2, <2>3
<1>12. CleanIsStored'
  <2> SUFFICES ASSUME NEW q \in 1 .. dbSize', q \notin dirty \cup S
               PROVE  cache'[q] \in {Absent, file[q]}
    BY <1>1, <1>6 DEF CleanIsStored
  <2>1. q # p /\ q \in 1 .. dbSize
    BY <1>2, <1>5
  <2>2. cache'[q] = cache[q]
    BY <1>1, <1>5, <2>1
  <2> QED BY <2>1, <2>2 DEF CleanIsStored
<1>13. CommittedKept'
  <2>1. /\ past = [committed |-> past.committed, saved |-> past.saved, undo |-> past.undo]
        /\ past.committed \in [1 .. dbOrigSize -> Value]
    BY <1>6 DEF CommittedKept
  <2>2. ASSUME NEW q \in (1 .. dbOrigSize) \ pInJournal'
        PROVE  Read(q)' = past.committed[q]
    <3>1. q \in Page /\ q <= dbOrigSize /\ q \notin pInJournal /\ q \notin main
      BY <1>3, <1>5
    <3>2. q # p
      BY <1>2, <3>1 DEF DirtyRecorded
    <3>3. Read(q)' = Read(q)
      BY <1>1, <3>1, <3>2
    <3> QED BY <1>6, <3>1, <3>3 DEF CommittedKept
  <2>3. ASSUME NEW i \in 1 .. Len(jrn'), ~IsHeader(jrn'[i])
        PROVE  /\ jrn'[i].pgno <= dbOrigSize
               /\ jrn'[i].data = past.committed[jrn'[i].pgno]
    <3>1. CASE i \in 1 .. Len(jrn) /\ jrn'[i] = jrn[i]
      BY <1>6, <2>3, <3>1 DEF CommittedKept
    <3>2. CASE jrn'[i].pgno \in main /\ jrn'[i].data = Read(jrn'[i].pgno)
      <4> DEFINE q == jrn'[i].pgno
      <4>1. q \in (1 .. dbOrigSize) \ pInJournal
        BY <1>5, <1>10, <3>2
      <4> QED BY <1>6, <3>2, <4>1 DEF CommittedKept
    <3> QED BY <1>3, <2>3, <3>1, <3>2
  <2>4. eState' # "reader" /\ eState' # "locked"
    BY <1>3 DEF InTransaction
  <2> QED BY <1>6, <2>1, <2>2, <2>3, <2>4 DEF CommittedKept, IsHeader
<1> QED BY <1>3, <1>7, <1>8, <1>9, <1>11, <1>12, <1>13

------------------------------------------------------------------------------
(* Types.                                                                   *)

LEMMA SpillTypes ==
    ASSUME IInv, NEW p \in Page, Spill(p)
    PROVE  PageTypes'
<1> USE DEF IInv, PagesInv
<1>1. /\ UNCHANGED <<dbSize, dbOrigSize, cache, sub>>
      /\ p \in dirty /\ dirty' = dirty \ {p} /\ writeable' = writeable \ {p}
      /\ file' = IF p <= dbSize THEN [file EXCEPT ![p] = cache[p]] ELSE file
      /\ \/ jrn' = Append(jrn, Header) /\ eState' = "dbmod" /\ needSync' = {}
         \/ UNCHANGED <<jrn, eState, needSync>>
  BY DEF Spill
<1>2. cache[p] \in Value
  BY <1>1 DEF TypeOK, DirtyRecorded
<1>3. file' \in [Page -> Value]
  BY <1>1, <1>2 DEF TypeOK
<1>4. Header \in [pgno : 0 .. MaxPages, data : Value \cup {Absent}]
  BY PagesAssumption DEF Header
<1>5. jrn' \in Seq([pgno : 0 .. MaxPages, data : Value \cup {Absent}])
  <2> DEFINE Entry == [pgno : 0 .. MaxPages, data : Value \cup {Absent}]
  <2>1. jrn \in Seq(Entry) /\ Header \in Entry
    BY <1>4 DEF TypeOK
  <2> HIDE DEF Entry
  <2>2. jrn' \in Seq(Entry)
    BY <1>1, <2>1, SeqAppend
  <2> QED BY <2>2 DEF Entry
<1>6. PageTypes
  BY TypeParts
<1> QED BY <1>1, <1>3, <1>5, <1>6 DEF PageTypes

LEMMA WriteTypes ==
    ASSUME IInv, NEW p \in Page, NEW data \in Value, Write(p, data)
    PROVE  PageTypes' /\ SavepointTypes' /\ SavepointSizes'
<1> USE DEF IInv, PagesInv
<1> DEFINE more == SubRecorded(p, MainRecorded(p))
<1>1. PageTypes /\ SavepointTypes
  BY TypeParts
<1>2. Touched(p) \subseteq Page /\ more \in SUBSET Page
      /\ MainRecorded(p) \in SUBSET Page /\ Sector(p) \subseteq Page
      /\ dbSize' \in Page /\ dbSize' >= dbSize
  <2>1. Sector(p) \subseteq Page /\ dbSize' \in Page
    BY WriteSets
  <2>2. Touched(p) \subseteq Page /\ dbSize \in Int /\ p \in Int
    BY <2>1, WriteSets, PagesAssumption DEF TypeOK, Page
  <2> QED BY <2>1, <2>2, WriteSets
<1>3. dbOrigSize' \in 1 .. dbSize' /\ dbOrigSize' = dbOrigSize
  BY <1>1, <1>2, PagesAssumption DEF Write, PageTypes, Page
<1>4. writeable' \subseteq dirty' /\ dirty' \subseteq Page
  BY <1>1, <1>2 DEF Write, PageTypes
<1>5. needSync' \subseteq Page
  BY <1>1, <1>2, WriteNeedSync DEF PageTypes
<1>6. eState' \in {"reader", "locked", "cachemod", "dbmod"} /\ file' = file
  BY <1>1 DEF Write, PageTypes
<1>7. cache' \in [Page -> Value \cup {Absent}]
  BY WriteTouched
<1>8. jrn' \in Seq([pgno : 0 .. MaxPages, data : Value \cup {Absent}])
  BY WriteJournal
<1>9. sub' \in Seq(PageRecord) /\ Len(sub') <= StmtSpill
  <2>1. sub \in Seq(PageRecord)
    BY <1>1 DEF PageTypes, PageRecord
  <2>2. Records(more) \in Seq(PageRecord)
    BY <1>2, RecordsProperties
  <2>3. Len(Records(more)) = Cardinality(more) /\ Cardinality(more) \in Nat
    <3>1. Cardinality(more) \in Nat
      BY <1>2, PagesFinite
    <3> HIDE DEF more
    <3>2. Records(more) =
             [i \in 1 .. Cardinality(more) |-> Record(SetToSeq(more)[i], Read(SetToSeq(more)[i]))]
      BY DEF Records
    <3> QED BY <3>1, <3>2
  <2>4. sub' = sub \o Records(more) /\ Len(sub) + Cardinality(more) <= StmtSpill
    BY DEF Write, RoomFor
  <2> HIDE DEF more
  <2> QED BY <2>1, <2>2, <2>3, <2>4
<1>10. PageTypes'
  BY <1>1, <1>2, <1>3, <1>4, <1>5, <1>6, <1>7, <1>8, <1>9 DEF PageTypes, PageRecord
<1> DEFINE kept(i) == {q \in MainRecorded(p) \cup more : q <= aSavepoint[i].nOrig}
<1>11. aSavepoint' = [i \in DOMAIN aSavepoint |->
                         [aSavepoint[i] EXCEPT !.pInSavepoint = @ \cup kept(i)]]
  BY DEF Write
<1>12. \A i \in 1 .. Len(aSavepoint) : kept(i) \in SUBSET Page
  BY <1>2
<1> HIDE DEF kept
<1>13. Len(aSavepoint) \in Nat /\ DOMAIN aSavepoint = 1 .. Len(aSavepoint)
  BY <1>1 DEF SavepointTypes
<1>14. ASSUME NEW i \in 1 .. Len(aSavepoint)
       PROVE  /\ aSavepoint'[i] \in SavepointRecord
              /\ aSavepoint'[i].nOrig = aSavepoint[i].nOrig
  <2>1. aSavepoint[i] \in SavepointRecord
    BY <1>1, SeqElement DEF SavepointTypes
  <2>2. aSavepoint'[i] = [aSavepoint[i] EXCEPT !.pInSavepoint = @ \cup kept(i)]
    BY <1>11, <1>13
  <2> QED BY <1>12, <2>1, <2>2 DEF SavepointRecord
<1>15. Len(aSavepoint') = Len(aSavepoint) /\ aSavepoint' \in Seq(SavepointRecord)
  <2> DEFINE n == Len(aSavepoint)
             S == SavepointRecord
  <2>1. aSavepoint' \in [1 .. n -> S]
    BY <1>11, <1>13, <1>14
  <2> HIDE DEF S, n
  <2>2. aSavepoint' \in Seq(S) /\ Len(aSavepoint') = n
    BY <1>13, <2>1, SeqFunction DEF n
  <2> QED BY <2>2 DEF S, n
<1>16. SavepointTypes'
  BY <1>1, <1>15 DEF SavepointTypes
<1>17. SavepointSizes'
  <2>1. eState' # "reader"
    BY DEF Write, StatementLocks
  <2>2. \A i \in 1 .. Len(aSavepoint) :
           /\ aSavepoint[i].nOrig \in dbOrigSize .. dbSize
           /\ \A j \in i .. Len(aSavepoint) :
                 aSavepoint[i].nOrig <= aSavepoint[j].nOrig
    BY DEF SavepointSizes
  <2>3. dbSize \in Int /\ dbOrigSize \in Int /\ dbSize' \in Int
    BY <1>1, <1>2, PagesAssumption DEF PageTypes, Page
  <2>4. ASSUME NEW i \in 1 .. Len(aSavepoint)
        PROVE  /\ aSavepoint'[i].nOrig \in dbOrigSize .. dbSize'
               /\ \A j \in i .. Len(aSavepoint) :
                     aSavepoint'[i].nOrig <= aSavepoint'[j].nOrig
    <3>1. \A j \in i .. Len(aSavepoint) : j \in 1 .. Len(aSavepoint)
      BY <1>13
    <3> QED BY <1>2, <1>14, <2>2, <2>3, <3>1
  <2> QED BY <1>3, <1>15, <2>1, <2>4 DEF SavepointSizes
<1> QED BY <1>10, <1>16, <1>17

------------------------------------------------------------------------------
(* The inductive invariant, action by action.                               *)

LEMMA InvParts ==
    ASSUME IInv
    PROVE  /\ PageTypes /\ SavepointTypes /\ HandleTypes /\ StatementLocks
           /\ SavepointSizes /\ PagesInv
BY TypeParts DEF IInv

LEMMA InvNext ==
    ASSUME PageTypes', SavepointTypes', HandleTypes', StatementLocks',
           SavepointSizes', PagesInv'
    PROVE  IInv'
BY DEF IInv, TypeOK, PageTypes, SavepointTypes, HandleTypes, SavepointRecord

\* Savepoints released, innermost first
LEMMA SavepointsPrefix ==
    ASSUME IInv, NEW n \in 0 .. Len(aSavepoint), aSavepoint' = SubSeq(aSavepoint, 1, n),
           UNCHANGED <<eState, dbOrigSize>>, dbSize' \in Int,
           \A i \in 1 .. n : aSavepoint[i].nOrig <= dbSize'
    PROVE  SavepointTypes' /\ SavepointSizes'
<1>1. /\ aSavepoint \in Seq(SavepointRecord) /\ Len(aSavepoint) <= MaxSavepoints + 1
      /\ Len(aSavepoint) \in Nat /\ MaxSavepoints \in Nat
  BY InvParts, LimitsAssumption DEF SavepointTypes
<1>2. Len(aSavepoint') = n /\ \A i \in 1 .. n : aSavepoint'[i] = aSavepoint[i]
  BY <1>1
<1>3. aSavepoint' \in Seq(SavepointRecord)
  BY <1>1, SeqPrefix
<1>4. SavepointTypes'
  BY <1>1, <1>2, <1>3 DEF SavepointTypes
<1>5. SavepointSizes'
  <2>1. /\ eState = "reader" => aSavepoint = <<>>
        /\ \A i \in 1 .. Len(aSavepoint) :
              /\ aSavepoint[i].nOrig \in dbOrigSize .. dbSize
              /\ \A j \in i .. Len(aSavepoint) :
                    aSavepoint[i].nOrig <= aSavepoint[j].nOrig
    BY InvParts DEF SavepointSizes
  <2>2. eState = "reader" => aSavepoint' = <<>>
    BY <1>1, <2>1
  <2>3. ASSUME NEW i \in 1 .. n
        PROVE  /\ aSavepoint'[i].nOrig \in dbOrigSize .. dbSize'
               /\ \A j \in i .. n : aSavepoint'[i].nOrig <= aSavepoint'[j].nOrig
    <3>1. i \in 1 .. Len(aSavepoint) /\ \A j \in i .. n : j \in 1 .. n /\ j \in i .. Len(aSavepoint)
      BY <1>1
    <3>2. aSavepoint[i].nOrig \in dbOrigSize .. dbSize /\ aSavepoint[i].nOrig <= dbSize'
      BY <2>1, <3>1
    <3> QED BY <1>2, <2>1, <3>1, <3>2
  <2> QED BY <1>2, <2>2, <2>3 DEF SavepointSizes
<1> QED BY <1>4, <1>5

LEMMA SavepointsKeep ==
    ASSUME IInv, UNCHANGED <<aSavepoint, eState, dbOrigSize, dbSize>>
    PROVE  SavepointTypes' /\ SavepointSizes'
BY InvParts DEF SavepointTypes, SavepointSizes

LEMMA SavepointEntry ==
    ASSUME IInv, NEW i \in 1 .. Len(aSavepoint)
    PROVE  /\ aSavepoint[i].nOrig \in dbOrigSize .. dbSize
           /\ aSavepoint[i].iOffset \in Nat /\ aSavepoint[i].iSubRec \in Nat
           /\ \A j \in 1 .. i : aSavepoint[j].nOrig <= aSavepoint[i].nOrig
<1>1. aSavepoint[i] \in SavepointRecord /\ Len(aSavepoint) \in Nat
  BY InvParts, SeqElement DEF SavepointTypes
<1>2. \A j \in 1 .. Len(aSavepoint) :
         /\ aSavepoint[j].nOrig \in dbOrigSize .. dbSize
         /\ \A k \in j .. Len(aSavepoint) : aSavepoint[j].nOrig <= aSavepoint[k].nOrig
  BY InvParts DEF SavepointSizes
<1>3. aSavepoint[i].iOffset \in Nat /\ aSavepoint[i].iSubRec \in Nat
  BY <1>1 DEF SavepointRecord
<1>4. \A j \in 1 .. i : j \in 1 .. Len(aSavepoint) /\ i \in j .. Len(aSavepoint)
  BY <1>1
<1> QED BY <1>2, <1>3, <1>4

LEMMA PagerReleaseStep ==
    ASSUME IInv, NEW i \in Nat, PagerRelease(i), UNCHANGED <<eState, dbOrigSize>>,
           dbSize' = dbSize \/ (InPager(i) /\ dbSize' = aSavepoint[i + 1].nOrig)
    PROVE  SavepointTypes' /\ SavepointSizes' /\ sub' \in {sub, <<>>}
<1>1. Len(aSavepoint) \in Nat /\ dbSize \in Int /\ dbOrigSize \in Int
  BY InvParts, PagesAssumption DEF SavepointTypes, PageTypes, Page
<1>2. CASE InPager(i)
  <2>1. i \in 0 .. Len(aSavepoint) /\ i + 1 \in 1 .. Len(aSavepoint)
    BY <1>1, <1>2 DEF InPager
  <2>2. \A j \in 1 .. i : j \in 1 .. (i + 1) /\ j \in 1 .. Len(aSavepoint)
    BY <1>1, <2>1
  <2>3. dbSize' \in Int /\ \A j \in 1 .. i : aSavepoint[j].nOrig <= dbSize'
    <3>1. aSavepoint[i + 1].nOrig \in dbOrigSize .. dbSize
          /\ \A j \in 1 .. (i + 1) : aSavepoint[j].nOrig <= aSavepoint[i + 1].nOrig
      BY <2>1, SavepointEntry
    <3>2. \A j \in 1 .. i : aSavepoint[j].nOrig <= dbSize
      BY <2>2, SavepointEntry
    <3> QED BY <1>1, <2>2, <3>1, <3>2
  <2>4. aSavepoint' = SubSeq(aSavepoint, 1, i) /\ sub' \in {sub, <<>>}
    BY <1>2 DEF PagerRelease
  <2> QED BY <2>1, <2>3, <2>4, SavepointsPrefix
<1>3. CASE ~InPager(i)
  <2>1. UNCHANGED <<aSavepoint, sub>> /\ dbSize' = dbSize
    BY <1>3 DEF PagerRelease
  <2> QED BY <2>1, SavepointsKeep
<1> QED BY <1>2, <1>3

LEMMA PagerRollbackStep ==
    ASSUME IInv, NEW i \in Int, i >= -1, PagerRollback(i),
           UNCHANGED <<eState, dbOrigSize, jrn>>, sub' \in {sub, <<>>}, Uncommitted
    PROVE  /\ Mild
           /\ dbSize' = IF ~InPager(i) THEN dbSize
                        ELSE IF i < 0 THEN dbOrigSize ELSE aSavepoint[i + 1].nOrig
<1>1. /\ Len(aSavepoint) \in Nat /\ dbSize \in Int /\ dbOrigSize \in Int
      /\ dbOrigSize \in dbOrigSize .. dbSize /\ Len(sub) \in Nat
  BY InvParts, PagesAssumption DEF SavepointTypes, PageTypes, Page
<1>2. CASE ~InPager(i)
  <2>1. UNCHANGED <<dbSize, pages>>
    BY <1>2 DEF PagerRollback
  <2>2. Mild
    BY <2>1, UnmovedMild
  <2> QED BY <1>2, <2>1, <2>2
<1>3. CASE InPager(i) /\ i < 0
  <2>1. PlayBack(Played(1, Len(sub) + 1, dbOrigSize), dbOrigSize) /\ eState # "reader"
    BY <1>3 DEF PagerRollback, InPager, WholeTransaction
  <2>2. 1 \in Nat \ {0} /\ Len(sub) + 1 \in Nat \ {0}
    BY <1>1
  <2>3. Mild
    BY <1>1, <2>1, <2>2, PlayBackMild
  <2>4. dbSize' = dbOrigSize
    BY <2>1 DEF PlayBack
  <2> QED BY <1>3, <2>3, <2>4
<1>4. CASE InPager(i) /\ ~(i < 0)
  <2> DEFINE savepoint == aSavepoint[i + 1]
  <2>1. i + 1 \in 1 .. Len(aSavepoint) /\ eState # "reader"
    BY <1>1, <1>4 DEF InPager
  <2>2. /\ savepoint.nOrig \in dbOrigSize .. dbSize
        /\ savepoint.iOffset \in Nat /\ savepoint.iSubRec \in Nat
    BY <2>1, SavepointEntry
  <2>3. PlayBack(Played(savepoint.iOffset + 1, savepoint.iSubRec + 1, savepoint.nOrig),
                 savepoint.nOrig)
    BY <1>4 DEF PagerRollback, BackTo
  <2> HIDE DEF savepoint
  <2>4. savepoint.iOffset + 1 \in Nat \ {0} /\ savepoint.iSubRec + 1 \in Nat \ {0}
    BY <2>2
  <2>5. Mild
    BY <2>1, <2>2, <2>3, <2>4, PlayBackMild
  <2>6. dbSize' = savepoint.nOrig
    BY <2>3 DEF PlayBack
  <2> QED BY <1>4, <2>5, <2>6 DEF savepoint
<1> QED BY <1>2, <1>3, <1>4

LEMMA MildNext ==
    ASSUME IInv, Mild, SavepointTypes', SavepointSizes', HandleTypes', StatementLocks'
    PROVE  IInv'
BY MildStep, InvNext

LEMMA BeginNext == IInv /\ Begin => IInv'
<1> SUFFICES ASSUME IInv, Begin PROVE IInv'
  OBVIOUS
<1>1. /\ UNCHANGED <<eState, dbOrigSize, dbSize, pages, jrn, sub, aSavepoint, past>>
      /\ UNCHANGED <<nOpen, isTransactionSavepoint, stmt>> /\ autoCommit' = FALSE
  BY DEF Begin, journals
<1>2. Uncommitted
  BY <1>1, PastExcept, InvParts DEF PagesInv
<1>3. Mild
  BY <1>1, <1>2, UnmovedMild
<1>4. HandleTypes' /\ StatementLocks'
  BY <1>1, InvParts DEF HandleTypes, StatementLocks
<1> QED BY <1>1, <1>3, <1>4, SavepointsKeep, MildNext

LEMMA SavepointNext == IInv /\ Savepoint => IInv'
<1> SUFFICES ASSUME IInv, Savepoint PROVE IInv'
  OBVIOUS
<1>1. /\ UNCHANGED <<eState, dbOrigSize, dbSize, pages, jrn, sub, aSavepoint>>
      /\ stmt' = stmt /\ autoCommit' = FALSE
      /\ nOpen < MaxSavepoints /\ nOpen' = nOpen + 1
      /\ isTransactionSavepoint' = (isTransactionSavepoint \/ autoCommit)
      /\ past' = [past EXCEPT !.saved = Append(past.saved, Current)]
  BY DEF Savepoint, journals
<1>2. Uncommitted
  BY <1>1, PastExcept, InvParts DEF PagesInv
<1>3. Mild
  BY <1>1, <1>2, UnmovedMild
<1>4. HandleTypes
  BY InvParts
<1>5. nOpen' \in 0 .. MaxSavepoints
  BY <1>1, <1>4, LimitsAssumption DEF HandleTypes
<1>6. autoCommit' \in BOOLEAN /\ isTransactionSavepoint' \in BOOLEAN
  BY <1>1, Zenon
<1>7. HandleTypes' /\ StatementLocks'
  BY <1>1, <1>4, <1>5, <1>6, InvParts DEF HandleTypes, StatementLocks
<1> QED BY <1>1, <1>3, <1>7, SavepointsKeep, MildNext

LEMMA NoStatementTypes == NoStatement \in [running : BOOLEAN, usesStmtJournal : BOOLEAN,
                                           iStatement : 0 .. MaxSavepoints + 1, wrote : BOOLEAN]
BY LimitsAssumption DEF NoStatement

LEMMA CloseSavepointsTypes ==
    ASSUME CloseSavepoints, HandleTypes, stmt' = stmt \/ stmt' = NoStatement
    PROVE  HandleTypes'
<1>1. nOpen' \in 0 .. MaxSavepoints
  BY LimitsAssumption DEF CloseSavepoints
<1>2. autoCommit' \in BOOLEAN /\ isTransactionSavepoint' \in BOOLEAN
  BY DEF CloseSavepoints
<1> QED BY <1>1, <1>2, NoStatementTypes DEF HandleTypes

LEMMA CommitNext == IInv /\ Commit => IInv'
<1> SUFFICES ASSUME IInv, Commit PROVE IInv'
  OBVIOUS
<1>1. CommitBtree /\ CloseSavepoints /\ stmt' = stmt /\ ~stmt.running
  BY DEF Commit
<1>2. PagesInv' /\ SavepointSizes' /\ PageTypes' /\ SavepointTypes'
  BY <1>1, CommitPages
<1>3. HandleTypes' /\ StatementLocks'
  BY <1>1, InvParts, CloseSavepointsTypes DEF StatementLocks
<1> QED BY <1>2, <1>3, InvNext

LEMMA ForcedRollbackNext == IInv /\ ForcedRollback => IInv'
<1> SUFFICES ASSUME IInv, ForcedRollback PROVE IInv'
  OBVIOUS
<1>1. RollbackAll /\ CloseSavepoints /\ stmt' = NoStatement
  BY DEF ForcedRollback
<1>2. PagesInv' /\ SavepointSizes' /\ PageTypes' /\ SavepointTypes'
  BY <1>1, RollbackPages
<1>3. HandleTypes'
  BY <1>1, InvParts, CloseSavepointsTypes
<1>4. StatementLocks'
  BY <1>1 DEF StatementLocks, NoStatement
<1> QED BY <1>2, <1>3, <1>4, InvNext

\* The places of the savepoints in the pager
LEMMA IndexRange ==
    ASSUME HandleTypes, NEW k \in 1 .. nOpen
    PROVE  /\ Index(k) \in Int /\ Index(k) >= -1
           /\ ~IsTransaction(k) => Index(k) >= 0
           /\ nSavepoint \in Int /\ nSavepoint <= nOpen /\ nSavepoint >= nOpen - 1
<1>1. nOpen \in Int
  BY DEF HandleTypes
<1>2. CASE isTransactionSavepoint
  <2>1. nSavepoint = nOpen - 1
    BY <1>2 DEF nSavepoint
  <2>2. ~IsTransaction(k) => k # 1
    BY <1>2 DEF IsTransaction
  <2> HIDE DEF nSavepoint
  <2> QED BY <1>1, <2>1, <2>2 DEF Index
<1>3. CASE ~isTransactionSavepoint
  <2>1. nSavepoint = nOpen - 0
    BY <1>3 DEF nSavepoint
  <2> HIDE DEF nSavepoint
  <2> QED BY <1>1, <2>1 DEF Index
<1> QED BY <1>2, <1>3

LEMMA ReleaseNext == ASSUME NEW k \in 1 .. nOpen PROVE IInv /\ Release(k) => IInv'
<1> SUFFICES ASSUME IInv, Release(k) PROVE IInv'
  OBVIOUS
<1>1. HandleTypes /\ stmt' = stmt /\ ~stmt.running
  BY InvParts DEF Release
<1>2. CASE IsTransaction(k)
  <2>1. CommitBtree /\ CloseSavepoints
    BY <1>2 DEF Release
  <2>2. PagesInv' /\ SavepointSizes' /\ PageTypes' /\ SavepointTypes'
    BY <2>1, CommitPages
  <2>3. HandleTypes' /\ StatementLocks'
    BY <1>1, <2>1, CloseSavepointsTypes DEF StatementLocks
  <2> QED BY <2>2, <2>3, InvNext
<1>3. CASE ~IsTransaction(k)
  <2>1. /\ PagerRelease(Index(k)) /\ nOpen' = k - 1
        /\ past' = [past EXCEPT !.saved = SubSeq(past.saved, 1, k - 1)]
        /\ UNCHANGED <<autoCommit, isTransactionSavepoint, eState, dbSize,
                       dbOrigSize, pages, jrn>>
    BY <1>3 DEF Release
  <2>2. Index(k) \in Nat
    BY <1>1, <1>3, IndexRange
  <2>3. SavepointTypes' /\ SavepointSizes' /\ sub' \in {sub, <<>>}
    BY <2>1, <2>2, PagerReleaseStep
  <2>4. Uncommitted
    BY <2>1, PastExcept, InvParts DEF PagesInv
  <2>5. Mild
    BY <2>1, <2>3, <2>4, UnmovedMild
  <2>6. nOpen' \in 0 .. MaxSavepoints
    BY <1>1, <2>1, LimitsAssumption DEF HandleTypes
  <2>7. HandleTypes' /\ StatementLocks'
    BY <1>1, <2>1, <2>6 DEF HandleTypes, StatementLocks
  <2> QED BY <2>3, <2>5, <2>7, MildNext
<1> QED BY <1>2, <1>3

LEMMA RollbackToNext == ASSUME NEW k \in 1 .. nOpen PROVE IInv /\ RollbackTo(k) => IInv'
<1> SUFFICES ASSUME IInv, RollbackTo(k) PROVE IInv'
  OBVIOUS
<1> DEFINE i == Index(k)
<1>1. HandleTypes /\ stmt' = stmt /\ ~stmt.running
  BY InvParts DEF RollbackTo
<1>2. i \in Int /\ i >= -1
  BY <1>1, IndexRange
<1>3. /\ PagerRollback(i) /\ nOpen' = k
      /\ aSavepoint' = IF InPager(i) THEN SubSeq(aSavepoint, 1, i + 1) ELSE aSavepoint
      /\ past' = [past EXCEPT !.saved = SubSeq(past.saved, 1, k)]
      /\ UNCHANGED <<autoCommit, isTransactionSavepoint, eState,
                     dbOrigSize, jrn, sub>>
  BY DEF RollbackTo
<1> HIDE DEF i
<1>4. Uncommitted
  BY <1>3, PastExcept, InvParts DEF PagesInv
<1>5. /\ Mild
      /\ dbSize' = IF ~InPager(i) THEN dbSize
                   ELSE IF i < 0 THEN dbOrigSize ELSE aSavepoint[i + 1].nOrig
  BY <1>2, <1>3, <1>4, PagerRollbackStep
<1>6. Len(aSavepoint) \in Nat /\ dbOrigSize \in Int
  BY InvParts, PagesAssumption DEF SavepointTypes, PageTypes, Page
<1>7. SavepointTypes' /\ SavepointSizes'
  <2>1. CASE ~InPager(i)
    BY <1>3, <1>5, <2>1, SavepointsKeep
  <2>2. CASE InPager(i) /\ i < 0
    <3>1. 0 \in 0 .. Len(aSavepoint) /\ i + 1 = 0
      BY <1>2, <1>6, <2>2
    <3>2. aSavepoint' = SubSeq(aSavepoint, 1, 0) /\ dbSize' = dbOrigSize
      BY <1>3, <1>5, <2>2, <3>1
    <3>3. dbSize' \in Int /\ \A j \in 1 .. 0 : aSavepoint[j].nOrig <= dbSize'
      BY <1>6, <3>2
    <3> QED BY <1>3, <3>1, <3>2, <3>3, SavepointsPrefix
  <2>3. CASE InPager(i) /\ ~(i < 0)
    <3>1. i + 1 \in 1 .. Len(aSavepoint) /\ i + 1 \in 0 .. Len(aSavepoint)
      BY <1>2, <1>6, <2>3 DEF InPager
    <3>2. aSavepoint' = SubSeq(aSavepoint, 1, i + 1) /\ dbSize' = aSavepoint[i + 1].nOrig
      BY <1>3, <1>5, <2>3
    <3>3. dbSize' \in Int /\ \A j \in 1 .. (i + 1) : aSavepoint[j].nOrig <= dbSize'
      BY <3>1, <3>2, SavepointEntry
    <3> QED BY <1>3, <3>1, <3>2, <3>3, SavepointsPrefix
  <2> QED BY <2>1, <2>2, <2>3
<1>8. nOpen' \in 0 .. MaxSavepoints
  BY <1>1, <1>3, LimitsAssumption DEF HandleTypes
<1>9. HandleTypes' /\ StatementLocks'
  BY <1>1, <1>3, <1>8 DEF HandleTypes, StatementLocks
<1> QED BY <1>5, <1>7, <1>9, MildNext

\* The savepoints opened late, all at the size the database has now
LEMMA NewSavepoints ==
    ASSUME IInv, NEW total \in Len(aSavepoint) .. MaxSavepoints + 1,
           aSavepoint' = [i \in 1 .. total |->
                             IF i <= Len(aSavepoint) THEN aSavepoint[i]
                                                     ELSE NewSavepoint],
           dbSize' = dbSize, eState' # "reader",
           dbOrigSize' = (IF eState = "reader" THEN dbSize ELSE dbOrigSize)
    PROVE  SavepointTypes' /\ SavepointSizes'
<1> DEFINE n == Len(aSavepoint)
<1>1. /\ PageTypes /\ SavepointTypes /\ n \in Nat /\ total \in Nat /\ n <= total
      /\ total <= MaxSavepoints + 1 /\ MaxSavepoints \in Nat
  <2>1. PageTypes /\ SavepointTypes /\ n \in Nat
    BY InvParts DEF SavepointTypes
  <2> QED BY <2>1, LimitsAssumption
<1>2. dbSize \in Page /\ dbSize \in Int /\ dbOrigSize \in 1 .. dbSize
  BY <1>1, PagesAssumption DEF PageTypes, Page
<1>3. NewSavepoint \in SavepointRecord /\ NewSavepoint.nOrig = dbSize
  <2>1. Max2(Len(jrn), 1) \in Nat /\ Len(sub) \in 0 .. StmtSpill
    BY <1>1, LimitsAssumption DEF PageTypes, Max2
  <2> QED BY <1>2, <2>1 DEF NewSavepoint, SavepointRecord
<1>4. ASSUME NEW i \in 1 .. n
      PROVE  /\ aSavepoint[i] \in SavepointRecord
             /\ aSavepoint[i].nOrig \in dbOrigSize' .. dbSize
             /\ \A j \in i .. n : aSavepoint[i].nOrig <= aSavepoint[j].nOrig
  <2>1. aSavepoint[i] \in SavepointRecord
    BY <1>1, SeqElement DEF SavepointTypes
  <2>2. /\ eState = "reader" => aSavepoint = <<>>
        /\ aSavepoint[i].nOrig \in dbOrigSize .. dbSize
        /\ \A j \in i .. n : aSavepoint[i].nOrig <= aSavepoint[j].nOrig
    BY InvParts DEF SavepointSizes
  <2>3. eState # "reader"
    BY <2>2
  <2> QED BY <2>1, <2>2, <2>3
<1>5. Len(aSavepoint') = total /\ aSavepoint' \in Seq(SavepointRecord)
  <2> DEFINE S == SavepointRecord
  <2>1. aSavepoint' \in [1 .. total -> S]
    BY <1>1, <1>3, <1>4
  <2> HIDE DEF S
  <2>2. aSavepoint' \in Seq(S) /\ Len(aSavepoint') = total
    BY <1>1, <2>1, SeqFunction
  <2> QED BY <2>2 DEF S
<1>6. SavepointTypes'
  BY <1>1, <1>5 DEF SavepointTypes
<1>7. dbOrigSize' \in Int /\ dbOrigSize' <= dbSize
  BY <1>2
<1>8. ASSUME NEW i \in 1 .. total
      PROVE  /\ aSavepoint'[i].nOrig \in dbOrigSize' .. dbSize
             /\ \A j \in i .. total : aSavepoint'[i].nOrig <= aSavepoint'[j].nOrig
  <2>1. \A j \in 1 .. total :
           aSavepoint'[j].nOrig = (IF j <= n THEN aSavepoint[j].nOrig ELSE dbSize)
    BY <1>3
  <2>2. CASE i <= n
    <3>1. i \in 1 .. n /\ \A j \in i .. total : j \in 1 .. total /\ (j <= n => j \in i .. n)
      BY <1>1, <2>2
    <3>2. /\ aSavepoint[i].nOrig \in dbOrigSize' .. dbSize
          /\ \A j \in i .. n : aSavepoint[i].nOrig <= aSavepoint[j].nOrig
      BY <1>4, <3>1
    <3> QED BY <1>2, <1>7, <2>1, <2>2, <3>1, <3>2
  <2>3. CASE i > n
    <3>1. \A j \in i .. total : j \in 1 .. total /\ ~(j <= n)
      BY <1>1, <2>3
    <3> QED BY <1>1, <1>2, <1>7, <2>1, <2>3, <3>1
  <2> QED BY <1>1, <2>2, <2>3
<1>9. SavepointSizes'
  BY <1>5, <1>8 DEF SavepointSizes
<1> QED BY <1>6, <1>9

\* The write transaction begins: nothing is written yet.
LEMMA BeginTrans ==
    ASSUME IInv, eState = "reader", eState' = "locked", dbOrigSize' = dbSize,
           UNCHANGED <<dbSize, pages, jrn, sub>>, Uncommitted
    PROVE  PagesInv' /\ PageTypes'
<1>1. /\ PageTypes /\ jrn = <<>> /\ sub = <<>> /\ dirty = {} /\ needSync = {}
      /\ past.committed = Current /\ CleanIsStored
  BY InvParts DEF PagesInv, NothingToUndo, CommittedKept, InTransaction
<1>2. UNCHANGED <<file, cache, dirty, writeable, needSync>>
  BY DEF pages
<1>3. pInJournal' = {} /\ subPages' = {} /\ touchedPages' = {}
  BY <1>1, <1>2 DEF pInJournal, subPages, touchedPages
<1>4. dbSize \in Page /\ dbSize \in 1 .. dbSize /\ \A p \in 1 .. dbSize : p \in Page
  BY <1>1, PagesAssumption DEF PageTypes, Page
<1>5. \A p \in Page : Read(p) \in Value
  BY <1>1 DEF PageTypes, Read
<1>6. /\ past'.committed = past.committed
      /\ past' = [committed |-> past'.committed, saved |-> past'.saved, undo |-> past'.undo]
  BY PastFields DEF Uncommitted
<1>7. /\ past.committed \in [1 .. dbSize -> Value]
      /\ \A p \in 1 .. dbSize : Read(p) = past.committed[p]
  BY <1>1, <1>4, <1>5 DEF Current
<1>8. CommittedKept'
  <2>1. \A p \in 1 .. dbSize : Read(p)' = past'.committed[p]
    BY <1>2, <1>6, <1>7 DEF Read
  <2> QED BY <1>1, <1>6, <1>7, <2>1 DEF CommittedKept
<1>9. JournalShape' /\ NothingToUndo'
  BY <1>1, <1>2 DEF JournalShape, NothingToUndo, InTransaction
<1>10. DirtyRecorded' /\ SectorRecorded' /\ SectorUnsynced' /\ NotSpilled' /\ UnsyncedStored'
  BY <1>1, <1>2, <1>3 DEF DirtyRecorded, SectorRecorded, SectorUnsynced, NotSpilled,
                           UnsyncedStored
<1>11. CleanIsStored'
  BY <1>1, <1>2 DEF CleanIsStored
<1>12. PageTypes'
  BY <1>1, <1>2, <1>4 DEF PageTypes
<1> QED BY <1>8, <1>9, <1>10, <1>11, <1>12 DEF PagesInv

LEMMA StartStatementNext ==
    ASSUME NEW usesStmtJournal \in BOOLEAN, NEW reading \in BOOLEAN
    PROVE  IInv /\ StartStatement(usesStmtJournal, reading) => IInv'
<1> SUFFICES ASSUME IInv, StartStatement(usesStmtJournal, reading) PROVE IInv'
  OBVIOUS
<1> DEFINE iStatement == IF usesStmtJournal /\ (~autoCommit \/ reading)
                         THEN nSavepoint + 1 ELSE 0
           total == Max2(Max2(nSavepoint, iStatement), Len(aSavepoint))
<1>1. /\ ~stmt.running
      /\ stmt' = [running |-> TRUE, usesStmtJournal |-> usesStmtJournal,
                  iStatement |-> iStatement, wrote |-> FALSE]
      /\ aSavepoint' = [i \in 1 .. total |->
                           IF i <= Len(aSavepoint) THEN aSavepoint[i]
                                                   ELSE NewSavepoint]
      /\ past' = [past EXCEPT !.undo = IF iStatement = 0 THEN NoContents ELSE Current]
      /\ UNCHANGED <<autoCommit, nOpen, isTransactionSavepoint, dbSize, pages, jrn, sub>>
      /\ IF eState = "reader"
         THEN eState' = "locked" /\ dbOrigSize' = dbSize
         ELSE UNCHANGED <<eState, dbOrigSize>>
  BY DEF StartStatement, handle
<1>2. PageTypes /\ SavepointTypes /\ HandleTypes
  BY InvParts
<1>3. /\ nSavepoint \in Int /\ nSavepoint >= -1 /\ nSavepoint <= MaxSavepoints
      /\ MaxSavepoints \in Nat /\ Len(aSavepoint) \in 0 .. MaxSavepoints + 1
  <2>1. nOpen \in 0 .. MaxSavepoints /\ MaxSavepoints \in Nat
    BY <1>2, LimitsAssumption DEF HandleTypes
  <2>2. nSavepoint = nOpen - 1 \/ nSavepoint = nOpen
    BY <2>1 DEF nSavepoint
  <2>3. Len(aSavepoint) \in Nat /\ Len(aSavepoint) <= MaxSavepoints + 1
    BY <1>2 DEF SavepointTypes
  <2> QED BY <2>1, <2>2, <2>3
<1>4. iStatement = nSavepoint + 1 \/ iStatement = 0
  OBVIOUS
<1>5. iStatement \in 0 .. MaxSavepoints + 1
  <2> HIDE DEF iStatement
  <2> QED BY <1>3, <1>4
<1>6. total \in Len(aSavepoint) .. MaxSavepoints + 1
  <2> HIDE DEF iStatement
  <2> QED BY <1>3, <1>5 DEF Max2
<1>7. HandleTypes'
  <2> HIDE DEF iStatement
  <2> QED BY <1>1, <1>2, <1>5 DEF HandleTypes
<1>8. eState' # "reader" /\ StatementLocks'
  BY <1>1 DEF StatementLocks
<1> HIDE DEF iStatement, total
<1>9. SavepointTypes' /\ SavepointSizes'
  <2>1. dbOrigSize' = (IF eState = "reader" THEN dbSize ELSE dbOrigSize)
    BY <1>1
  <2> QED BY <1>1, <1>6, <1>8, <2>1, NewSavepoints
<1>10. Uncommitted
  BY <1>1, PastExcept, InvParts DEF PagesInv
<1>11. CASE eState = "reader"
  <2>1. PagesInv' /\ PageTypes'
    BY <1>1, <1>10, <1>11, BeginTrans
  <2> QED BY <1>7, <1>8, <1>9, <2>1, InvNext
<1>12. CASE eState # "reader"
  <2>1. Mild
    BY <1>1, <1>10, <1>12, UnmovedMild
  <2> QED BY <1>7, <1>8, <1>9, <2>1, MildNext
<1> QED BY <1>11, <1>12

LEMMA HaltNext == ASSUME NEW keep \in BOOLEAN PROVE IInv /\ Halt(keep) => IInv'
<1> SUFFICES ASSUME IInv, Halt(keep) PROVE IInv'
  OBVIOUS
<1>1. HandleTypes /\ stmt.running /\ stmt' = NoStatement
      /\ (HaltAutoCommit(keep) \/ HaltInTransaction(keep))
  BY InvParts DEF Halt
<1>2. UNCHANGED <<autoCommit, nOpen, isTransactionSavepoint>>
  BY <1>1 DEF HaltAutoCommit, HaltInTransaction, handle
<1>3. HandleTypes' /\ StatementLocks'
  <2>1. StatementLocks'
    BY <1>1 DEF StatementLocks, NoStatement
  <2>2. HandleTypes'
    BY <1>1, <1>2, NoStatementTypes DEF HandleTypes
  <2> QED BY <2>1, <2>2
<1>4. CASE HaltAutoCommit(keep)
  <2>1. CommitBtree \/ RollbackAll
    BY <1>4 DEF HaltAutoCommit
  <2>2. PagesInv' /\ SavepointSizes' /\ PageTypes' /\ SavepointTypes'
    BY <2>1, CommitPages, RollbackPages
  <2> QED BY <1>3, <2>2, InvNext
<1>5. CASE HaltInTransaction(keep)
  <2>1. /\ ReleaseStatement
        /\ UNCHANGED <<dbSize, pages>> \/ RollbackStatement
        /\ past' = [past EXCEPT !.undo = NoContents]
        /\ UNCHANGED <<eState, dbOrigSize, jrn>>
    BY <1>5 DEF HaltInTransaction
  <2>2. Uncommitted
    BY <2>1, PastExcept, InvParts DEF PagesInv
  <2>3. CASE stmt.iStatement = 0
    <3>1. UNCHANGED <<sub, aSavepoint, dbSize, pages>>
      BY <2>1, <2>3 DEF ReleaseStatement, RollbackStatement
    <3>2. Mild
      BY <2>1, <2>2, <3>1, UnmovedMild
    <3> QED BY <1>3, <2>1, <3>1, <3>2, SavepointsKeep, MildNext
  <2>4. CASE stmt.iStatement # 0
    <3> DEFINE i == stmt.iStatement - 1
    <3>1. i \in Nat /\ i \in Int /\ i >= -1 /\ ~(i < 0)
      <4>1. stmt.iStatement \in 0 .. MaxSavepoints + 1 /\ MaxSavepoints \in Nat
        BY <1>1, LimitsAssumption DEF HandleTypes
      <4> QED BY <2>4, <4>1
    <3>2. PagerRelease(i) /\ (UNCHANGED <<dbSize, pages>> \/ PagerRollback(i))
      BY <2>1, <2>4 DEF ReleaseStatement, RollbackStatement
    <3> HIDE DEF i
    <3>3. sub' \in {sub, <<>>}
      BY <3>2 DEF PagerRelease
    <3>4. Mild /\ (dbSize' = dbSize \/ (InPager(i) /\ dbSize' = aSavepoint[i + 1].nOrig))
      <4>1. CASE UNCHANGED <<dbSize, pages>>
        BY <2>1, <2>2, <3>3, <4>1, UnmovedMild
      <4>2. CASE PagerRollback(i)
        BY <2>1, <2>2, <3>1, <3>3, <4>2, PagerRollbackStep
      <4> QED BY <3>2, <4>1, <4>2
    <3>5. SavepointTypes' /\ SavepointSizes'
      BY <2>1, <3>1, <3>2, <3>4, PagerReleaseStep
    <3> QED BY <1>3, <3>4, <3>5, MildNext
  <2> QED BY <2>3, <2>4
<1> QED BY <1>1, <1>4, <1>5

LEMMA PageNext == ASSUME NEW p \in Page PROVE IInv /\ (Fetch(p) \/ Evict(p) \/ Spill(p)) => IInv'
<1> SUFFICES ASSUME IInv, Fetch(p) \/ Evict(p) \/ Spill(p) PROVE IInv'
  OBVIOUS
<1>1. UNCHANGED <<autoCommit, nOpen, isTransactionSavepoint, stmt, aSavepoint, dbSize, dbOrigSize>>
  BY DEF Fetch, Evict, Spill, handle, journals
<1>2. HandleTypes'
  BY <1>1, InvParts DEF HandleTypes
<1>3. CASE Fetch(p) \/ Evict(p)
  <2>1. eState' = eState
    BY <1>3 DEF Fetch, Evict
  <2>2. StatementLocks'
    BY <1>1, <2>1, InvParts DEF StatementLocks
  <2>3. Mild
    BY <1>3, FetchMild, EvictMild
  <2> QED BY <1>1, <1>2, <2>1, <2>2, <2>3, SavepointsKeep, MildNext
<1>4. CASE Spill(p)
  <2>1. PagesInv' /\ PageTypes'
    BY <1>4, SpillPages, SpillTypes
  <2>2. eState # "reader" /\ eState' # "reader"
    <3>1. dirty # {}
      BY <1>4 DEF Spill
    <3>2. InTransaction
      BY <3>1, InvParts DEF PagesInv, NothingToUndo
    <3> QED BY <1>4, <3>2 DEF Spill, InTransaction
  <2>3. StatementLocks' /\ SavepointTypes' /\ SavepointSizes'
    BY <1>1, <2>2, InvParts DEF StatementLocks, SavepointTypes, SavepointSizes
  <2> QED BY <1>2, <2>1, <2>3, InvNext
<1> QED BY <1>3, <1>4

LEMMA WriteNext ==
    ASSUME NEW p \in Page, NEW data \in Value
    PROVE  IInv /\ Write(p, data) => IInv'
<1> SUFFICES ASSUME IInv, Write(p, data) PROVE IInv'
  OBVIOUS
<1>1. PagesInv' /\ PageTypes' /\ SavepointTypes' /\ SavepointSizes'
  BY WritePages, WriteTypes
<1>2. /\ UNCHANGED <<autoCommit, nOpen, isTransactionSavepoint>>
      /\ stmt' = [stmt EXCEPT !.wrote = TRUE] /\ stmt.running
      /\ eState' = (IF eState = "locked" THEN "cachemod" ELSE eState)
  BY DEF Write, handle
<1>3. HandleTypes'
  BY <1>2, InvParts DEF HandleTypes
<1>4. StatementLocks'
  BY <1>2, InvParts DEF StatementLocks
<1> QED BY <1>1, <1>3, <1>4, InvNext

LEMMA InitInv == Init => IInv
<1> SUFFICES ASSUME Init PROVE IInv
  OBVIOUS
<1> USE DEF Init
<1>1. dbSize \in Page /\ dbOrigSize \in 1 .. dbSize
  BY PagesAssumption DEF Page
<1>2. cache \in [Page -> Value \cup {Absent}]
  OBVIOUS
<1>3. HandleTypes /\ StatementLocks
  <2>1. autoCommit \in BOOLEAN /\ isTransactionSavepoint \in BOOLEAN
    OBVIOUS
  <2>2. StatementLocks
    BY DEF StatementLocks, NoStatement
  <2> QED BY <2>1, <2>2, NoStatementTypes, LimitsAssumption DEF HandleTypes
<1>4. PageTypes /\ SavepointTypes
  BY <1>1, <1>2, LimitsAssumption DEF PageTypes, SavepointTypes
<1>5. pInJournal = {} /\ subPages = {} /\ touchedPages = {}
  BY DEF pInJournal, subPages, touchedPages
<1>6. SavepointSizes /\ JournalShape /\ NothingToUndo
  BY DEF SavepointSizes, JournalShape, NothingToUndo, InTransaction
<1>7. DirtyRecorded /\ SectorRecorded /\ SectorUnsynced /\ NotSpilled /\ UnsyncedStored
  BY <1>5 DEF DirtyRecorded, SectorRecorded, SectorUnsynced, NotSpilled, UnsyncedStored
<1>8. CleanIsStored
  <2>1. \A p \in 1 .. dbSize : p \in Page
    BY PagesAssumption DEF Page
  <2> QED BY <2>1 DEF CleanIsStored
<1>9. CommittedKept
  <2>1. past = [committed |-> Current, saved |-> <<>>, undo |-> NoContents]
    OBVIOUS
  <2>2. past.committed = Current
        /\ past = [committed |-> past.committed, saved |-> past.saved, undo |-> past.undo]
    BY <2>1
  <2> QED BY <2>2 DEF CommittedKept
<1> QED BY <1>3, <1>4, <1>6, <1>7, <1>8, <1>9, TypeParts DEF IInv, PagesInv

LEMMA StutterInv == IInv /\ UNCHANGED vars => IInv'
<1> SUFFICES ASSUME IInv, UNCHANGED vars PROVE IInv'
  OBVIOUS
<1>1. /\ UNCHANGED <<eState, dbOrigSize, dbSize, pages, jrn, sub, aSavepoint, past>>
      /\ UNCHANGED <<autoCommit, nOpen, isTransactionSavepoint, stmt>>
  BY DEF vars, handle, pages, journals
<1>2. Uncommitted
  BY <1>1, PastExcept, InvParts DEF PagesInv
<1>3. Mild
  BY <1>1, <1>2, UnmovedMild
<1>4. HandleTypes' /\ StatementLocks'
  BY <1>1, InvParts DEF HandleTypes, StatementLocks
<1> QED BY <1>1, <1>3, <1>4, SavepointsKeep, MildNext

LEMMA NextInv == IInv /\ [Next]_vars => IInv'
<1> SUFFICES ASSUME IInv, [Next]_vars PROVE IInv'
  OBVIOUS
<1>1. CASE Begin
  BY <1>1, BeginNext
<1>2. CASE Commit
  BY <1>2, CommitNext
<1>3. CASE Savepoint
  BY <1>3, SavepointNext
<1>4. CASE Rollback \/ AbortTransaction \/ IoError \/ \E p \in Page : SubJournalFull(p)
  <2>1. ForcedRollback
    BY <1>4 DEF Rollback, AbortTransaction, IoError, SubJournalFull
  <2> QED BY <2>1, ForcedRollbackNext
<1>5. CASE \E k \in 1 .. nOpen : Release(k) \/ RollbackTo(k)
  BY <1>5, ReleaseNext, RollbackToNext
<1>6. CASE \E usesStmtJournal, reading \in BOOLEAN : StartStatement(usesStmtJournal, reading)
  BY <1>6, StartStatementNext
<1>7. CASE \E p \in Page, data \in Value : Write(p, data)
  BY <1>7, WriteNext
<1>8. CASE Succeed \/ Abort
  <2>1. \E keep \in BOOLEAN : Halt(keep)
    BY <1>8 DEF Succeed, Abort
  <2> QED BY <2>1, HaltNext
<1>9. CASE \E p \in Page : Fetch(p) \/ Evict(p) \/ Spill(p)
  BY <1>9, PageNext
<1>10. CASE UNCHANGED vars
  BY <1>10, StutterInv
<1> QED BY <1>1, <1>2, <1>3, <1>4, <1>5, <1>6, <1>7, <1>8, <1>9, <1>10 DEF Next

LEMMA Invariance == Spec => []IInv
BY InitInv, NextInv, PTL DEF Spec

------------------------------------------------------------------------------
(* What follows from the inductive invariant.                               *)

\* Before the first write, playing back changes nothing.
LEMMA NothingPlayed ==
    ASSUME IInv, eState = "locked", NEW p \in 1 .. dbOrigSize
    PROVE  ReadAfter(WholeTransaction, p) = past.committed[p]
<1> USE DEF IInv, PagesInv
<1>1. p \in Page /\ pInJournal = {} /\ subPages = {}
  BY PagesAssumption DEF TypeOK, Page, NothingToUndo, InTransaction, pInJournal, subPages
<1>2. Read(p) = past.committed[p]
  BY <1>1 DEF CommittedKept
<1>3. p \notin DOMAIN WholeTransaction
  <2>1. 1 \in Nat \ {0} /\ Len(sub) + 1 \in Nat \ {0} /\ dbOrigSize \in Page
    BY PagesAssumption DEF TypeOK, Page
  <2> QED BY <1>1, <2>1, OnlyRecordedPlayed DEF WholeTransaction
<1>4. CachePage(WholeTransaction, p) = cache[p] /\ FilePage(WholeTransaction, p) = file[p]
  BY <1>3 DEF CachePage, FilePage, AddedToCache, ToFile
<1> QED BY <1>2, <1>4 DEF ReadAfter, Read

\* A page no synced record is about has its committed contents in the file.
LEMMA UnsyncedInFile ==
    ASSUME IInv, eState # "reader", NEW p \in 1 .. dbOrigSize,
           \A i \in 1 .. Len(jrn) : ~IsHeader(jrn[i]) /\ jrn[i].pgno = p => ~(i < journalHdr)
    PROVE  file[p] = past.committed[p]
<1> USE DEF IInv, PagesInv
<1>1. p \in Page /\ p <= dbOrigSize /\ p \in 1 .. dbSize
  BY PagesAssumption DEF TypeOK, Page
<1>2. CASE p \in pInJournal
  <2>1. PICK i \in 1 .. Len(jrn) : jrn[i].pgno = p /\ ~IsHeader(jrn[i])
    BY <1>1, <1>2, InJournal
  <2>2. InTransaction
    BY <1>2 DEF NothingToUndo, pInJournal
  <2>3. i # journalHdr /\ journalHdr \in Int /\ (Unsynced(i) <=> journalHdr < i)
    BY <2>1, <2>2, JournalHdr
  <2>4. Unsynced(i)
    BY <2>1, <2>3
  <2>5. jrn[i].data = file[p]
    BY <2>1, <2>4 DEF UnsyncedStored
  <2> QED BY <2>1, <2>5 DEF CommittedKept
<1>3. CASE p \notin pInJournal
  <2>1. p \notin dirty
    BY <1>1, <1>3 DEF DirtyRecorded
  <2>2. cache[p] \in {Absent, file[p]}
    BY <1>1, <2>1 DEF CleanIsStored
  <2>3. Read(p) = past.committed[p]
    BY <1>3 DEF CommittedKept
  <2> QED BY <2>2, <2>3 DEF Read
<1> QED BY <1>2, <1>3

LEMMA InvTransactionKept == IInv => TransactionKept
<1> SUFFICES ASSUME IInv, eState # "reader"
             PROVE  /\ past.committed = After(WholeTransaction, dbOrigSize)
                    /\ past.committed = [p \in 1 .. dbOrigSize |->
                          LET synced == {i \in MainPlayed(1, dbOrigSize) :
                                            jrn[i].pgno = p /\ i < journalHdr}
                          IN IF synced = {} THEN file[p] ELSE jrn[Least(synced)].data]
  BY DEF TransactionKept
<1>1. past.committed \in [1 .. dbOrigSize -> Value]
  BY DEF IInv, PagesInv, CommittedKept
<1>2. ASSUME NEW p \in 1 .. dbOrigSize
      PROVE  ReadAfter(WholeTransaction, p) = past.committed[p]
  <2>1. CASE InTransaction
    BY <2>1, RollbackRestores DEF ReadAfter
  <2>2. CASE ~InTransaction
    <3>1. eState = "locked"
      BY <2>2 DEF IInv, TypeOK, InTransaction
    <3> QED BY <3>1, NothingPlayed
  <2> QED BY <2>1, <2>2
<1>3. ASSUME NEW p \in 1 .. dbOrigSize, NEW synced,
             synced = {i \in MainPlayed(1, dbOrigSize) : jrn[i].pgno = p /\ i < journalHdr}
      PROVE  past.committed[p] = IF synced = {} THEN file[p] ELSE jrn[Least(synced)].data
  <2>1. \A i \in synced : i \in 1 .. Len(jrn) /\ ~IsHeader(jrn[i]) /\ jrn[i].pgno = p
    BY <1>3 DEF MainPlayed
  <2>2. CASE synced = {}
    <3>1. \A i \in 1 .. Len(jrn) : ~IsHeader(jrn[i]) /\ jrn[i].pgno = p => ~(i < journalHdr)
      BY <1>3, <2>2 DEF MainPlayed
    <3> QED BY <2>2, <3>1, UnsyncedInFile
  <2>3. CASE synced # {}
    <3>1. synced \in SUBSET Nat
      BY <1>3 DEF MainPlayed
    <3>2. Least(synced) \in synced
      BY <2>3, <3>1, LeastProperties
    <3> QED BY <2>1, <2>3, <3>2 DEF IInv, PagesInv, CommittedKept
  <2> QED BY <2>2, <2>3
<1>4. past.committed = After(WholeTransaction, dbOrigSize)
  BY <1>1, <1>2 DEF After
<1> QED BY <1>1, <1>3, <1>4

\* Every state the statements and commands, the page cache and a failing card
\* lead to has the types: the sub-journal, the stack of savepoints and the
\* database stay within their bounds.
THEOREM TypeCorrect == Spec => []TypeOK
<1>1. IInv => TypeOK
  BY DEF IInv
<1> QED BY <1>1, Invariance, PTL

\* A page of the cache that is not dirty is in the database file as it is
\* (pagerStress, pager_playback_one_page, pager_end_transaction): the cache can
\* drop it.
THEOREM CleanPagesStored == Spec => []CleanIsStored
<1>1. IInv => CleanIsStored
  BY DEF IInv, PagesInv
<1> QED BY <1>1, Invariance, PTL

\* ROLLBACK restores the contents of the last commit at any moment of a
\* transaction, through the cache, and so do the synced records of the journal
\* with the database file alone, as after a reset.
THEOREM TransactionRestored == Spec => []TransactionKept
BY InvTransactionKept, Invariance, PTL

=============================================================================
