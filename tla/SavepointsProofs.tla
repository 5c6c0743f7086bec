--------------------------- MODULE SavepointsProofs ---------------------------
(****************************************************************************)
(* Proofs that savepoints and statements can be undone, for any number of   *)
(* them, any size of a database, a sector and the sub-journal, and a card   *)
(* that may fail; and that the connection therefore does to the contents    *)
(* of the database what SqlTransactions says.                               *)
(****************************************************************************)
EXTENDS TransactionsProofs

\* The entries of the main journal, and of the sub-journal, that are about page
\* p and come after the first so many
MainAfter(first, p) == {i \in 1 .. Len(jrn) : first < i /\ jrn[i].pgno = p}
SubAfter(first, p) == {i \in 1 .. Len(sub) : first < i /\ sub[i].pgno = p}

\* What going back to a savepoint with these places makes of page p: of the
\* main journal there is one record at most, of the sub-journal the first one
\* counts, and a page without a record is as it was.
Restores(iOffset, iSubRec, p, data) ==
    \/ \E i \in MainAfter(iOffset, p) : jrn[i].data = data
    \/ /\ MainAfter(iOffset, p) = {}
       /\ \E i \in SubAfter(iSubRec, p) :
             /\ \A j \in SubAfter(iSubRec, p) : i <= j
             /\ sub[i].data = data
    \/ /\ MainAfter(iOffset, p) = {} /\ SubAfter(iSubRec, p) = {}
       /\ Read(p) = data

\* The contents at the savepoint that is the i-th of the pager: the statement's,
\* or one of SQL's, the one that began the transaction not counted
Meant(i) == IF i = stmt.iStatement THEN past.undo
            ELSE past.saved[nOpen - nSavepoint + i]

\* The counters of the handle and of the statement agree with the pager, which
\* learns of savepoints when a statement begins.
SavepointCounts ==
    /\ autoCommit => nOpen = 0 /\ ~isTransactionSavepoint
    /\ isTransactionSavepoint => nOpen > 0
    /\ autoCommit /\ ~stmt.running => eState = "reader"
    /\ ~stmt.running => stmt.iStatement = 0 /\ Len(aSavepoint) <= nSavepoint
    /\ stmt.running => /\ stmt.iStatement \in {0, nSavepoint + 1}
                       /\ Len(aSavepoint) = Max2(nSavepoint, stmt.iStatement)

\* The history has an entry for each savepoint, and one for a statement that
\* can be undone.
PastShape ==
    /\ past.saved \in Seq(Contents) /\ Len(past.saved) = nOpen
    /\ past.undo \in Contents \cup {NoContents}
    /\ stmt.iStatement = 0 <=> past.undo = NoContents
    /\ isTransactionSavepoint => past.saved[1] = past.committed

\* Nothing has changed since a savepoint the pager does not know.
UnopenedCurrent ==
    \A k \in 1 .. nOpen : ~IsTransaction(k) /\ Index(k) >= Len(aSavepoint) =>
        past.saved[k] = Current

\* The records of an inner savepoint are among those of an outer one.
PlacesNested ==
    \A i \in 1 .. Len(aSavepoint) :
        /\ aSavepoint[i].iOffset <= Max2(Len(jrn), 1)
        /\ aSavepoint[i].iSubRec <= Len(sub)
        /\ \A j \in 1 .. i : /\ aSavepoint[j].iOffset <= aSavepoint[i].iOffset
                             /\ aSavepoint[j].iSubRec <= aSavepoint[i].iSubRec

\* A page is not recorded for a savepoint that has a record of it already.
PagesInSavepoint ==
    \A i \in 1 .. Len(aSavepoint) :
        \A p \in aSavepoint[i].pInSavepoint :
            MainAfter(aSavepoint[i].iOffset, p) \cup SubAfter(aSavepoint[i].iSubRec, p) # {}

\* Each savepoint of the pager restores what it stands for.
Restorable ==
    \A i \in 1 .. Len(aSavepoint) :
        /\ Meant(i) \in [1 .. aSavepoint[i].nOrig -> Value]
        /\ \A p \in 1 .. aSavepoint[i].nOrig :
              Restores(aSavepoint[i].iOffset, aSavepoint[i].iSubRec, p, Meant(i)[p])

SavepointsInv ==
    /\ SavepointCounts /\ PastShape /\ UnopenedCurrent
    /\ PlacesNested /\ PagesInSavepoint /\ Restorable
SInv == IInv /\ SavepointsInv

------------------------------------------------------------------------------
(* What the places of the records say.                                      *)

LEMMA Places ==
    ASSUME NEW first \in Nat, NEW p
    PROVE  /\ MainAfter(first, p) \in SUBSET Nat
           /\ SubAfter(first, p) \in SUBSET Nat
           /\ \A i \in MainAfter(first, p) :
                 i \in 1 .. Len(jrn) /\ first < i /\ jrn[i].pgno = p
           /\ \A i \in SubAfter(first, p) :
                 i \in 1 .. Len(sub) /\ first < i /\ sub[i].pgno = p
BY DEF MainAfter, SubAfter

\* What is restored is the contents of a page.
LEMMA RestoresValue ==
    ASSUME IInv, NEW iOffset \in Nat, NEW iSubRec \in Nat, NEW p \in Page, NEW data,
           Restores(iOffset, iSubRec, p, data)
    PROVE  data \in Value
<1>1. TypeOK /\ JournalShape /\ p # 0
  BY PagesAssumption DEF IInv, PagesInv, Page
<1>2. ASSUME NEW i \in MainAfter(iOffset, p) PROVE jrn[i].data \in Value
  <2>1. i \in 1 .. Len(jrn) /\ ~IsHeader(jrn[i])
    BY <1>1, Places DEF IsHeader
  <2> QED BY <1>1, <2>1, JournalEntry
<1>3. ASSUME NEW i \in SubAfter(iSubRec, p) PROVE sub[i].data \in Value
  BY <1>1, Places, SubEntry
<1>4. Read(p) \in Value
  BY <1>1 DEF TypeOK, Read
<1> QED BY <1>2, <1>3, <1>4 DEF Restores

\* Playing back makes of a page what Restores says.
LEMMA RestoresPlayed ==
    ASSUME IInv, NEW iOffset \in Nat, NEW iSubRec \in Nat, NEW size \in Page,
           NEW p \in Page, p <= size, NEW data, Restores(iOffset, iSubRec, p, data),
           NEW played, played = Played(iOffset + 1, iSubRec + 1, size)
    PROVE  ReadAfter(played, p) = data
<1> DEFINE main == {i \in MainPlayed(iOffset + 1, size) : jrn[i].pgno = p}
           more == {i \in SubPlayed(iSubRec + 1, size) : sub[i].pgno = p}
<1>1. TypeOK /\ JournalShape /\ p # 0 /\ Len(jrn) \in Nat /\ Len(sub) \in Nat
  BY PagesAssumption DEF IInv, PagesInv, TypeOK, Page
<1>2. main = MainAfter(iOffset, p) /\ more = SubAfter(iSubRec, p)
  BY <1>1 DEF MainPlayed, SubPlayed, MainAfter, SubAfter, IsHeader
<1>3. p \in DOMAIN played <=> main # {} \/ more # {}
  BY DEF Played
<1>4. main # {} => /\ played[p].data = jrn[Least(main)].data
                   /\ Least(main) \in main
  <2>1. main \in SUBSET Nat
    BY <1>2, Places
  <2> SUFFICES ASSUME main # {}
               PROVE  played[p].data = jrn[Least(main)].data /\ Least(main) \in main
    OBVIOUS
  <2>2. played[p] = [data |-> jrn[Least(main)].data, main |-> TRUE,
                     synced |-> Least(main) < journalHdr]
    BY DEF Played
  <2> HIDE DEF main
  <2>3. FromMain(played[p], Least(main))
    BY <2>2, FromMainRecord, Zenon
  <2> QED BY <2>1, <2>3, LeastProperties DEF FromMain
<1>5. main = {} /\ more # {} =>
         /\ played[p].data = sub[Least(more)].data
         /\ Least(more) \in more /\ \A j \in more : Least(more) <= j
  <2>1. more \in SUBSET Nat
    BY <1>2, Places
  <2> SUFFICES ASSUME main = {}, more # {}
               PROVE  /\ played[p].data = sub[Least(more)].data
                      /\ Least(more) \in more /\ \A j \in more : Least(more) <= j
    OBVIOUS
  <2>2. played[p] = [data |-> sub[Least(more)].data, main |-> FALSE,
                     synced |-> cache[p] = Absent \/ p \notin needSync]
    BY DEF Played
  <2> HIDE DEF main, more
  <2>3. FromSub(played[p], Least(more), p)
    BY <2>2, FromSubRecord, Zenon
  <2> QED BY <2>1, <2>3, LeastProperties DEF FromSub
<1> HIDE DEF main, more
<1>6. p \in DOMAIN played => played[p].data = data
  <2>1. CASE \E i \in MainAfter(iOffset, p) : jrn[i].data = data
    <3>1. PICK i \in main : jrn[i].data = data
      BY <1>2, <2>1
    <3>2. Least(main) \in main
      BY <1>4, <3>1
    <3>3. i = Least(main)
      BY <1>1, <1>2, <3>1, <3>2, Places DEF JournalShape, IsHeader
    <3> QED BY <1>4, <3>1, <3>3
  <2>2. CASE /\ main = {}
             /\ \E i \in more : (\A j \in more : i <= j) /\ sub[i].data = data
    <3>1. PICK i \in more : (\A j \in more : i <= j) /\ sub[i].data = data
      BY <2>2
    <3>2. more \in SUBSET Nat
      BY <1>2, Places
    <3>3. Least(more) = i
      <4>1. Least(more) \in more /\ Least(more) <= i /\ i <= Least(more)
        BY <1>5, <2>2, <3>1
      <4>2. i \in Nat /\ Least(more) \in Nat
        BY <3>1, <3>2, <4>1
      <4> HIDE DEF Least
      <4> QED BY <4>1, <4>2
    <3> QED BY <1>5, <2>2, <3>1, <3>3
  <2>3. CASE main = {} /\ more = {}
    BY <1>3, <2>3
  <2> QED BY <1>2, <2>1, <2>2, <2>3 DEF Restores
<1>7. p \notin DOMAIN played => Read(p) = data
  BY <1>2, <1>3 DEF Restores
<1>8. /\ ~AddedToCache(played, p)
      /\ p \in DOMAIN played =>
            /\ played[p].data \in Value
            /\ cache[p] = Absent => ToFile(played, p)
      /\ p \notin DOMAIN played =>
            CachePage(played, p) = cache[p] /\ FilePage(played, p) = file[p]
  <2>1. iOffset + 1 \in Nat \ {0} /\ iSubRec + 1 \in Nat \ {0}
    OBVIOUS
  <2> QED BY <2>1, PlaybackEffect
<1>9. CASE p \notin DOMAIN played
  BY <1>7, <1>8, <1>9 DEF ReadAfter, Read
<1>10. CASE p \in DOMAIN played /\ cache[p] = Absent
  BY <1>6, <1>8, <1>10 DEF ReadAfter, CachePage, FilePage
<1>11. CASE p \in DOMAIN played /\ cache[p] # Absent
  BY <1>6, <1>8, <1>11, ValueAssumption DEF ReadAfter, CachePage
<1> QED BY <1>9, <1>10, <1>11

------------------------------------------------------------------------------
(* Steps that record no page.                                               *)

\* A segment of the main journal may begin.
NoneRecorded == sub' = sub /\ (jrn' = jrn \/ jrn' = Append(jrn, Header))

LEMMA PlacesKeep ==
    ASSUME IInv, NoneRecorded, NEW first \in Nat, NEW p \in Page
    PROVE  /\ MainAfter(first, p)' = MainAfter(first, p)
           /\ SubAfter(first, p)' = SubAfter(first, p)
           /\ \A i \in MainAfter(first, p) : jrn'[i] = jrn[i]
<1>1. TypeOK /\ JournalShape /\ p # 0 /\ Len(jrn) \in Nat
  BY PagesAssumption DEF IInv, PagesInv, TypeOK, Page
<1>2. SubAfter(first, p)' = SubAfter(first, p)
  BY DEF NoneRecorded, SubAfter
<1>3. CASE jrn' = jrn
  BY <1>2, <1>3 DEF MainAfter
<1>4. CASE jrn' = Append(jrn, Header)
  <2>1. /\ \A i \in 1 .. Len(jrn) : jrn'[i] = jrn[i] /\ i \in 1 .. Len(jrn')
        /\ \A i \in 1 .. Len(jrn') : i \in 1 .. Len(jrn) \/ jrn'[i].pgno = 0
    BY <1>1, <1>4, HeaderAppended DEF Header
  <2> QED BY <1>1, <1>2, <2>1 DEF MainAfter
<1> QED BY <1>3, <1>4 DEF NoneRecorded

LEMMA RestoresKeep ==
    ASSUME IInv, NoneRecorded, NEW iOffset \in Nat, NEW iSubRec \in Nat, NEW p \in Page,
           NEW data, Restores(iOffset, iSubRec, p, data),
           MainAfter(iOffset, p) = {} /\ SubAfter(iSubRec, p) = {} => Read(p)' = Read(p)
    PROVE  Restores(iOffset, iSubRec, p, data)'
<1>1. /\ MainAfter(iOffset, p)' = MainAfter(iOffset, p)
      /\ SubAfter(iSubRec, p)' = SubAfter(iSubRec, p)
      /\ \A i \in MainAfter(iOffset, p) : jrn'[i] = jrn[i]
      /\ sub' = sub
  BY PlacesKeep DEF NoneRecorded
<1> QED BY <1>1 DEF Restores

\* A savepoint of the pager, and the pages it stands for
LEMMA SavepointParts ==
    ASSUME IInv, NEW i \in 1 .. Len(aSavepoint)
    PROVE  /\ aSavepoint[i].nOrig \in Page
           /\ aSavepoint[i].iOffset \in Nat /\ aSavepoint[i].iSubRec \in Nat
           /\ aSavepoint[i].pInSavepoint \subseteq Page
           /\ \A p \in 1 .. aSavepoint[i].nOrig : p \in Page /\ p \in 1 .. dbSize
<1>1. aSavepoint[i] \in SavepointRecord
  BY InvParts, SeqElement DEF SavepointTypes
<1>2. /\ aSavepoint[i].nOrig \in Page /\ aSavepoint[i].pInSavepoint \subseteq Page
      /\ aSavepoint[i].iOffset \in Nat /\ aSavepoint[i].iSubRec \in Nat
  BY <1>1 DEF SavepointRecord
<1>3. aSavepoint[i].nOrig <= dbSize /\ dbSize \in Page
  BY SavepointEntry, InvParts, PagesAssumption DEF PageTypes, Page
<1> QED BY <1>2, <1>3, PagesAssumption DEF Page

\* The savepoints that are left restore what they did, as long as a page they
\* have no record of stays as it is.
LEMMA RestorableKeep ==
    ASSUME IInv, SavepointsInv, NoneRecorded,
           \A i \in 1 .. Len(aSavepoint') :
              /\ i \in 1 .. Len(aSavepoint) /\ aSavepoint'[i] = aSavepoint[i]
              /\ Meant(i)' = Meant(i)
              /\ \A p \in 1 .. aSavepoint[i].nOrig :
                    MainAfter(aSavepoint[i].iOffset, p) = {}
                    /\ SubAfter(aSavepoint[i].iSubRec, p) = {} => Read(p)' = Read(p)
    PROVE  PlacesNested' /\ PagesInSavepoint' /\ Restorable'
<1>1. PlacesNested /\ PagesInSavepoint /\ Restorable
  BY DEF SavepointsInv
<1>2. PlacesNested'
  <2>1. Max2(Len(jrn), 1) <= Max2(Len(jrn'), 1) /\ Max2(Len(jrn), 1) \in Int
        /\ Max2(Len(jrn'), 1) \in Int /\ sub' = sub
    <3>1. Len(jrn) \in Nat /\ (Len(jrn') = Len(jrn) \/ Len(jrn') = Len(jrn) + 1)
      BY InvParts, HeaderAppended DEF NoneRecorded, PageTypes, PagesInv, IInv
    <3> QED BY <3>1 DEF Max2, NoneRecorded
  <2> SUFFICES ASSUME NEW i \in 1 .. Len(aSavepoint')
               PROVE  /\ aSavepoint'[i].iOffset <= Max2(Len(jrn'), 1)
                      /\ aSavepoint'[i].iSubRec <= Len(sub')
                      /\ \A j \in 1 .. i :
                            /\ aSavepoint'[j].iOffset <= aSavepoint'[i].iOffset
                            /\ aSavepoint'[j].iSubRec <= aSavepoint'[i].iSubRec
    BY DEF PlacesNested, Max2
  <2>2. i \in 1 .. Len(aSavepoint) /\ aSavepoint'[i] = aSavepoint[i]
        /\ \A j \in 1 .. i : aSavepoint'[j] = aSavepoint[j]
    <3>1. \A j \in 1 .. i : j \in 1 .. Len(aSavepoint')
      OBVIOUS
    <3> QED BY <3>1
  <2>3. aSavepoint[i].iOffset \in Nat
    BY <2>2, SavepointParts
  <2>4. /\ aSavepoint[i].iOffset <= Max2(Len(jrn), 1) /\ aSavepoint[i].iSubRec <= Len(sub)
        /\ \A j \in 1 .. i : /\ aSavepoint[j].iOffset <= aSavepoint[i].iOffset
                             /\ aSavepoint[j].iSubRec <= aSavepoint[i].iSubRec
    BY <1>1, <2>2 DEF PlacesNested
  <2>5. aSavepoint[i].iOffset <= Max2(Len(jrn'), 1)
    BY <2>1, <2>3, <2>4
  <2> QED BY <2>1, <2>2, <2>4, <2>5
<1>3. PagesInSavepoint'
  <2> SUFFICES ASSUME NEW i \in 1 .. Len(aSavepoint'), NEW s, s = aSavepoint'[i],
                      NEW p \in s.pInSavepoint
               PROVE  MainAfter(s.iOffset, p)' \cup SubAfter(s.iSubRec, p)' # {}
    <3> SUFFICES ASSUME NEW i \in 1 .. Len(aSavepoint'),
                        NEW p \in aSavepoint'[i].pInSavepoint
                 PROVE  (MainAfter(aSavepoint[i].iOffset, p)
                            \cup SubAfter(aSavepoint[i].iSubRec, p))' # {}
      BY DEF PagesInSavepoint
    <3>1. PICK s : s = aSavepoint'[i]
      OBVIOUS
    <3>2. MainAfter(s.iOffset, p)' \cup SubAfter(s.iSubRec, p)' # {}
      BY <3>1
    <3> QED BY <3>1, <3>2 DEF MainAfter, SubAfter
  <2>1. i \in 1 .. Len(aSavepoint) /\ aSavepoint[i] = s
    OBVIOUS
  <2>2. p \in Page /\ s.iOffset \in Nat /\ s.iSubRec \in Nat
    BY <2>1, SavepointParts
  <2>3. /\ MainAfter(s.iOffset, p)' = MainAfter(s.iOffset, p)
        /\ SubAfter(s.iSubRec, p)' = SubAfter(s.iSubRec, p)
    BY <2>2, PlacesKeep
  <2> QED BY <1>1, <2>1, <2>3 DEF PagesInSavepoint
<1>4. Restorable'
  <2> SUFFICES ASSUME NEW i \in 1 .. Len(aSavepoint'), NEW s, s = aSavepoint'[i],
                      NEW contents, contents = Meant(i)'
               PROVE  /\ contents \in [1 .. s.nOrig -> Value]
                      /\ \A p \in 1 .. s.nOrig : Restores(s.iOffset, s.iSubRec, p, contents[p])'
    <3> SUFFICES ASSUME NEW i \in 1 .. Len(aSavepoint')
                 PROVE  /\ Meant(i)' \in [1 .. aSavepoint'[i].nOrig -> Value]
                        /\ \A p \in 1 .. aSavepoint'[i].nOrig :
                              Restores(aSavepoint[i].iOffset, aSavepoint[i].iSubRec, p,
                                       Meant(i)[p])'
      BY DEF Restorable
    <3>1. PICK s, contents : s = aSavepoint'[i] /\ contents = Meant(i)'
      OBVIOUS
    <3>2. /\ contents \in [1 .. s.nOrig -> Value]
          /\ \A p \in 1 .. s.nOrig : Restores(s.iOffset, s.iSubRec, p, contents[p])'
      BY <3>1
    <3> QED BY <3>1, <3>2 DEF Restores, MainAfter, SubAfter
  <2>1. i \in 1 .. Len(aSavepoint) /\ aSavepoint[i] = s /\ contents = Meant(i)
    OBVIOUS
  <2>2. s.iOffset \in Nat /\ s.iSubRec \in Nat /\ \A p \in 1 .. s.nOrig : p \in Page
    BY <2>1, SavepointParts
  <2>3. /\ contents \in [1 .. s.nOrig -> Value]
        /\ \A p \in 1 .. s.nOrig : Restores(s.iOffset, s.iSubRec, p, contents[p])
    BY <1>1, <2>1 DEF Restorable
  <2>4. ASSUME NEW p \in 1 .. s.nOrig
        PROVE  Restores(s.iOffset, s.iSubRec, p, contents[p])'
    <3>1. MainAfter(s.iOffset, p) = {} /\ SubAfter(s.iSubRec, p) = {} => Read(p)' = Read(p)
      BY <2>1
    <3> QED BY <2>2, <2>3, <3>1, RestoresKeep
  <2> QED BY <2>3, <2>4
<1> QED BY <1>2, <1>3, <1>4

------------------------------------------------------------------------------
(* Going back to a savepoint.                                               *)

LEMMA PlayedBack ==
    ASSUME IInv, NEW played, NEW size, PlayBack(played, size), NEW p \in Page
    PROVE  Read(p)' = ReadAfter(played, p) /\ dbSize' = size
BY DEF PlayBack, FileAfter, CacheAfter, Read, ReadAfter

\* The pager's savepoint s stands for Meant(s).
LEMMA MeantPlayed ==
    ASSUME IInv, Restorable, NEW s \in 1 .. Len(aSavepoint),
           NEW p \in 1 .. aSavepoint[s].nOrig
    PROVE  ReadAfter(BackTo(aSavepoint[s]), p) = Meant(s)[p]
<1> DEFINE iOffset == aSavepoint[s].iOffset
           iSubRec == aSavepoint[s].iSubRec
           nOrig == aSavepoint[s].nOrig
           played == BackTo(aSavepoint[s])
           data == Meant(s)[p]
<1>1. /\ iOffset \in Nat /\ iSubRec \in Nat /\ nOrig \in Page
      /\ p \in Page /\ p <= nOrig
  BY SavepointParts, PagesAssumption DEF Page
<1>2. Restores(iOffset, iSubRec, p, data)
  BY DEF Restorable
<1>3. played = Played(iOffset + 1, iSubRec + 1, nOrig)
  BY DEF BackTo
<1> HIDE DEF iOffset, iSubRec, nOrig, played, data
<1>4. ReadAfter(played, p) = data
  BY <1>1, <1>2, <1>3, RestoresPlayed
<1> QED BY <1>4 DEF played, data

\* An outer savepoint that has no record of a page sees no change.
LEMMA UnrecordedUnplayed ==
    ASSUME IInv, PlacesNested, NEW s \in 1 .. Len(aSavepoint), NEW i \in 1 .. s,
           NEW p \in 1 .. aSavepoint[i].nOrig,
           MainAfter(aSavepoint[i].iOffset, p) = {}, SubAfter(aSavepoint[i].iSubRec, p) = {}
    PROVE  ReadAfter(BackTo(aSavepoint[s]), p) = Read(p)
<1>1. i \in 1 .. Len(aSavepoint)
  OBVIOUS
<1>2. /\ aSavepoint[s].iOffset \in Nat /\ aSavepoint[s].iSubRec \in Nat
      /\ aSavepoint[i].iOffset \in Nat /\ aSavepoint[i].iSubRec \in Nat
      /\ aSavepoint[s].nOrig \in Page /\ aSavepoint[i].nOrig \in Page /\ p \in Page
  BY <1>1, SavepointParts
<1>3. p <= aSavepoint[s].nOrig
  <2>1. aSavepoint[i].nOrig <= aSavepoint[s].nOrig
    BY SavepointEntry
  <2> QED BY <1>2, <2>1, PagesAssumption DEF Page
<1>4. aSavepoint[i].iOffset <= aSavepoint[s].iOffset
      /\ aSavepoint[i].iSubRec <= aSavepoint[s].iSubRec
  BY DEF PlacesNested
<1>5. Len(jrn) \in Nat /\ Len(sub) \in Nat
  BY InvParts DEF PageTypes
<1>6. MainAfter(aSavepoint[s].iOffset, p) = {}
  BY <1>2, <1>4, <1>5 DEF MainAfter
<1>7. SubAfter(aSavepoint[s].iSubRec, p) = {}
  BY <1>2, <1>4, <1>5 DEF SubAfter
<1> DEFINE iOffset == aSavepoint[s].iOffset
           iSubRec == aSavepoint[s].iSubRec
           nOrig == aSavepoint[s].nOrig
           played == BackTo(aSavepoint[s])
           data == Read(p)
<1>8. Restores(iOffset, iSubRec, p, data)
  BY <1>6, <1>7 DEF Restores
<1>9. played = Played(iOffset + 1, iSubRec + 1, nOrig)
  BY DEF BackTo
<1>10. iOffset \in Nat /\ iSubRec \in Nat /\ nOrig \in Page /\ p \in Page /\ p <= nOrig
  BY <1>2, <1>3
<1> HIDE DEF iOffset, iSubRec, nOrig, played, data
<1>11. ReadAfter(played, p) = data
  BY <1>8, <1>9, <1>10, RestoresPlayed
<1> QED BY <1>11 DEF played, data

\* What the b-tree reads is a contents of the database.
LEMMA CurrentContents ==
    ASSUME IInv
    PROVE  Current \in Contents /\ Current # NoContents
           /\ Current \in [1 .. dbSize -> Value]
<1>1. dbSize \in Page /\ dbSize >= 1 /\ \A p \in 1 .. dbSize : p \in Page
  BY InvParts, PagesAssumption DEF PageTypes, Page
<1>2. \A p \in Page : Read(p) \in Value
  BY InvParts DEF PageTypes, Read
<1>3. Current \in [1 .. dbSize -> Value]
  BY <1>1, <1>2 DEF Current
<1>4. Current # NoContents
  <2>1. DOMAIN Current = 1 .. dbSize /\ DOMAIN NoContents = 1 .. 0 
        /\ 1 \in 1 .. dbSize /\ 1 \notin 1 .. 0
    BY <1>1, <1>3 DEF NoContents
  <2> QED BY <2>1, Zenon
<1> QED BY <1>1, <1>3, <1>4 DEF Contents

\* sqlite3PagerSavepoint of one of the pager's own savepoints
LEMMA PagerRollbackKeeps ==
    ASSUME IInv, PlacesNested, Restorable, NEW i \in Nat, PagerRollback(i)
    PROVE  /\ \A j \in 1 .. Len(aSavepoint) :
                 (InPager(i) => j <= i + 1) =>
                    \A p \in 1 .. aSavepoint[j].nOrig :
                       MainAfter(aSavepoint[j].iOffset, p) = {}
                       /\ SubAfter(aSavepoint[j].iSubRec, p) = {} => Read(p)' = Read(p)
           /\ InPager(i) => Current' = Meant(i + 1)
           /\ ~InPager(i) => Current' = Current
<1>1. CASE ~InPager(i)
  <2>1. UNCHANGED <<dbSize, file, cache>>
    BY <1>1 DEF PagerRollback, pages
  <2>2. \A p : Read(p)' = Read(p)
    BY <2>1 DEF Read
  <2> QED BY <1>1, <2>1, <2>2 DEF Current
<1>2. CASE InPager(i)
  <2> DEFINE s == i + 1
  <2>1. s \in 1 .. Len(aSavepoint)
    BY <1>2, InvParts DEF InPager, SavepointTypes
  <2>2. PlayBack(BackTo(aSavepoint[s]), aSavepoint[s].nOrig)
    BY <1>2 DEF PagerRollback
  <2>3. ASSUME NEW p \in Page PROVE Read(p)' = ReadAfter(BackTo(aSavepoint[s]), p)
    BY <2>2, PlayedBack
  <2>4. dbSize' = aSavepoint[s].nOrig /\ \A p \in 1 .. aSavepoint[s].nOrig : p \in Page
    <3>1. dbSize' = aSavepoint[s].nOrig
      BY <2>2 DEF PlayBack
    <3> QED BY <2>1, <3>1, SavepointParts
  <2>5. ASSUME NEW j \in 1 .. Len(aSavepoint), j <= s, NEW p \in 1 .. aSavepoint[j].nOrig,
               MainAfter(aSavepoint[j].iOffset, p) = {}, SubAfter(aSavepoint[j].iSubRec, p) = {}
        PROVE  Read(p)' = Read(p)
    <3>1. p \in Page /\ j \in 1 .. s
      BY <2>1, <2>5, SavepointParts
    <3> HIDE DEF s
    <3>2. ReadAfter(BackTo(aSavepoint[s]), p) = Read(p)
      BY <2>1, <2>5, <3>1, UnrecordedUnplayed
    <3> QED BY <2>3, <3>1, <3>2
  <2>6. Current' = Meant(s)
    <3> HIDE DEF s
    <3>1. Meant(s) \in [1 .. aSavepoint[s].nOrig -> Value]
      BY <2>1 DEF Restorable
    <3>2. \A p \in 1 .. aSavepoint[s].nOrig : Read(p)' = Meant(s)[p]
      BY <2>1, <2>3, <2>4, MeantPlayed
    <3>3. Current' = [p \in 1 .. aSavepoint[s].nOrig |-> Read(p)']
      BY <2>4 DEF Current
    <3> QED BY <3>1, <3>2, <3>3
  <2> QED BY <1>2, <2>5, <2>6
<1> QED BY <1>1, <1>2

------------------------------------------------------------------------------
(* A write.                                                                 *)

LEMMA Concatenation ==
    \A S : \A s, t \in Seq(S) :
        /\ Len(s \o t) = Len(s) + Len(t)
        /\ \A i \in 1 .. Len(s) : (s \o t)[i] = s[i]
        /\ \A i \in 1 .. Len(t) : (s \o t)[Len(s) + i] = t[i]
OBVIOUS

\* An entry of a sequence with records of the pages S appended, each as it is
\* read, is one of those it had or one of these.
Appended(old, new, length, S) ==
    /\ Len(new) \in Nat /\ Len(old) <= Len(new)
    /\ \A i \in 1 .. Len(old) : new[i] = old[i]
    /\ \A i \in 1 .. Len(new) : length < i =>
          new[i].pgno \in S /\ new[i].data = Read(new[i].pgno)
    /\ \A i, j \in 1 .. Len(new) :
          length < i /\ length < j /\ new[i].pgno = new[j].pgno => i = j
    /\ \A q \in S : \E i \in 1 .. Len(new) : length < i /\ new[i].pgno = q

LEMMA RecordsAppended ==
    ASSUME TypeOK, NEW S \in SUBSET Page, NEW E, PageRecord \subseteq E,
           NEW s \in Seq(E), NEW t, t = s \o Records(S)
    PROVE  Appended(s, t, Len(s), S)
<1> DEFINE r == Records(S)
           n == Len(s)
<1>1. /\ r \in Seq(PageRecord)
      /\ \A i \in 1 .. Len(r) : r[i].pgno \in S /\ r[i].data = Read(r[i].pgno)
      /\ \A i, j \in 1 .. Len(r) : r[i].pgno = r[j].pgno => i = j
      /\ \A q \in S : \E i \in 1 .. Len(r) : r[i].pgno = q
  BY RecordsProperties
<1>2. r \in Seq(E) /\ Len(r) \in Nat /\ n \in Nat
  BY <1>1
<1> HIDE DEF r
<1>3. /\ Len(t) = n + Len(r)
      /\ \A i \in 1 .. n : t[i] = s[i]
      /\ \A i \in 1 .. Len(r) : t[n + i] = r[i]
  BY <1>2, Concatenation DEF r
<1> HIDE DEF n
<1>4. \A i \in 1 .. Len(t) : n < i => i - n \in 1 .. Len(r) /\ t[i] = r[i - n]
  <2> SUFFICES ASSUME NEW i \in 1 .. Len(t), n < i
               PROVE  i - n \in 1 .. Len(r) /\ t[i] = r[i - n]
    OBVIOUS
  <2>1. i - n \in 1 .. Len(r) /\ n + (i - n) = i
    BY <1>2, <1>3
  <2> QED BY <1>3, <2>1
<1>5. \A i \in 1 .. Len(t) : n < i => t[i].pgno \in S /\ t[i].data = Read(t[i].pgno)
  BY <1>1, <1>4
<1>6. ASSUME NEW i \in 1 .. Len(t), NEW j \in 1 .. Len(t), n < i, n < j,
             t[i].pgno = t[j].pgno
      PROVE  i = j
  <2>1. PICK k \in 1 .. Len(r) : k = i - n /\ t[i] = r[k]
    BY <1>4, <1>6
  <2>2. PICK l \in 1 .. Len(r) : l = j - n /\ t[j] = r[l]
    BY <1>4, <1>6
  <2>3. k = l
    BY <1>1, <1>6, <2>1, <2>2
  <2> QED BY <1>2, <1>3, <2>1, <2>2, <2>3
<1>7. ASSUME NEW q \in S
      PROVE  \E i \in 1 .. Len(t) : n < i /\ t[i].pgno = q
  <2>1. PICK i \in 1 .. Len(r) : r[i].pgno = q
    BY <1>1
  <2>2. n + i \in 1 .. Len(t) /\ n < n + i
    BY <1>2, <1>3
  <2> QED BY <1>3, <2>1, <2>2
<1>8. Len(t) \in Nat /\ n <= Len(t)
  BY <1>2, <1>3
<1>9. n = Len(s)
  BY DEF n
<1> QED BY <1>3, <1>5, <1>6, <1>7, <1>8, <1>9 DEF Appended

\* What a write appends to the two journals; before the main journal has a
\* header, its first record comes behind one.
LEMMA WriteRecords ==
    ASSUME IInv, NEW p \in Page, NEW data \in Value, Write(p, data)
    PROVE  /\ Appended(jrn, jrn', Max2(Len(jrn), 1), MainRecorded(p))
           /\ Appended(sub, sub', Len(sub), SubRecorded(p, MainRecorded(p)))
<1> DEFINE main == MainRecorded(p)
           more == SubRecorded(p, main)
           Entry == [pgno : 0 .. MaxPages, data : Value \cup {Absent}]
           b == IF eState = "locked" THEN <<Header>> ELSE jrn
<1>1. TypeOK /\ main \in SUBSET Page /\ more \in SUBSET Page
  <2>1. Touched(p) \subseteq Page
    BY WriteSets
  <2> QED BY <2>1, WriteSets DEF IInv
<1>2. jrn' = b \o Records(main) /\ sub' = sub \o Records(more)
  BY DEF Write
<1>3. PageRecord \subseteq Entry /\ Header \in Entry
  BY PagesAssumption DEF PageRecord, Header, Page
<1>4. sub \in Seq(PageRecord) /\ jrn \in Seq(Entry)
  BY <1>1 DEF TypeOK, PageRecord
<1> HIDE DEF main, more, Entry
<1>5. /\ b \in Seq(Entry) /\ Len(b) = Max2(Len(jrn), 1)
      /\ Len(jrn) <= Len(b) /\ \A i \in 1 .. Len(jrn) : b[i] = jrn[i]
  <2>1. CASE eState = "locked"
    <3>1. jrn = <<>> /\ b = <<Header>>
      BY <2>1, InvParts DEF PagesInv, NothingToUndo, InTransaction
    <3> HIDE DEF b
    <3> QED BY <1>3, <3>1 DEF Max2
  <2>2. CASE eState # "locked"
    <3>1. b = jrn /\ Len(jrn) > 0
      BY <2>2, InvParts DEF PagesInv, JournalShape, InTransaction, Write, StatementLocks, PageTypes
    <3> HIDE DEF b
    <3>2. Len(jrn) \in Nat /\ Max2(Len(jrn), 1) = Len(jrn)
      <4>1. Len(jrn) \in Nat
        BY <1>4
      <4>2. \A n \in Nat : n > 0 => Max2(n, 1) = n
        BY DEF Max2
      <4> QED BY <3>1, <4>1, <4>2
    <3> QED BY <1>4, <3>1, <3>2
  <2> QED BY <2>1, <2>2
<1> HIDE DEF b
<1>6. Appended(b, jrn', Len(b), main)
  BY <1>1, <1>2, <1>3, <1>5, RecordsAppended
<1>7. Appended(jrn, jrn', Len(b), main)
  <2>1. Len(b) \in Nat /\ Len(jrn) \in Nat
    BY <1>4, <1>5
  <2> QED BY <1>5, <1>6, <2>1 DEF Appended
<1>8. Appended(sub, sub', Len(sub), more)
  BY <1>1, <1>2, <1>4, RecordsAppended
<1> QED BY <1>5, <1>7, <1>8 DEF main, more

\* The pager's savepoints get to know the pages that were recorded.
LEMMA WriteSavepoint ==
    ASSUME IInv, NEW p \in Page, NEW data \in Value, Write(p, data),
           NEW i \in 1 .. Len(aSavepoint)
    PROVE  /\ UNCHANGED <<aSavepoint[i].iOffset, aSavepoint[i].iSubRec, aSavepoint[i].nOrig>>
           /\ aSavepoint'[i].pInSavepoint = aSavepoint[i].pInSavepoint
                 \cup {q \in MainRecorded(p) \cup SubRecorded(p, MainRecorded(p)) :
                          q <= aSavepoint[i].nOrig}
           /\ Len(aSavepoint') = Len(aSavepoint)
<1> DEFINE kept(j) == {q \in MainRecorded(p) \cup SubRecorded(p, MainRecorded(p)) :
                          q <= aSavepoint[j].nOrig}
<1>1. aSavepoint' = [j \in DOMAIN aSavepoint |->
                        [aSavepoint[j] EXCEPT !.pInSavepoint = @ \cup kept(j)]]
  BY DEF Write
<1> HIDE DEF kept
<1>2. SavepointTypes /\ aSavepoint[i] \in SavepointRecord
  BY InvParts, SeqElement DEF SavepointTypes
<1>3. DOMAIN aSavepoint = 1 .. Len(aSavepoint) /\ Len(aSavepoint) \in Nat
  BY <1>2 DEF SavepointTypes
<1>4. aSavepoint'[i] = [aSavepoint[i] EXCEPT !.pInSavepoint = @ \cup kept(i)]
  BY <1>1, <1>3
<1>5. /\ UNCHANGED <<aSavepoint[i].iOffset, aSavepoint[i].iSubRec, aSavepoint[i].nOrig>>
      /\ aSavepoint'[i].pInSavepoint = aSavepoint[i].pInSavepoint \cup kept(i)
  BY <1>2, <1>4 DEF SavepointRecord
<1>6. Len(aSavepoint') = Len(aSavepoint)
  <2>1. DOMAIN aSavepoint' = 1 .. Len(aSavepoint)
    BY <1>1, <1>3
  <2>2. aSavepoint' \in Seq(SavepointRecord)
    BY WriteTypes DEF SavepointTypes
  <2> QED BY <1>3, <2>1, <2>2
<1> QED BY <1>5, <1>6 DEF kept

\* A savepoint restores after a write what it did before.
LEMMA WriteRestores ==
    ASSUME IInv, NEW p \in Page, NEW value \in Value, Write(p, value),
           NEW iOffset \in Nat, iOffset <= Max2(Len(jrn), 1),
           NEW iSubRec \in Nat, iSubRec <= Len(sub),
           NEW q \in Page, NEW data, Restores(iOffset, iSubRec, q, data),
           MainAfter(iOffset, q) = {} /\ SubAfter(iSubRec, q) = {} =>
              q # p \/ q \in MainRecorded(p) \cup SubRecorded(p, MainRecorded(p))
    PROVE  Restores(iOffset, iSubRec, q, data)'
<1> DEFINE main == MainRecorded(p)
           more == SubRecorded(p, main)
           top == Max2(Len(jrn), 1)
<1>1. Appended(jrn, jrn', top, main) /\ Appended(sub, sub', Len(sub), more)
  BY WriteRecords
<1>2. Len(jrn) \in Nat /\ Len(sub) \in Nat /\ top \in Nat /\ Len(jrn) <= top
  <2>1. Len(jrn) \in Nat /\ Len(sub) \in Nat
    BY InvParts DEF PageTypes
  <2>2. \A n \in Nat : Max2(n, 1) \in Nat /\ n <= Max2(n, 1)
    BY DEF Max2
  <2> QED BY <2>1, <2>2
<1>3. \A m \in main : m <= dbOrigSize /\ m \notin pInJournal
  BY WriteSets
<1>4. q # 0 /\ iOffset <= top
  BY PagesAssumption DEF Page
<1> HIDE DEF main, more, top
<1>5. \A i \in MainAfter(iOffset, q)' :
         i \in MainAfter(iOffset, q) \/ (q \in main /\ jrn'[i].data = Read(q))
  <2> SUFFICES ASSUME NEW i \in 1 .. Len(jrn'), iOffset < i, jrn'[i].pgno = q
               PROVE  i \in MainAfter(iOffset, q) \/ (q \in main /\ jrn'[i].data = Read(q))
    BY DEF MainAfter
  <2>1. CASE i \in 1 .. Len(jrn)
    BY <1>1, <2>1 DEF Appended, MainAfter
  <2>2. CASE top < i
    BY <1>1, <2>2 DEF Appended
  <2>3. CASE i \notin 1 .. Len(jrn) /\ ~(top < i)
    <3>1. Len(jrn) = 0 /\ i = 1 /\ top = 1 /\ eState = "locked"
      <4>1. CASE eState = "locked"
        <5>1. Len(jrn) = 0
          BY <4>1, InvParts DEF PagesInv, NothingToUndo, InTransaction
        <5>2. top = 1
          BY <5>1 DEF top, Max2
        <5> QED BY <1>2, <2>3, <4>1, <5>1, <5>2
      <4>2. CASE eState # "locked"
        <5>1. Len(jrn) > 0
          BY <4>2, InvParts DEF PagesInv, JournalShape, InTransaction, Write,
                                StatementLocks, PageTypes
        <5>2. \A n \in Nat : n > 0 => Max2(n, 1) = n
          BY DEF Max2
        <5>3. top = Len(jrn)
          BY <1>2, <5>1, <5>2 DEF top
        <5> QED BY <1>2, <2>3, <5>3
      <4> QED BY <4>1, <4>2
    <3>2. jrn'[1] = Header
      BY WriteJournal DEF JournalShape
    <3> QED BY <1>4, <3>1, <3>2 DEF Header
  <2> QED BY <2>1, <2>2, <2>3
<1>6. \A i \in MainAfter(iOffset, q) : i \in MainAfter(iOffset, q)' /\ jrn'[i] = jrn[i]
  BY <1>1, <1>2 DEF MainAfter, Appended
<1>7. \A i \in SubAfter(iSubRec, q)' :
         \/ i \in SubAfter(iSubRec, q)
         \/ q \in more /\ sub'[i].data = Read(q) /\ Len(sub) < i
  <2> SUFFICES ASSUME NEW i \in 1 .. Len(sub'), iSubRec < i, sub'[i].pgno = q
               PROVE  \/ i \in SubAfter(iSubRec, q)
                      \/ q \in more /\ sub'[i].data = Read(q) /\ Len(sub) < i
    BY DEF SubAfter
  <2>1. CASE i \in 1 .. Len(sub)
    BY <1>1, <2>1 DEF Appended, SubAfter
  <2>2. CASE Len(sub) < i
    BY <1>1, <2>2 DEF Appended
  <2> QED BY <1>2, <2>1, <2>2
<1>8. \A i \in SubAfter(iSubRec, q) :
         i \in SubAfter(iSubRec, q)' /\ sub'[i] = sub[i] /\ i <= Len(sub)
  BY <1>1, <1>2 DEF SubAfter, Appended
<1>9. CASE \E i \in MainAfter(iOffset, q) : jrn[i].data = data
  BY <1>6, <1>9 DEF Restores
<1>10. CASE /\ MainAfter(iOffset, q) = {}
            /\ \E i \in SubAfter(iSubRec, q) :
                  /\ \A j \in SubAfter(iSubRec, q) : i <= j
                  /\ sub[i].data = data
  <2>1. PICK i \in SubAfter(iSubRec, q) :
           (\A j \in SubAfter(iSubRec, q) : i <= j) /\ sub[i].data = data
    BY <1>10
  <2>2. q \notin main
    <3>1. q \in subPages
      BY <2>1 DEF SubAfter, subPages
    <3> QED BY <1>3, <3>1, InvParts DEF PagesInv, DirtyRecorded
  <2>3. MainAfter(iOffset, q)' = {}
    BY <1>5, <1>10, <2>2
  <2>4. i \in SubAfter(iSubRec, q)' /\ sub'[i].data = data
    BY <1>8, <2>1
  <2>5. \A j \in SubAfter(iSubRec, q)' : i <= j
    <3>1. i \in Nat /\ i <= Len(sub) /\ \A j \in SubAfter(iSubRec, q)' : j \in Nat
      BY <1>8, <2>1 DEF SubAfter
    <3> QED BY <1>2, <1>7, <2>1, <3>1
  <2> QED BY <2>3, <2>4, <2>5 DEF Restores
<1>11. CASE /\ MainAfter(iOffset, q) = {} /\ SubAfter(iSubRec, q) = {}
            /\ Read(q) = data
  <2>1. CASE q \in main
    <3>1. PICK i \in 1 .. Len(jrn') : top < i /\ jrn'[i].pgno = q
      BY <1>1, <2>1 DEF Appended
    <3>2. jrn'[i].data = data /\ iOffset < i
      <4>1. jrn'[i].data = Read(q)
        BY <1>1, <3>1 DEF Appended
      <4>2. iOffset < i
        BY <1>2, <1>4, <3>1
      <4> QED BY <1>11, <4>1, <4>2
    <3> QED BY <3>1, <3>2 DEF Restores, MainAfter
  <2>2. CASE q \notin main /\ q \in more
    <3>1. MainAfter(iOffset, q)' = {}
      BY <1>5, <1>11, <2>2
    <3>2. PICK i \in 1 .. Len(sub') : Len(sub) < i /\ sub'[i].pgno = q
      BY <1>1, <2>2 DEF Appended
    <3>3. i \in SubAfter(iSubRec, q)' /\ sub'[i].data = data
      <4>1. iSubRec < i
        BY <1>2, <3>2
      <4> QED BY <1>7, <1>11, <3>2, <4>1 DEF SubAfter
    <3>4. \A j \in SubAfter(iSubRec, q)' : i <= j
      <4>1. ASSUME NEW j \in SubAfter(iSubRec, q)' PROVE j = i
        <5>1. Len(sub) < j /\ j \in 1 .. Len(sub') /\ sub'[j].pgno = q
          BY <1>7, <1>11, <4>1 DEF SubAfter
        <5> QED BY <1>1, <3>2, <5>1 DEF Appended
      <4> QED BY <4>1
    <3> QED BY <3>1, <3>3, <3>4 DEF Restores
  <2>3. CASE q \notin main /\ q \notin more
    <3>1. MainAfter(iOffset, q)' = {} /\ SubAfter(iSubRec, q)' = {}
      BY <1>5, <1>7, <1>11, <2>3
    <3>2. Read(q)' = Read(q)
      BY <1>11, <2>3, WriteTouched DEF main, more
    <3> QED BY <1>11, <3>1, <3>2 DEF Restores
  <2> QED BY <2>1, <2>2, <2>3
<1> QED BY <1>9, <1>10, <1>11 DEF Restores

LEMMA WriteRestorable ==
    ASSUME IInv, SavepointsInv, NEW p \in Page, NEW data \in Value, Write(p, data)
    PROVE  /\ PlacesNested' /\ PagesInSavepoint' /\ Restorable'
           /\ Len(aSavepoint') = Len(aSavepoint)
<1> DEFINE main == MainRecorded(p)
           more == SubRecorded(p, main)
           top == Max2(Len(jrn), 1)
<1>1. PlacesNested /\ PagesInSavepoint /\ Restorable
  BY DEF SavepointsInv
<1>2. Appended(jrn, jrn', top, main) /\ Appended(sub, sub', Len(sub), more)
  BY WriteRecords
<1>3. /\ Len(jrn) \in Nat /\ Len(sub) \in Nat /\ top \in Nat
      /\ Len(jrn') \in Nat /\ Len(sub') \in Nat
      /\ top <= Max2(Len(jrn'), 1) /\ Max2(Len(jrn'), 1) \in Nat
  <2>1. Len(jrn) \in Nat /\ Len(sub) \in Nat
    BY InvParts DEF PageTypes
  <2>2. Len(jrn') \in Nat /\ Len(sub') \in Nat /\ Len(jrn) <= Len(jrn')
    BY <1>2 DEF Appended
  <2>3. \A n, m \in Nat : /\ Max2(n, 1) \in Nat
                          /\ n <= m => Max2(n, 1) <= Max2(m, 1)
    BY DEF Max2
  <2> QED BY <2>1, <2>2, <2>3
<1>4. main \in SUBSET Page /\ more \in SUBSET Page
  <2>1. Touched(p) \subseteq Page
    BY WriteSets
  <2> QED BY <2>1, WriteSets
<1>5. ASSUME NEW i \in 1 .. Len(aSavepoint)
      PROVE  /\ aSavepoint[i].iOffset \in Nat /\ aSavepoint[i].iSubRec \in Nat
             /\ aSavepoint[i].iOffset <= top /\ aSavepoint[i].iSubRec <= Len(sub)
             /\ aSavepoint'[i].iOffset = aSavepoint[i].iOffset
             /\ aSavepoint'[i].iSubRec = aSavepoint[i].iSubRec
             /\ aSavepoint'[i].nOrig = aSavepoint[i].nOrig
             /\ aSavepoint'[i].pInSavepoint = aSavepoint[i].pInSavepoint
                   \cup {q \in main \cup more : q <= aSavepoint[i].nOrig}
             /\ Len(aSavepoint') = Len(aSavepoint)
  BY <1>1, SavepointParts, WriteSavepoint DEF PlacesNested
<1>6. Len(aSavepoint') = Len(aSavepoint)
  <2>1. Len(aSavepoint) \in Nat
    BY InvParts DEF SavepointTypes
  <2>2. CASE Len(aSavepoint) > 0
    <3>1. 1 \in 1 .. Len(aSavepoint)
      BY <2>1, <2>2
    <3> QED BY <1>5, <3>1
  <2>3. CASE Len(aSavepoint) = 0
    <3>1. aSavepoint' = [j \in DOMAIN aSavepoint |->
                            [aSavepoint[j] EXCEPT !.pInSavepoint = @ \cup
                                {q \in main \cup more : q <= aSavepoint[j].nOrig}]]
      BY DEF Write
    <3> HIDE DEF main, more
    <3>2. DOMAIN aSavepoint = 1 .. 0
      BY <2>1, <2>3, InvParts DEF SavepointTypes
    <3>3. DOMAIN aSavepoint' = 1 .. 0
      BY <3>1, <3>2
    <3>4. aSavepoint' \in Seq(SavepointRecord)
      BY WriteTypes DEF SavepointTypes
    <3> QED BY <2>3, <3>3, <3>4
  <2> QED BY <2>1, <2>2, <2>3
<1>7. stmt'.iStatement = stmt.iStatement /\ UNCHANGED <<nOpen, isTransactionSavepoint, past>>
  BY InvParts DEF Write, handle, HandleTypes
<1>8. \A i : Meant(i)' = Meant(i)
  BY <1>7 DEF Meant, nSavepoint
<1> HIDE DEF main, more, top
<1>9. PlacesNested'
  <2> SUFFICES ASSUME NEW i \in 1 .. Len(aSavepoint')
               PROVE  /\ aSavepoint'[i].iOffset <= Max2(Len(jrn'), 1)
                      /\ aSavepoint'[i].iSubRec <= Len(sub')
                      /\ \A j \in 1 .. i :
                            /\ aSavepoint'[j].iOffset <= aSavepoint'[i].iOffset
                            /\ aSavepoint'[j].iSubRec <= aSavepoint'[i].iSubRec
    BY DEF PlacesNested, Max2
  <2>1. i \in 1 .. Len(aSavepoint) /\ \A j \in 1 .. i : j \in 1 .. Len(aSavepoint)
    BY <1>6
  <2>2. \A j \in 1 .. i : /\ aSavepoint[j].iOffset <= aSavepoint[i].iOffset
                          /\ aSavepoint[j].iSubRec <= aSavepoint[i].iSubRec
    BY <1>1, <2>1 DEF PlacesNested
  <2>3. Len(sub) <= Len(sub')
    BY <1>2 DEF Appended
  <2>4. /\ aSavepoint'[i].iOffset = aSavepoint[i].iOffset
        /\ aSavepoint'[i].iSubRec = aSavepoint[i].iSubRec
        /\ aSavepoint[i].iOffset \in Nat /\ aSavepoint[i].iSubRec \in Nat
        /\ aSavepoint[i].iOffset <= top /\ aSavepoint[i].iSubRec <= Len(sub)
    BY <1>5, <2>1
  <2>5. aSavepoint[i].iOffset <= Max2(Len(jrn'), 1) /\ aSavepoint[i].iSubRec <= Len(sub')
    BY <1>3, <2>3, <2>4
  <2>6. \A j \in 1 .. i : /\ aSavepoint'[j].iOffset = aSavepoint[j].iOffset
                          /\ aSavepoint'[j].iSubRec = aSavepoint[j].iSubRec
    BY <1>5, <2>1
  <2> QED BY <2>2, <2>4, <2>5, <2>6
<1>10. PagesInSavepoint'
  <2> SUFFICES ASSUME NEW i \in 1 .. Len(aSavepoint'), NEW s, s = aSavepoint'[i],
                      NEW q \in s.pInSavepoint
               PROVE  MainAfter(s.iOffset, q)' \cup SubAfter(s.iSubRec, q)' # {}
    <3> SUFFICES ASSUME NEW i \in 1 .. Len(aSavepoint'),
                        NEW q \in aSavepoint'[i].pInSavepoint
                 PROVE  (MainAfter(aSavepoint[i].iOffset, q)
                            \cup SubAfter(aSavepoint[i].iSubRec, q))' # {}
      BY DEF PagesInSavepoint
    <3>1. PICK s : s = aSavepoint'[i]
      OBVIOUS
    <3>2. MainAfter(s.iOffset, q)' \cup SubAfter(s.iSubRec, q)' # {}
      BY <3>1
    <3> QED BY <3>1, <3>2 DEF MainAfter, SubAfter
  <2>1. /\ i \in 1 .. Len(aSavepoint)
        /\ s.iOffset = aSavepoint[i].iOffset /\ s.iSubRec = aSavepoint[i].iSubRec
        /\ s.iOffset \in Nat /\ s.iSubRec \in Nat
        /\ s.iOffset <= top /\ s.iSubRec <= Len(sub)
        /\ q \in aSavepoint[i].pInSavepoint \cup main \cup more
    BY <1>5, <1>6
  <2>2. CASE q \in aSavepoint[i].pInSavepoint
    <3>1. MainAfter(s.iOffset, q) \cup SubAfter(s.iSubRec, q) # {}
      BY <1>1, <2>1, <2>2 DEF PagesInSavepoint
    <3>2. CASE MainAfter(s.iOffset, q) # {}
      <4>1. PICK k \in 1 .. Len(jrn) : s.iOffset < k /\ jrn[k].pgno = q
        BY <3>2 DEF MainAfter
      <4>2. k \in 1 .. Len(jrn') /\ jrn'[k] = jrn[k]
        BY <1>2, <1>3, <4>1 DEF Appended
      <4> QED BY <4>1, <4>2 DEF MainAfter
    <3>3. CASE SubAfter(s.iSubRec, q) # {}
      <4>1. PICK k \in 1 .. Len(sub) : s.iSubRec < k /\ sub[k].pgno = q
        BY <3>3 DEF SubAfter
      <4>2. k \in 1 .. Len(sub') /\ sub'[k] = sub[k]
        BY <1>2, <1>3, <4>1 DEF Appended
      <4> QED BY <4>1, <4>2 DEF SubAfter
    <3> QED BY <3>1, <3>2, <3>3
  <2>3. CASE q \in main
    <3>1. PICK k \in 1 .. Len(jrn') : top < k /\ jrn'[k].pgno = q
      BY <1>2, <2>3 DEF Appended
    <3>2. s.iOffset < k
      BY <1>3, <2>1, <3>1
    <3> QED BY <3>1, <3>2 DEF MainAfter
  <2>4. CASE q \in more
    <3>1. PICK k \in 1 .. Len(sub') : Len(sub) < k /\ sub'[k].pgno = q
      BY <1>2, <2>4 DEF Appended
    <3>2. s.iSubRec < k
      BY <1>3, <2>1, <3>1
    <3> QED BY <3>1, <3>2 DEF SubAfter
  <2> QED BY <2>1, <2>2, <2>3, <2>4
<1>11. Restorable'
  <2> SUFFICES ASSUME NEW i \in 1 .. Len(aSavepoint')
               PROVE  /\ Meant(i)' \in [1 .. aSavepoint'[i].nOrig -> Value]
                      /\ \A q \in 1 .. aSavepoint'[i].nOrig :
                            Restores(aSavepoint[i].iOffset, aSavepoint[i].iSubRec, q,
                                     Meant(i)[q])'
    BY DEF Restorable
  <2>1. PICK s, contents : s = aSavepoint[i] /\ contents = Meant(i)
    OBVIOUS
  <2>2. /\ i \in 1 .. Len(aSavepoint) /\ Meant(i)' = contents
        /\ aSavepoint'[i].nOrig = s.nOrig /\ aSavepoint'[i].iOffset = s.iOffset
        /\ aSavepoint'[i].iSubRec = s.iSubRec
    BY <1>5, <1>6, <1>8, <2>1
  <2>3. /\ s.iOffset \in Nat /\ s.iSubRec \in Nat
        /\ s.iOffset <= top /\ s.iSubRec <= Len(sub)
        /\ \A q \in 1 .. s.nOrig : q \in Page /\ q <= s.nOrig
    <3>1. s.nOrig \in Page
      BY <2>1, <2>2, SavepointParts
    <3> QED BY <1>5, <2>1, <2>2, <3>1, PagesAssumption DEF Page
  <2>4. /\ contents \in [1 .. s.nOrig -> Value]
        /\ \A q \in 1 .. s.nOrig : Restores(s.iOffset, s.iSubRec, q, contents[q])
    BY <1>1, <2>1, <2>2 DEF Restorable
  <2>5. ASSUME NEW q \in 1 .. s.nOrig
        PROVE  Restores(s.iOffset, s.iSubRec, q, contents[q])'
    <3>1. ASSUME MainAfter(s.iOffset, q) = {}, SubAfter(s.iSubRec, q) = {}
          PROVE  q # p \/ q \in main \cup more
      <4>1. q \notin s.pInSavepoint
        BY <1>1, <2>1, <2>2, <3>1 DEF PagesInSavepoint
      <4>2. CASE p # q
        BY <4>2
      <4>3. CASE p = q /\ p \notin more
        <5>1. ~RequiredBySavepoint(p, main)
          BY <4>3 DEF SubRecorded, more
        <5> QED BY <2>1, <2>2, <2>3, <4>1, <4>3, <5>1 DEF RequiredBySavepoint
      <4> QED BY <4>2, <4>3
    <3> HIDE DEF Restores
    <3> QED BY <2>3, <2>4, <3>1, WriteRestores DEF main, more, top
  <2> QED BY <2>2, <2>4, <2>5 DEF Restores, MainAfter, SubAfter
<1> QED BY <1>6, <1>9, <1>10, <1>11

------------------------------------------------------------------------------
(* The inductive invariant, action by action.                               *)

\* The history as a record
LEMMA PastRecord ==
    ASSUME IInv
    PROVE  past = [committed |-> past.committed, saved |-> past.saved, undo |-> past.undo]
BY InvParts DEF PagesInv, CommittedKept

\* A step from or to a state without savepoints in the pager
LEMMA NoPagerSavepoints ==
    ASSUME aSavepoint' = <<>>
    PROVE  PlacesNested' /\ PagesInSavepoint' /\ Restorable'
BY DEF PlacesNested, PagesInSavepoint, Restorable

\* No transaction any more
LEMMA EndedInv ==
    ASSUME aSavepoint' = <<>>, CloseSavepoints, eState' = "reader",
           ~stmt'.running, stmt'.iStatement = 0,
           past'.saved = <<>>, past'.undo = NoContents
    PROVE  SavepointsInv'
<1>1. nOpen' = 0 /\ autoCommit' = TRUE /\ isTransactionSavepoint' = FALSE
  BY DEF CloseSavepoints
<1>2. nSavepoint' = 0
  <2>1. nOpen' = 0 /\ ~isTransactionSavepoint'
    BY <1>1
  <2>2. nSavepoint' = nOpen' - 0
    BY <2>1, Zenon DEF nSavepoint
  <2> QED BY <2>1, <2>2
<1>3. SavepointCounts'
  BY <1>1, <1>2 DEF SavepointCounts
<1>4. PastShape' /\ UnopenedCurrent'
  BY <1>1 DEF PastShape, UnopenedCurrent
<1> QED BY <1>3, <1>4, NoPagerSavepoints DEF SavepointsInv

\* What ends a transaction does to the pager and to the history
LEMMA Ended ==
    ASSUME IInv, CommitBtree \/ RollbackAll
    PROVE  /\ aSavepoint' = <<>> /\ eState' = "reader"
           /\ past'.saved = <<>> /\ past'.undo = NoContents
           /\ past'.committed = (IF CommitBtree THEN Current ELSE past.committed)
<1>1. CASE CommitBtree
  <2>1. past' = [committed |-> Current, saved |-> <<>>, undo |-> NoContents]
    BY <1>1 DEF CommitBtree
  <2> QED BY <1>1, <2>1 DEF CommitBtree, EndTransaction
<1>2. CASE RollbackAll /\ ~CommitBtree
  <2>1. past' = [past EXCEPT !.saved = <<>>, !.undo = NoContents]
    BY <1>2 DEF RollbackAll
  <2>2. past' = [committed |-> past.committed, saved |-> <<>>, undo |-> NoContents]
    BY <2>1, PastRecord
  <2>3. aSavepoint' = <<>> /\ eState' = "reader"
    BY <1>2 DEF RollbackAll, EndTransaction
  <2> QED BY <1>2, <2>2, <2>3
<1> QED BY <1>1, <1>2

LEMMA CommitSavepoints == SInv /\ Commit => SavepointsInv'
BY Ended, EndedInv DEF SInv, SavepointsInv, SavepointCounts, Commit

LEMMA ForcedRollbackSavepoints == SInv /\ ForcedRollback => SavepointsInv'
<1> SUFFICES ASSUME SInv, ForcedRollback PROVE SavepointsInv'
  OBVIOUS
<1>1. ~stmt'.running /\ stmt'.iStatement = 0
  BY DEF ForcedRollback, NoStatement
<1> QED BY <1>1, Ended, EndedInv DEF SInv, ForcedRollback

\* A step that changes neither the contents nor what there is to undo
LEMMA QuietSavepoints ==
    ASSUME SInv, NoneRecorded, autoCommit' => autoCommit,
           UNCHANGED <<nOpen, isTransactionSavepoint, stmt, aSavepoint, past, dbSize>>,
           eState = "reader" => eState' = "reader",
           \A p \in 1 .. dbSize : Read(p)' = Read(p)
    PROVE  SavepointsInv'
<1>1. IInv /\ SavepointsInv
  BY DEF SInv
<1>2. PlacesNested' /\ PagesInSavepoint' /\ Restorable'
  <2>1. \A i \in 1 .. Len(aSavepoint') :
           /\ i \in 1 .. Len(aSavepoint) /\ aSavepoint'[i] = aSavepoint[i]
           /\ Meant(i)' = Meant(i)
           /\ \A p \in 1 .. aSavepoint[i].nOrig : Read(p)' = Read(p)
    BY <1>1, SavepointParts DEF Meant, nSavepoint
  <2> QED BY <1>1, <2>1, RestorableKeep
<1>3. Current' = Current
  BY DEF Current
<1>4. SavepointCounts' /\ PastShape'
  BY <1>1 DEF SavepointsInv, SavepointCounts, PastShape, nSavepoint, Max2
<1>5. UnopenedCurrent'
  BY <1>1, <1>3 DEF SavepointsInv, UnopenedCurrent, IsTransaction, Index, nSavepoint
<1> QED BY <1>2, <1>4, <1>5 DEF SavepointsInv

LEMMA PageReads ==
    ASSUME IInv, NEW p \in Page, Fetch(p) \/ Evict(p) \/ Spill(p)
    PROVE  \A q \in 1 .. dbSize : Read(q)' = Read(q)
<1> SUFFICES ASSUME NEW q \in 1 .. dbSize PROVE Read(q)' = Read(q)
  OBVIOUS
<1>1. q \in Page /\ PageTypes /\ CleanIsStored /\ DirtyRecorded
  BY InvParts, PagesAssumption DEF PageTypes, Page, PagesInv
<1>2. CASE Fetch(p)
  BY <1>1, <1>2, ValueAssumption DEF Fetch, Read, PageTypes
<1>3. CASE Evict(p)
  <2>1. CASE q = p
    BY <1>1, <1>3, <2>1 DEF Evict, Read, PageTypes, CleanIsStored
  <2>2. CASE q # p
    BY <1>1, <1>3, <2>2 DEF Evict, Read, PageTypes
  <2> QED BY <2>1, <2>2
<1>4. CASE Spill(p)
  <2>1. cache[p] # Absent /\ cache' = cache
    BY <1>1, <1>4 DEF Spill, DirtyRecorded
  <2>2. q # p => file'[q] = file[q]
    BY <1>1, <1>4 DEF Spill, PageTypes
  <2> QED BY <2>1, <2>2 DEF Read
<1> QED BY <1>2, <1>3, <1>4

LEMMA PageSavepoints ==
    ASSUME NEW p \in Page
    PROVE  SInv /\ (Fetch(p) \/ Evict(p) \/ Spill(p)) => SavepointsInv'
<1> SUFFICES ASSUME SInv, Fetch(p) \/ Evict(p) \/ Spill(p) PROVE SavepointsInv'
  OBVIOUS
<1>1. /\ UNCHANGED <<autoCommit, nOpen, isTransactionSavepoint, stmt, aSavepoint, past, dbSize>>
      /\ NoneRecorded
  BY DEF Fetch, Evict, Spill, handle, journals, NoneRecorded
<1>2. eState = "reader" => eState' = "reader"
  <2>1. eState = "reader" => dirty = {}
    BY InvParts DEF SInv, PagesInv, NothingToUndo, InTransaction
  <2> QED BY <2>1 DEF Fetch, Evict, Spill
<1>3. \A q \in 1 .. dbSize : Read(q)' = Read(q)
  BY PageReads DEF SInv
<1> QED BY <1>1, <1>2, <1>3, QuietSavepoints

LEMMA BeginSavepoints == SInv /\ Begin => SavepointsInv'
<1> SUFFICES ASSUME SInv, Begin PROVE SavepointsInv'
  OBVIOUS
<1>1. /\ UNCHANGED <<nOpen, isTransactionSavepoint, stmt, aSavepoint, past, dbSize,
                     eState, jrn, sub, file, cache>>
      /\ ~autoCommit'
  BY DEF Begin, journals, pages
<1>2. \A p : Read(p)' = Read(p)
  BY <1>1 DEF Read
<1> QED BY <1>1, <1>2, QuietSavepoints DEF NoneRecorded

LEMMA StutterSavepoints == SInv /\ UNCHANGED vars => SavepointsInv'
<1> SUFFICES ASSUME SInv, UNCHANGED vars PROVE SavepointsInv'
  OBVIOUS
<1>1. UNCHANGED <<autoCommit, nOpen, isTransactionSavepoint, stmt, aSavepoint, past, dbSize,
                  eState, jrn, sub, file, cache>>
  BY DEF vars, handle, journals, pages
<1>2. \A p : Read(p)' = Read(p)
  BY <1>1 DEF Read
<1> QED BY <1>1, <1>2, QuietSavepoints DEF NoneRecorded

\* The savepoint that began the transaction is not counted.
LEMMA Counted ==
    ASSUME HandleTypes
    PROVE  /\ nOpen \in Nat /\ nSavepoint \in Int
           /\ isTransactionSavepoint => nSavepoint = nOpen - 1
           /\ ~isTransactionSavepoint => nSavepoint = nOpen
<1>1. nOpen \in Nat
  BY LimitsAssumption DEF HandleTypes
<1>2. CASE isTransactionSavepoint
  <2>1. nSavepoint = nOpen - 1
    BY <1>2 DEF nSavepoint
  <2> QED BY <1>1, <1>2, <2>1
<1>3. CASE ~isTransactionSavepoint
  <2>1. nSavepoint = nOpen - 0
    BY <1>3 DEF nSavepoint
  <2> QED BY <1>1, <1>3, <2>1
<1> QED BY <1>2, <1>3

LEMMA SavepointSavepoints == SInv /\ Savepoint => SavepointsInv'
<1> SUFFICES ASSUME SInv, Savepoint PROVE SavepointsInv'
  OBVIOUS
<1> DEFINE saved == Append(past.saved, Current)
<1>1. /\ UNCHANGED <<stmt, eState, dbSize, file, cache, jrn, sub, aSavepoint>>
      /\ ~stmt.running /\ ~autoCommit' /\ nOpen' = nOpen + 1
      /\ isTransactionSavepoint' = (isTransactionSavepoint \/ autoCommit)
      /\ past' = [past EXCEPT !.saved = saved]
  BY DEF Savepoint, journals, pages
<1>2. IInv /\ HandleTypes /\ SavepointsInv /\ Len(aSavepoint) \in Nat
  BY InvParts DEF SInv, SavepointTypes
<1>3. past' = [committed |-> past.committed, saved |-> saved, undo |-> past.undo]
  BY <1>1, <1>2, PastRecord
<1> HIDE DEF saved
<1>4. past'.committed = past.committed /\ past'.saved = saved /\ past'.undo = past.undo
  BY <1>3
<1>5. Len(past.saved) = nOpen /\ past.saved \in Seq(Contents) /\ nOpen \in Nat
  BY <1>2, Counted DEF SavepointsInv, PastShape
<1>6. /\ saved \in Seq(Contents) /\ Len(saved) = nOpen + 1
      /\ \A k \in 1 .. nOpen : saved[k] = past.saved[k]
      /\ saved[nOpen + 1] = Current
  <2> DEFINE S == Contents
  <2>1. Current \in S /\ past.saved \in Seq(S)
    BY <1>2, <1>5, CurrentContents
  <2> HIDE DEF S
  <2>2. saved \in Seq(S)
    BY <2>1, SeqAppend DEF saved
  <2>3. Len(saved) = nOpen + 1 /\ saved[nOpen + 1] = Current
        /\ \A k \in 1 .. nOpen : saved[k] = past.saved[k]
    BY <1>5, <2>1 DEF saved
  <2> QED BY <2>2, <2>3 DEF S
<1>7. Current' = Current
  <2>1. \A p : Read(p)' = Read(p)
    BY <1>1 DEF Read
  <2> QED BY <1>1, <2>1 DEF Current
<1>8. SavepointCounts /\ PastShape /\ UnopenedCurrent
  BY <1>2 DEF SavepointsInv
<1>9. CASE autoCommit
  <2>1. nOpen = 0 /\ ~isTransactionSavepoint /\ eState = "reader" /\ isTransactionSavepoint'
    BY <1>1, <1>8, <1>9 DEF SavepointCounts
  <2>2. aSavepoint = <<>> /\ past.committed = Current
    BY <1>2, <2>1, InvParts DEF SavepointSizes, PagesInv, CommittedKept
  <2>3. nOpen' = 1 /\ nSavepoint' = 0
    <3>1. nOpen' = 1 /\ nSavepoint' = nOpen' - 1
      BY <1>1, <2>1 DEF nSavepoint
    <3> QED BY <3>1
  <2>4. SavepointCounts'
    BY <1>1, <1>8, <2>1, <2>2, <2>3 DEF SavepointCounts
  <2>5. PastShape'
    BY <1>1, <1>4, <1>6, <1>8, <2>1, <2>2, <2>3 DEF PastShape
  <2>6. UnopenedCurrent'
    BY <2>1, <2>3 DEF UnopenedCurrent, IsTransaction
  <2> QED BY <1>1, <2>2, <2>4, <2>5, <2>6, NoPagerSavepoints DEF SavepointsInv
<1>10. CASE ~autoCommit
  <2>1. isTransactionSavepoint' = isTransactionSavepoint
    <3>1. isTransactionSavepoint \in BOOLEAN
      BY <1>2 DEF HandleTypes
    <3> QED BY <1>1, <1>10, <3>1, Zenon
  <2>2. nSavepoint' = nSavepoint + 1 /\ nSavepoint \in Int /\ nOpen - nSavepoint \in {0, 1}
    <3>1. CASE isTransactionSavepoint
      <4>1. nSavepoint' = nOpen' - 1 /\ nSavepoint = nOpen - 1
        BY <2>1, <3>1 DEF nSavepoint
      <4> QED BY <1>1, <1>5, <4>1
    <3>2. CASE ~isTransactionSavepoint
      <4>1. nSavepoint' = nOpen' - 0 /\ nSavepoint = nOpen - 0
        BY <2>1, <3>2 DEF nSavepoint
      <4> QED BY <1>1, <1>5, <4>1
    <3> QED BY <3>1, <3>2
  <2> HIDE DEF nSavepoint
  <2>3. \A k \in 1 .. nOpen : Index(k)' = Index(k) /\ (IsTransaction(k)' <=> IsTransaction(k))
    BY <1>1, <1>5, <2>1, <2>2 DEF Index, IsTransaction
  <2>4. /\ ~isTransactionSavepoint'
           \/ (isTransactionSavepoint /\ nOpen > 0 /\ past.saved[1] = past.committed)
        /\ stmt.iStatement = 0 /\ Len(aSavepoint) <= nSavepoint
    BY <1>1, <1>8, <2>1 DEF SavepointCounts, PastShape
  <2>5. SavepointCounts'
    BY <1>1, <1>2, <1>5, <2>2, <2>4 DEF SavepointCounts
  <2>6. PastShape'
    <3>1. isTransactionSavepoint' => saved[1] = past.committed
      BY <1>5, <1>6, <2>4
    <3> QED BY <1>1, <1>4, <1>6, <1>8, <3>1 DEF PastShape
  <2>7. UnopenedCurrent'
    <3> SUFFICES ASSUME NEW k \in 1 .. nOpen', ~IsTransaction(k)', Index(k)' >= Len(aSavepoint')
                 PROVE  past'.saved[k] = Current'
      BY DEF UnopenedCurrent
    <3>1. k \in 1 .. nOpen \/ k = nOpen + 1
      BY <1>1, <1>5
    <3> QED BY <1>1, <1>4, <1>6, <1>7, <1>8, <2>3, <3>1 DEF UnopenedCurrent
  <2>8. PlacesNested' /\ PagesInSavepoint' /\ Restorable'
    <3>1. ASSUME NEW i \in 1 .. Len(aSavepoint)
          PROVE  Meant(i)' = Meant(i)
      <4>1. nOpen' - nSavepoint' + i = nOpen - nSavepoint + i
            /\ nOpen - nSavepoint + i \in 1 .. nOpen
        <5>1. nOpen' = nOpen + 1 /\ nSavepoint' = nSavepoint + 1 /\ nOpen \in Nat
              /\ nSavepoint \in Int /\ nOpen - nSavepoint \in {0, 1}
          BY <1>1, <1>5, <2>2
        <5>2. i \in Nat /\ 1 <= i /\ i <= nSavepoint
          BY <1>2, <2>2, <2>4
        <5> QED BY <5>1, <5>2
      <4> QED BY <1>1, <1>4, <1>6, <4>1 DEF Meant
    <3>2. \A p : Read(p)' = Read(p)
      BY <1>1 DEF Read
    <3> QED BY <1>1, <1>2, <3>1, <3>2, RestorableKeep DEF NoneRecorded
  <2> QED BY <2>5, <2>6, <2>7, <2>8 DEF SavepointsInv
<1> QED BY <1>9, <1>10

LEMMA Prefix ==
    \A S : \A s \in Seq(S) : \A n \in 0 .. Len(s) :
        /\ SubSeq(s, 1, n) \in Seq(S) /\ Len(SubSeq(s, 1, n)) = n
        /\ \A i \in 1 .. n : SubSeq(s, 1, n)[i] = s[i]
OBVIOUS

\* As long as the transaction is the same one, so is what is not counted.
SameTransaction == isTransactionSavepoint' = isTransactionSavepoint

LEMMA CountMoved ==
    ASSUME HandleTypes, SameTransaction, NEW n \in Nat, nOpen' = n
    PROVE  nOpen \in Nat /\ \E b \in {0, 1} :
              /\ nSavepoint = nOpen - b /\ nSavepoint' = n - b
              /\ \A k \in Int : Index(k) = k - b - 1 /\ Index(k)' = k - b - 1
<1>1. nOpen \in Nat
  BY Counted
<1>2. PICK b \in {0, 1} : nSavepoint = nOpen - b /\ nSavepoint' = n - b
  <2>1. CASE isTransactionSavepoint
    BY <2>1 DEF nSavepoint, SameTransaction
  <2>2. CASE ~isTransactionSavepoint
    BY <2>2 DEF nSavepoint, SameTransaction
  <2> QED BY <2>1, <2>2
<1> HIDE DEF nSavepoint
<1>3. ASSUME NEW k \in Int
      PROVE  Index(k) = k - b - 1 /\ Index(k)' = k - b - 1
  <2>1. Index(k) = (nOpen - b) - (nOpen - k) - 1 /\ Index(k)' = (n - b) - (n - k) - 1
    BY <1>2 DEF Index
  <2> QED BY <1>1, <2>1
<1> QED BY <1>1, <1>2, <1>3

\* Inner savepoints go, of the handle and of the pager; any the pager does not
\* know remain only if it keeps all it has and the contents do not change.
LEMMA InnerSavepointsGo ==
    ASSUME SInv, ~autoCommit', SameTransaction, isTransactionSavepoint => nOpen' > 0,
           ~stmt'.running, stmt'.iStatement = 0,
           NEW n \in 0 .. nOpen, nOpen' = n,
           past'.committed = past.committed, past'.undo = NoContents,
           past'.saved \in Seq(Contents), Len(past'.saved) = n,
           \A k \in 1 .. n : past'.saved[k] = past.saved[k],
           NEW m \in 0 .. Len(aSavepoint), NEW b \in {0, 1}, nSavepoint = nOpen - b,
           m <= n - b, aSavepoint' = SubSeq(aSavepoint, 1, m), NoneRecorded \/ m = 0,
           \A i \in 1 .. m : i # stmt.iStatement,
           \A i \in 1 .. m : \A p \in 1 .. aSavepoint[i].nOrig :
              MainAfter(aSavepoint[i].iOffset, p) = {}
              /\ SubAfter(aSavepoint[i].iSubRec, p) = {} => Read(p)' = Read(p),
           m < n - b => m = Len(aSavepoint) /\ Current' = Current
    PROVE  SavepointsInv'
<1>1. IInv /\ HandleTypes /\ SavepointsInv /\ Len(aSavepoint) \in Nat
  BY InvParts DEF SInv, SavepointTypes
<1>2. nOpen \in Nat /\ n \in Nat /\ n <= nOpen /\ m \in Nat
  BY <1>1, Counted
<1>3. /\ nSavepoint' = n - b
      /\ \A k \in Int : Index(k) = k - b - 1 /\ Index(k)' = k - b - 1
  <2>1. PICK c \in {0, 1} :
           /\ nSavepoint = nOpen - c /\ nSavepoint' = n - c
           /\ \A k \in Int : Index(k) = k - c - 1 /\ Index(k)' = k - c - 1
    BY <1>1, <1>2, CountMoved
  <2>2. c = b
    <3>1. nOpen - c = nOpen - b
      BY <2>1
    <3> QED BY <1>2, <3>1
  <2> QED BY <2>1, <2>2
<1>4. m <= nSavepoint'
  BY <1>3
<1>5. /\ Len(aSavepoint') = m
      /\ \A i \in 1 .. m : aSavepoint'[i] = aSavepoint[i] /\ i \in 1 .. Len(aSavepoint)
  <2> DEFINE S == SavepointRecord
  <2>1. aSavepoint \in Seq(S)
    BY <1>1, InvParts DEF SavepointTypes
  <2> HIDE DEF S
  <2> QED BY <1>1, <1>2, <2>1, Prefix
<1>6. SavepointCounts'
  <2>1. isTransactionSavepoint' => nOpen' > 0
    BY DEF SameTransaction
  <2> QED BY <1>4, <1>5, <2>1 DEF SavepointCounts
<1>7. PastShape'
  <2>1. isTransactionSavepoint' => past'.saved[1] = past'.committed
    <3>1. isTransactionSavepoint => 1 \in 1 .. n /\ past.saved[1] = past.committed
      BY <1>1, <1>2 DEF SavepointsInv, PastShape
    <3> QED BY <3>1 DEF SameTransaction
  <2> QED BY <2>1 DEF PastShape
<1>8. UnopenedCurrent'
  <2> SUFFICES ASSUME NEW k \in 1 .. n, ~IsTransaction(k)', Index(k)' >= m
               PROVE  past'.saved[k] = Current'
    BY <1>5 DEF UnopenedCurrent
  <2>1. k \in Int /\ k <= n /\ k \in 1 .. nOpen
    BY <1>2
  <2>2. Index(k) >= m /\ k - b - 1 >= m
    BY <1>3, <2>1
  <2>3. m < n - b
    BY <1>2, <2>1, <2>2
  <2>4. m = Len(aSavepoint) /\ Current' = Current
    BY <2>3
  <2>5. ~IsTransaction(k)
    BY DEF IsTransaction, SameTransaction
  <2> QED BY <1>1, <2>1, <2>2, <2>4, <2>5 DEF SavepointsInv, UnopenedCurrent
<1>9. PlacesNested' /\ PagesInSavepoint' /\ Restorable'
  <2>1. CASE m = 0
    <3>1. aSavepoint' = <<>>
      BY <2>1
    <3> QED BY <3>1, NoPagerSavepoints
  <2>2. CASE NoneRecorded
    <3>1. ASSUME NEW i \in 1 .. m PROVE Meant(i)' = Meant(i)
      <4>1. i # stmt.iStatement /\ i # stmt'.iStatement
        BY <1>2
      <4>2. i \in Int /\ b + i \in 1 .. n
        BY <1>2
      <4>3. nOpen - nSavepoint + i = b + i /\ nOpen' - nSavepoint' + i = b + i
        <5>1. nOpen - (nOpen - b) + i = b + i /\ n - (n - b) + i = b + i
          BY <1>2, <4>2
        <5> QED BY <1>3, <5>1
      <4> QED BY <4>1, <4>2, <4>3 DEF Meant
    <3> QED BY <1>1, <1>5, <2>2, <3>1, RestorableKeep
  <2> QED BY <2>1, <2>2
<1> QED BY <1>6, <1>7, <1>8, <1>9 DEF SavepointsInv

LEMMA WholePrefixIs == \A S : \A s \in Seq(S) : SubSeq(s, 1, Len(s)) = s
OBVIOUS

LEMMA WholePrefix == ASSUME IInv PROVE SubSeq(aSavepoint, 1, Len(aSavepoint)) = aSavepoint
<1> DEFINE S == SavepointRecord
<1>1. aSavepoint \in Seq(S)
  BY InvParts DEF SavepointTypes
<1> HIDE DEF S
<1> QED BY <1>1, WholePrefixIs

\* SAVEPOINT commands leave a prefix of the history.
LEMMA SavedPrefix ==
    ASSUME SInv, ~stmt.running, NEW n \in 0 .. nOpen,
           past' = [past EXCEPT !.saved = SubSeq(past.saved, 1, n)]
    PROVE  /\ past'.committed = past.committed /\ past'.undo = NoContents
           /\ past'.saved = SubSeq(past.saved, 1, n)
           /\ past'.saved \in Seq(Contents) /\ Len(past'.saved) = n
           /\ \A k \in 1 .. n : past'.saved[k] = past.saved[k]
<1> DEFINE saved == SubSeq(past.saved, 1, n)
<1>1. IInv /\ past.undo = NoContents
      /\ past.saved \in Seq(Contents) /\ Len(past.saved) = nOpen
  BY DEF SInv, SavepointsInv, SavepointCounts, PastShape
<1>2. past' = [committed |-> past.committed, saved |-> saved, undo |-> past.undo]
  BY <1>1, PastRecord
<1>3. saved \in Seq(Contents) /\ Len(saved) = n /\ \A k \in 1 .. n : saved[k] = past.saved[k]
  <2> DEFINE S == Contents
  <2>1. past.saved \in Seq(S)
    BY <1>1
  <2> HIDE DEF S
  <2>2. saved \in Seq(S) /\ Len(saved) = n /\ \A k \in 1 .. n : saved[k] = past.saved[k]
    BY <1>1, <2>1, Prefix
  <2> QED BY <2>2 DEF S
<1> HIDE DEF saved
<1>4. past'.committed = past.committed /\ past'.saved = saved /\ past'.undo = past.undo
  BY <1>2
<1> QED BY <1>1, <1>3, <1>4 DEF saved

\* Where the pager has the savepoints
LEMMA Indices ==
    ASSUME HandleTypes
    PROVE  nOpen \in Nat /\ \E b \in {0, 1} :
              /\ nSavepoint = nOpen - b
              /\ b = 1 <=> isTransactionSavepoint
              /\ \A k \in Int : Index(k) = k - b - 1
<1>1. nOpen \in Nat
  BY Counted
<1>2. PICK b \in {0, 1} : nSavepoint = nOpen - b /\ (b = 1 <=> isTransactionSavepoint)
  <2>1. CASE isTransactionSavepoint
    BY <2>1 DEF nSavepoint
  <2>2. CASE ~isTransactionSavepoint
    BY <2>2 DEF nSavepoint
  <2> QED BY <2>1, <2>2
<1>3. ASSUME NEW k \in Int PROVE Index(k) = k - b - 1
  <2>1. Index(k) = (nOpen - b) - (nOpen - k) - 1
    BY <1>2 DEF Index
  <2> QED BY <1>1, <2>1
<1> QED BY <1>1, <1>2, <1>3

LEMMA ReleaseSavepoints ==
    ASSUME NEW k \in 1 .. nOpen PROVE SInv /\ Release(k) => SavepointsInv'
<1> SUFFICES ASSUME SInv, Release(k) PROVE SavepointsInv'
  OBVIOUS
<1>1. /\ IInv /\ HandleTypes /\ SavepointCounts /\ PastShape /\ ~stmt.running
      /\ stmt' = stmt /\ stmt.iStatement = 0 /\ Len(aSavepoint) \in Nat
  BY InvParts DEF SInv, SavepointsInv, SavepointCounts, Release, SavepointTypes
<1>2. CASE IsTransaction(k)
  <2>1. CommitBtree /\ CloseSavepoints
    BY <1>2 DEF Release
  <2> QED BY <1>1, <2>1, Ended, EndedInv
<1>3. CASE ~IsTransaction(k)
  <2> DEFINE n == k - 1
  <2>1. /\ PagerRelease(Index(k)) /\ nOpen' = n
        /\ past' = [past EXCEPT !.saved = SubSeq(past.saved, 1, n)]
        /\ UNCHANGED <<autoCommit, isTransactionSavepoint, eState, dbSize, file, cache, jrn>>
    BY <1>3 DEF Release, pages
  <2>2. PICK b \in {0, 1} : /\ nSavepoint = nOpen - b
                            /\ b = 1 <=> isTransactionSavepoint
                            /\ \A j \in Int : Index(j) = j - b - 1
    BY <1>1, Indices
  <2>3. nOpen \in Nat /\ k \in Nat /\ n \in 0 .. nOpen
    BY <1>1, Counted
  <2>4. Index(k) = n - b /\ n - b \in Nat
    <3>1. Index(k) \in Nat
      BY <1>1, <1>3, IndexRange
    <3> QED BY <2>2, <2>3, <3>1
  <2>5. ~autoCommit' /\ SameTransaction
    <3>1. ~autoCommit
      BY <1>1, <2>3 DEF SavepointCounts
    <3> QED BY <2>1, <3>1 DEF SameTransaction
  <2>6. isTransactionSavepoint => nOpen' > 0
    <3>1. isTransactionSavepoint => k # 1
      BY <1>3 DEF IsTransaction
    <3> QED BY <2>1, <2>3, <3>1
  <2> HIDE DEF n
  <2>7. /\ past'.committed = past.committed /\ past'.undo = NoContents
        /\ past'.saved \in Seq(Contents) /\ Len(past'.saved) = n
        /\ \A j \in 1 .. n : past'.saved[j] = past.saved[j]
    BY <1>1, <2>1, <2>3, SavedPrefix
  <2>8. (\A p : Read(p)' = Read(p)) /\ Current' = Current
    <3>1. \A p : Read(p)' = Read(p)
      BY <2>1 DEF Read
    <3> QED BY <2>1, <3>1 DEF Current
  <2>9. PICK m \in 0 .. Len(aSavepoint) :
           /\ m <= n - b /\ aSavepoint' = SubSeq(aSavepoint, 1, m)
           /\ NoneRecorded \/ m = 0
           /\ m < n - b => m = Len(aSavepoint)
    <3>1. CASE InPager(Index(k))
      <4>1. /\ aSavepoint' = SubSeq(aSavepoint, 1, n - b) /\ n - b < Len(aSavepoint)
            /\ sub' = (IF n - b = 0 THEN <<>> ELSE sub)
        BY <2>1, <2>4, <3>1 DEF PagerRelease, InPager
      <4>2. n - b \in 0 .. Len(aSavepoint)
        BY <1>1, <2>4, <4>1
      <4>3. NoneRecorded \/ n - b = 0
        BY <2>1, <4>1 DEF NoneRecorded
      <4> QED BY <2>4, <4>1, <4>2, <4>3
    <3>2. CASE ~InPager(Index(k))
      <4>1. UNCHANGED <<aSavepoint, sub>> /\ NoneRecorded
        BY <2>1, <3>2 DEF PagerRelease, NoneRecorded
      <4>2. Len(aSavepoint) <= n - b
        <5>1. eState = "reader" => aSavepoint = <<>>
          BY <1>1, InvParts DEF SavepointSizes
        <5> QED BY <1>1, <2>4, <3>2, <5>1 DEF InPager
      <4>3. aSavepoint' = SubSeq(aSavepoint, 1, Len(aSavepoint))
        BY <1>1, <4>1, WholePrefix
      <4> QED BY <1>1, <4>1, <4>2, <4>3
    <3> QED BY <3>1, <3>2
  <2>10. \A i \in 1 .. m : i # stmt.iStatement
    BY <1>1
  <2>11. nOpen' = n /\ ~stmt'.running /\ stmt'.iStatement = 0
    BY <1>1, <2>1
  <2> QED BY <2>2, <2>3, <2>5, <2>6, <2>7, <2>8, <2>9, <2>10, <2>11, InnerSavepointsGo
<1> QED BY <1>2, <1>3

\* Going back to the savepoint that began the transaction
LEMMA TransactionPlayed ==
    ASSUME IInv, NEW i \in Int, i < 0, PagerRollback(i),
           Len(aSavepoint) \in Nat
    PROVE  Current' = past.committed
<1>1. CASE eState = "reader"
  <2>1. UNCHANGED <<dbSize, file, cache>>
    BY <1>1 DEF PagerRollback, InPager, pages
  <2>2. \A p : Read(p)' = Read(p)
    BY <2>1 DEF Read
  <2>3. past.committed = Current
    BY <1>1, InvParts DEF PagesInv, CommittedKept
  <2> QED BY <2>1, <2>2, <2>3 DEF Current
<1>2. CASE eState # "reader"
  <2> DEFINE played == WholeTransaction
  <2>1. PlayBack(played, dbOrigSize)
    BY <1>2 DEF PagerRollback, InPager
  <2>2. past.committed = After(played, dbOrigSize)
    BY <1>2, InvTransactionKept DEF TransactionKept
  <2>3. dbSize' = dbOrigSize /\ \A p \in 1 .. dbOrigSize : p \in Page
    BY <2>1, InvParts, PagesAssumption DEF PlayBack, PageTypes, Page
  <2> HIDE DEF played
  <2>4. \A p \in 1 .. dbOrigSize : Read(p)' = ReadAfter(played, p)
    BY <2>1, <2>3, PlayedBack
  <2>5. Current' = [p \in 1 .. dbOrigSize |-> Read(p)']
    BY <2>3 DEF Current
  <2> QED BY <2>2, <2>4, <2>5 DEF After
<1> QED BY <1>1, <1>2

\* Of the pager's savepoints, the k-th of SQL stands for its contents.
LEMMA MeantSaved ==
    ASSUME SInv, NEW k \in 1 .. nOpen, ~IsTransaction(k), Index(k) < Len(aSavepoint)
    PROVE  Index(k) + 1 \in 1 .. Len(aSavepoint) /\ Meant(Index(k) + 1) = past.saved[k]
<1>1. HandleTypes /\ SavepointCounts /\ Len(aSavepoint) \in Nat
  BY InvParts DEF SInv, SavepointsInv, SavepointTypes
<1>2. PICK b \in {0, 1} : nSavepoint = nOpen - b /\ \A j \in Int : Index(j) = j - b - 1
  BY <1>1, Indices
<1>3. nOpen \in Nat /\ Index(k) \in Nat /\ Index(k) = k - b - 1
  BY <1>1, <1>2, IndexRange, Counted
<1>4. Index(k) + 1 # stmt.iStatement
  <2>1. stmt.iStatement \in {0, nOpen - b + 1}
    BY <1>1, <1>2 DEF SavepointCounts
  <2> QED BY <1>3, <2>1
<1>5. nOpen - nSavepoint + (Index(k) + 1) = k
  <2>1. nOpen - (nOpen - b) + ((k - b - 1) + 1) = k
    BY <1>3
  <2> QED BY <1>2, <1>3, <2>1
<1> QED BY <1>1, <1>3, <1>4, <1>5 DEF Meant

LEMMA RollbackToContents ==
    ASSUME NEW k \in 1 .. nOpen PROVE SInv /\ RollbackTo(k) => Current' = past.saved[k]
<1> SUFFICES ASSUME SInv, RollbackTo(k) PROVE Current' = past.saved[k]
  OBVIOUS
<1>1. /\ IInv /\ HandleTypes /\ PastShape /\ PlacesNested /\ Restorable /\ UnopenedCurrent
      /\ PagerRollback(Index(k)) /\ Len(aSavepoint) \in Nat
  BY InvParts DEF SInv, SavepointsInv, RollbackTo, SavepointTypes
<1>2. CASE IsTransaction(k)
  <2>1. k = 1 /\ isTransactionSavepoint
    BY <1>2 DEF IsTransaction
  <2>2. Index(k) \in Int /\ Index(k) < 0
    <3>1. PICK b \in {0, 1} : /\ b = 1 <=> isTransactionSavepoint
                              /\ \A j \in Int : Index(j) = j - b - 1
      BY <1>1, Indices
    <3>2. Index(1) = 1 - 1 - 1
      BY <2>1, <3>1
    <3> QED BY <2>1, <3>2
  <2>3. Current' = past.committed
    BY <1>1, <2>2, TransactionPlayed
  <2> QED BY <1>1, <2>1, <2>3 DEF PastShape
<1>3. CASE ~IsTransaction(k)
  <2>1. Index(k) \in Nat
    BY <1>1, <1>3, IndexRange
  <2>2. CASE InPager(Index(k))
    <3>1. Current' = Meant(Index(k) + 1)
      BY <1>1, <2>1, <2>2, PagerRollbackKeeps
    <3>2. Index(k) < Len(aSavepoint)
      BY <2>2 DEF InPager
    <3> QED BY <1>3, <3>1, <3>2, MeantSaved
  <2>3. CASE ~InPager(Index(k))
    <3>1. Current' = Current
      BY <1>1, <2>1, <2>3, PagerRollbackKeeps
    <3>2. Index(k) >= Len(aSavepoint)
      <4>1. eState = "reader" => aSavepoint = <<>>
        BY <1>1, InvParts DEF SavepointSizes
      <4> QED BY <1>1, <2>1, <2>3, <4>1 DEF InPager
    <3> QED BY <1>1, <1>3, <3>1, <3>2 DEF UnopenedCurrent
  <2> QED BY <2>2, <2>3
<1> QED BY <1>2, <1>3

LEMMA RollbackToSavepoints ==
    ASSUME NEW k \in 1 .. nOpen PROVE SInv /\ RollbackTo(k) => SavepointsInv'
<1> SUFFICES ASSUME SInv, RollbackTo(k) PROVE SavepointsInv'
  OBVIOUS
<1>1. /\ IInv /\ HandleTypes /\ SavepointCounts /\ PlacesNested /\ Restorable
      /\ ~stmt.running /\ stmt' = stmt /\ stmt.iStatement = 0
      /\ Len(aSavepoint) \in Nat
  BY InvParts DEF SInv, SavepointsInv, SavepointCounts, RollbackTo, SavepointTypes
<1>2. /\ PagerRollback(Index(k)) /\ nOpen' = k
      /\ aSavepoint' = (IF InPager(Index(k))
                        THEN SubSeq(aSavepoint, 1, Index(k) + 1) ELSE aSavepoint)
      /\ past' = [past EXCEPT !.saved = SubSeq(past.saved, 1, k)]
      /\ UNCHANGED <<autoCommit, isTransactionSavepoint, eState, jrn, sub>>
  BY DEF RollbackTo
<1>3. PICK b \in {0, 1} : /\ nSavepoint = nOpen - b
                          /\ b = 1 <=> isTransactionSavepoint
                          /\ \A j \in Int : Index(j) = j - b - 1
  BY <1>1, Indices
<1>4. nOpen \in Nat /\ k \in Nat /\ k \in 0 .. nOpen /\ Index(k) = k - b - 1
  BY <1>1, <1>3, Counted
<1>5. ~autoCommit' /\ SameTransaction /\ NoneRecorded
  <2>1. ~autoCommit
    BY <1>1, <1>4 DEF SavepointCounts
  <2> QED BY <1>2, <2>1 DEF SameTransaction, NoneRecorded
<1>6. isTransactionSavepoint => nOpen' > 0
  BY <1>2, <1>4
<1>7. /\ past'.committed = past.committed /\ past'.undo = NoContents
      /\ past'.saved \in Seq(Contents) /\ Len(past'.saved) = k
      /\ \A j \in 1 .. k : past'.saved[j] = past.saved[j]
  BY <1>1, <1>2, <1>4, SavedPrefix
<1>8. PICK m \in 0 .. Len(aSavepoint) :
         /\ m <= k - b /\ aSavepoint' = SubSeq(aSavepoint, 1, m)
         /\ m < k - b => m = Len(aSavepoint) /\ Current' = Current
         /\ \A i \in 1 .. m : \A p \in 1 .. aSavepoint[i].nOrig :
               MainAfter(aSavepoint[i].iOffset, p) = {}
               /\ SubAfter(aSavepoint[i].iSubRec, p) = {} => Read(p)' = Read(p)
  <2>1. CASE Index(k) < 0
    <3>1. Index(k) = -1 /\ k - b = 0
      BY <1>4, <2>1
    <3>2. aSavepoint' = SubSeq(aSavepoint, 1, 0)
      <4>1. CASE InPager(Index(k))
        BY <1>2, <3>1, <4>1
      <4>2. CASE ~InPager(Index(k))
        <5>1. aSavepoint = <<>>
          BY <1>1, <3>1, <4>2, InvParts DEF InPager, SavepointSizes
        <5> QED BY <1>2, <4>2, <5>1
      <4> QED BY <4>1, <4>2
    <3> QED BY <1>1, <3>1, <3>2
  <2>2. CASE ~(Index(k) < 0)
    <3> DEFINE i == Index(k)
    <3>1. i \in Nat /\ i + 1 = k - b
      BY <1>4, <2>2
    <3>2. PagerRollback(i)
      BY <1>2
    <3> HIDE DEF i
    <3>3. /\ \A j \in 1 .. Len(aSavepoint) :
                (InPager(i) => j <= i + 1) =>
                   \A p \in 1 .. aSavepoint[j].nOrig :
                      MainAfter(aSavepoint[j].iOffset, p) = {}
                      /\ SubAfter(aSavepoint[j].iSubRec, p) = {} => Read(p)' = Read(p)
          /\ ~InPager(i) => Current' = Current
      BY <1>1, <3>1, <3>2, PagerRollbackKeeps
    <3>4. CASE InPager(i)
      <4>1. i + 1 \in 0 .. Len(aSavepoint) /\ aSavepoint' = SubSeq(aSavepoint, 1, i + 1)
        BY <1>1, <1>2, <3>1, <3>4 DEF InPager, i
      <4>2. \A j \in 1 .. (i + 1) : j \in 1 .. Len(aSavepoint) /\ j <= i + 1
        BY <1>1, <3>1, <4>1
      <4> QED BY <3>1, <3>3, <4>1, <4>2
    <3>5. CASE ~InPager(i)
      <4>1. aSavepoint' = SubSeq(aSavepoint, 1, Len(aSavepoint))
        BY <1>1, <1>2, <3>5, WholePrefix DEF i
      <4>2. Len(aSavepoint) < k - b
        <5>1. eState = "reader" => aSavepoint = <<>>
          BY <1>1, InvParts DEF SavepointSizes
        <5> QED BY <1>1, <3>1, <3>5, <5>1 DEF InPager
      <4>3. /\ Len(aSavepoint) \in 0 .. Len(aSavepoint) /\ Len(aSavepoint) <= k - b
            /\ Current' = Current
        BY <1>1, <1>4, <3>3, <3>5, <4>2
      <4>4. \A j \in 1 .. Len(aSavepoint) : \A p \in 1 .. aSavepoint[j].nOrig :
               MainAfter(aSavepoint[j].iOffset, p) = {}
               /\ SubAfter(aSavepoint[j].iSubRec, p) = {} => Read(p)' = Read(p)
        BY <3>3, <3>5
      <4> HIDE DEF MainAfter, SubAfter
      <4> WITNESS Len(aSavepoint) \in 0 .. Len(aSavepoint)
      <4> QED BY <4>1, <4>3, <4>4
    <3> QED BY <3>4, <3>5
  <2> QED BY <2>1, <2>2
<1>9. (\A i \in 1 .. m : i # stmt.iStatement) /\ ~stmt'.running /\ stmt'.iStatement = 0
  BY <1>1
<1> QED BY <1>2, <1>3, <1>4, <1>5, <1>6, <1>7, <1>8, <1>9, InnerSavepointsGo

\* A savepoint the pager opens now stands for what the b-tree reads.
LEMMA NewRestores ==
    ASSUME IInv, UNCHANGED <<jrn, sub, file, cache>>,
           NEW s, s = NewSavepoint, NEW p \in Page
    PROVE  /\ s.nOrig = dbSize /\ s.pInSavepoint = {}
           /\ s.iOffset = Max2(Len(jrn), 1) /\ s.iSubRec = Len(sub)
           /\ Restores(s.iOffset, s.iSubRec, p, Read(p))'
<1>1. /\ s.nOrig = dbSize /\ s.pInSavepoint = {}
      /\ s.iOffset = Max2(Len(jrn), 1) /\ s.iSubRec = Len(sub)
  BY DEF NewSavepoint
<1>2. Len(jrn) \in Nat /\ Len(sub) \in Nat
  BY InvParts DEF PageTypes
<1>3. \A i \in 1 .. Len(jrn) : ~(Max2(Len(jrn), 1) < i)
  BY <1>2 DEF Max2
<1>4. MainAfter(s.iOffset, p)' = {} /\ SubAfter(s.iSubRec, p)' = {}
  BY <1>1, <1>2, <1>3 DEF MainAfter, SubAfter
<1> QED BY <1>1, <1>4 DEF Restores

LEMMA StartStatementSavepoints ==
    ASSUME NEW usesStmtJournal \in BOOLEAN, NEW reading \in BOOLEAN
    PROVE  SInv /\ StartStatement(usesStmtJournal, reading) => SavepointsInv'
<1> SUFFICES ASSUME SInv, StartStatement(usesStmtJournal, reading) PROVE SavepointsInv'
  OBVIOUS
<1> DEFINE iStatement == IF usesStmtJournal /\ (~autoCommit \/ reading)
                         THEN nSavepoint + 1 ELSE 0
           total == Max2(Max2(nSavepoint, iStatement), Len(aSavepoint))
           undo == IF iStatement = 0 THEN NoContents ELSE Current
           n == Len(aSavepoint)
<1>1. /\ ~stmt.running
      /\ stmt' = [running |-> TRUE, usesStmtJournal |-> usesStmtJournal,
                  iStatement |-> iStatement, wrote |-> FALSE]
      /\ aSavepoint' = [i \in 1 .. total |-> IF i <= n THEN aSavepoint[i] ELSE NewSavepoint]
      /\ past' = [past EXCEPT !.undo = undo]
      /\ UNCHANGED <<autoCommit, nOpen, isTransactionSavepoint, dbSize, file, cache, jrn, sub>>
  BY DEF StartStatement, handle, pages
<1>2. /\ IInv /\ HandleTypes /\ SavepointCounts /\ PastShape /\ UnopenedCurrent
      /\ PlacesNested /\ PagesInSavepoint /\ Restorable
      /\ stmt.iStatement = 0 /\ n <= nSavepoint /\ n \in Nat
  BY <1>1, InvParts DEF SInv, SavepointsInv, SavepointCounts, SavepointTypes
<1>3. PICK b \in {0, 1} : nSavepoint = nOpen - b /\ \A k \in Int : Index(k) = k - b - 1
  BY <1>2, Indices
<1>4. nOpen \in Nat /\ nSavepoint \in Nat /\ nOpen - nSavepoint = b
  <2>1. nOpen \in Nat
    BY <1>2, Counted
  <2>2. nSavepoint \in Int
    BY <1>3, <2>1
  <2>3. nOpen - (nOpen - b) = b
    BY <2>1
  <2> QED BY <1>2, <1>3, <2>1, <2>2, <2>3
<1>5. iStatement \in {0, nSavepoint + 1}
  OBVIOUS
<1> HIDE DEF iStatement
<1>6. total = Max2(nSavepoint, iStatement) /\ total \in Nat /\ n <= total /\ nSavepoint <= total
      /\ \A i \in 1 .. total : i = iStatement \/ i <= nSavepoint
  BY <1>2, <1>4, <1>5 DEF Max2
<1> HIDE DEF total, undo
<1>7. /\ Len(aSavepoint') = total
      /\ \A i \in 1 .. total :
            aSavepoint'[i] = IF i <= n THEN aSavepoint[i] ELSE NewSavepoint
  <2> DEFINE S == SavepointRecord
  <2>1. DOMAIN aSavepoint' = 1 .. total
    BY <1>1
  <2>2. aSavepoint' \in Seq(S)
    BY <1>2, StartStatementNext, InvParts DEF IInv, TypeOK, SavepointRecord
  <2> HIDE DEF S
  <2>3. Len(aSavepoint') \in Nat /\ DOMAIN aSavepoint' = 1 .. Len(aSavepoint')
    BY <2>2
  <2> QED BY <1>1, <1>6, <2>1, <2>3
<1>8. past'.committed = past.committed /\ past'.saved = past.saved /\ past'.undo = undo
  <2>1. past' = [committed |-> past.committed, saved |-> past.saved, undo |-> undo]
    BY <1>1, <1>2, PastRecord
  <2> QED BY <2>1
<1>9. stmt'.running /\ stmt'.iStatement = iStatement
  BY <1>1
<1>10. nSavepoint' = nSavepoint /\ \A k : Index(k)' = Index(k)
                                         /\ (IsTransaction(k)' <=> IsTransaction(k))
  BY <1>1 DEF nSavepoint, Index, IsTransaction
<1>11. Current' = Current /\ \A p : Read(p)' = Read(p)
  <2>1. \A p : Read(p)' = Read(p)
    BY <1>1 DEF Read
  <2> QED BY <1>1, <2>1 DEF Current
<1>12. SavepointCounts'
  <2>1. autoCommit' => nOpen' = 0 /\ ~isTransactionSavepoint'
    BY <1>1, <1>2 DEF SavepointCounts
  <2>2. isTransactionSavepoint' => nOpen' > 0
    BY <1>1, <1>2 DEF SavepointCounts
  <2>3. iStatement \in {0, nSavepoint' + 1} /\ Len(aSavepoint') = Max2(nSavepoint', iStatement)
    BY <1>5, <1>6, <1>7, <1>10
  <2> QED BY <1>9, <2>1, <2>2, <2>3 DEF SavepointCounts, Max2
<1>13. PastShape'
  <2>1. undo \in Contents \cup {NoContents} /\ (iStatement = 0 <=> undo = NoContents)
    BY <1>2, CurrentContents DEF undo
  <2>2. NoContents' = NoContents /\ Contents' = Contents
    BY DEF NoContents, Contents, Page
  <2> QED BY <1>1, <1>2, <1>8, <1>9, <2>1, <2>2 DEF PastShape
<1>14. UnopenedCurrent'
  <2> SUFFICES ASSUME NEW k \in 1 .. nOpen, Index(k) >= total PROVE FALSE
    BY <1>1, <1>7, <1>10 DEF UnopenedCurrent
  <2>1. Index(k) = k - b - 1 /\ nSavepoint = nOpen - b
    BY <1>3, <1>4
  <2> QED BY <1>4, <1>6, <2>1
<1>15. ASSUME NEW i \in 1 .. total, ~(i <= n) PROVE Meant(i)' = Current
  <2>1. CASE i = iStatement
    <3>1. iStatement # 0
      BY <2>1
    <3> QED BY <1>8, <1>9, <2>1, <3>1 DEF Meant, undo
  <2>2. CASE i # iStatement
    <3> DEFINE k == b + i
    <3>1. k \in 1 .. nOpen /\ k - b - 1 >= n /\ k - b - 1 \in Nat
      <4>1. i \in Nat /\ i <= nSavepoint /\ nSavepoint = nOpen - b /\ n < i
        BY <1>2, <1>3, <1>6, <1>15, <2>2
      <4> HIDE DEF n
      <4> QED BY <1>2, <1>4, <4>1
    <3>2. Index(k) >= n /\ Index(k) \in Nat
      <4>1. k \in Int /\ Index(k) = k - b - 1
        BY <1>3, <1>4, <3>1
      <4> HIDE DEF k, n
      <4> QED BY <3>1, <4>1
    <3>3. ~IsTransaction(k)
      <4>1. CASE IsTransaction(k)
        <5>1. isTransactionSavepoint /\ k = 1
          BY <4>1 DEF IsTransaction
        <5>2. nSavepoint = nOpen - 1
          BY <1>2, <5>1, Counted
        <5>3. b = 1
          BY <1>3, <1>4, <5>2
        <5> QED BY <3>1, <5>1, <5>3
      <4> QED BY <4>1
    <3>4. past.saved[k] = Current
      BY <1>2, <3>1, <3>2, <3>3 DEF UnopenedCurrent
    <3>5. nOpen' - nSavepoint' + i = k
      BY <1>1, <1>4, <1>10
    <3> QED BY <1>8, <1>9, <2>2, <3>4, <3>5 DEF Meant
  <2> QED BY <2>1, <2>2
<1>16. ASSUME NEW i \in 1 .. n PROVE Meant(i)' = Meant(i)
  <2>1. i # stmt.iStatement /\ i # iStatement
    BY <1>2, <1>4, <1>5
  <2> QED BY <1>1, <1>8, <1>9, <1>10, <2>1 DEF Meant
<1>17. ASSUME NEW i \in 1 .. n
       PROVE  /\ aSavepoint'[i] = aSavepoint[i]
              /\ aSavepoint[i].iOffset \in Nat /\ aSavepoint[i].iSubRec \in Nat
              /\ aSavepoint[i].iOffset <= Max2(Len(jrn), 1)
              /\ aSavepoint[i].iSubRec <= Len(sub)
  BY <1>2, <1>6, <1>7, SavepointParts DEF PlacesNested
<1>18. ASSUME NEW i \in 1 .. total, ~(i <= n)
       PROVE  aSavepoint'[i] = NewSavepoint
  BY <1>7, <1>18
<1>19. PlacesNested'
  <2> SUFFICES ASSUME NEW i \in 1 .. total
               PROVE  /\ aSavepoint'[i].iOffset <= Max2(Len(jrn), 1)
                      /\ aSavepoint'[i].iSubRec <= Len(sub)
                      /\ \A j \in 1 .. i :
                            /\ aSavepoint'[j].iOffset <= aSavepoint'[i].iOffset
                            /\ aSavepoint'[j].iSubRec <= aSavepoint'[i].iSubRec
    BY <1>1, <1>7 DEF PlacesNested, Max2
  <2>1. Max2(Len(jrn), 1) \in Nat /\ Len(sub) \in Nat
    <3>1. Len(jrn) \in Nat /\ Len(sub) \in Nat
      BY <1>2, InvParts DEF PageTypes
    <3> QED BY <3>1 DEF Max2
  <2>2. \A j \in 1 .. i : j \in 1 .. total /\ (i <= n => j <= n)
    BY <1>2, <1>6
  <2>3. \A j \in 1 .. total : j <= n => j \in 1 .. n
    BY <1>2, <1>6
  <2>4. NewSavepoint.iOffset = Max2(Len(jrn), 1) /\ NewSavepoint.iSubRec = Len(sub)
    BY DEF NewSavepoint
  <2>5. CASE i <= n
    <3>1. i \in 1 .. n /\ \A j \in 1 .. i : j \in 1 .. n
      BY <2>2, <2>3, <2>5
    <3>2. \A j \in 1 .. i : /\ aSavepoint[j].iOffset <= aSavepoint[i].iOffset
                            /\ aSavepoint[j].iSubRec <= aSavepoint[i].iSubRec
      BY <1>2, <3>1 DEF PlacesNested
    <3> QED BY <1>17, <3>1, <3>2
  <2>6. CASE ~(i <= n)
    <3>1. aSavepoint'[i] = NewSavepoint
      BY <1>18, <2>6
    <3>2. ASSUME NEW j \in 1 .. i
          PROVE  /\ aSavepoint'[j].iOffset <= Max2(Len(jrn), 1)
                 /\ aSavepoint'[j].iSubRec <= Len(sub)
      <4>1. CASE j <= n
        <5>1. j \in 1 .. n
          BY <2>2, <2>3, <4>1
        <5> QED BY <1>17, <5>1
      <4>2. CASE ~(j <= n)
        <5>1. aSavepoint'[j] = NewSavepoint
          BY <1>18, <2>2, <4>2
        <5> QED BY <2>1, <2>4, <5>1
      <4> QED BY <4>1, <4>2
    <3> QED BY <2>1, <2>4, <3>1, <3>2
  <2> QED BY <2>5, <2>6
<1>20. PagesInSavepoint'
  <2> SUFFICES ASSUME NEW i \in 1 .. total, NEW s, s = aSavepoint'[i],
                      NEW p \in s.pInSavepoint
               PROVE  MainAfter(s.iOffset, p)' \cup SubAfter(s.iSubRec, p)' # {}
    BY <1>7 DEF PagesInSavepoint, MainAfter, SubAfter
  <2>1. CASE i <= n
    <3>1. i \in 1 .. n /\ s = aSavepoint[i]
      BY <1>2, <1>6, <1>17, <2>1
    <3>2. MainAfter(s.iOffset, p) \cup SubAfter(s.iSubRec, p) # {}
      BY <1>2, <3>1 DEF PagesInSavepoint
    <3> QED BY <1>1, <3>2 DEF MainAfter, SubAfter
  <2>2. CASE ~(i <= n)
    <3>1. s.pInSavepoint = {}
      BY <1>18, <2>2 DEF NewSavepoint
    <3> QED BY <3>1
  <2> QED BY <2>1, <2>2
<1>21. Restorable'
  <2> SUFFICES ASSUME NEW i \in 1 .. total
               PROVE  /\ Meant(i)' \in [1 .. aSavepoint'[i].nOrig -> Value]
                      /\ \A p \in 1 .. aSavepoint'[i].nOrig :
                            Restores(aSavepoint[i].iOffset, aSavepoint[i].iSubRec, p,
                                     Meant(i)[p])'
    BY <1>7 DEF Restorable
  <2>1. PICK s, contents : s = aSavepoint'[i] /\ contents = Meant(i)'
    OBVIOUS
  <2> SUFFICES /\ contents \in [1 .. s.nOrig -> Value]
               /\ \A p \in 1 .. s.nOrig : Restores(s.iOffset, s.iSubRec, p, contents[p])'
    BY <2>1 DEF Restores, MainAfter, SubAfter
  <2>2. CASE i <= n
    <3>1. i \in 1 .. n /\ s = aSavepoint[i] /\ contents = Meant(i)
      BY <1>2, <1>6, <1>16, <1>17, <2>1, <2>2
    <3>2. /\ contents \in [1 .. s.nOrig -> Value]
          /\ \A p \in 1 .. s.nOrig : Restores(s.iOffset, s.iSubRec, p, contents[p])
      BY <1>2, <3>1 DEF Restorable
    <3>3. ASSUME NEW p \in 1 .. s.nOrig PROVE Restores(s.iOffset, s.iSubRec, p, contents[p])'
      <4>1. Restores(s.iOffset, s.iSubRec, p, contents[p])
        BY <3>2
      <4> QED BY <1>1, <1>11, <4>1 DEF Restores, MainAfter, SubAfter
    <3> QED BY <3>2, <3>3
  <2>3. CASE ~(i <= n)
    <3>1. s = NewSavepoint /\ contents = Current
      BY <1>15, <1>18, <2>1, <2>3
    <3>2. s.nOrig = dbSize
      BY <3>1 DEF NewSavepoint
    <3>3. contents \in [1 .. s.nOrig -> Value]
      BY <1>2, <3>1, <3>2, CurrentContents
    <3>4. ASSUME NEW p \in 1 .. s.nOrig PROVE Restores(s.iOffset, s.iSubRec, p, contents[p])'
      <4>1. p \in Page
        BY <1>2, <3>2, InvParts, PagesAssumption DEF PageTypes, Page
      <4>2. Restores(s.iOffset, s.iSubRec, p, Read(p))'
        BY <1>1, <1>2, <3>1, <4>1, NewRestores
      <4>3. Read(p)' = contents[p]
        BY <1>11, <3>1, <3>2 DEF Current
      <4> QED BY <4>2, <4>3 DEF Restores, MainAfter, SubAfter
    <3> QED BY <3>3, <3>4
  <2> QED BY <2>2, <2>3
<1> QED BY <1>12, <1>13, <1>14, <1>19, <1>20, <1>21 DEF SavepointsInv

\* The statement under way, and the pager's savepoint for it
LEMMA Running ==
    ASSUME SInv, stmt.running
    PROVE  /\ nSavepoint \in Nat /\ eState # "reader"
           /\ stmt.iStatement = 0 => Len(aSavepoint) = nSavepoint
           /\ stmt.iStatement # 0 => /\ stmt.iStatement = nSavepoint + 1
                                     /\ Len(aSavepoint) = nSavepoint + 1
                                     /\ InPager(stmt.iStatement - 1)
                                     /\ Meant(stmt.iStatement) = past.undo
<1>1. HandleTypes /\ SavepointCounts /\ eState # "reader"
  BY InvParts DEF SInv, SavepointsInv, StatementLocks
<1>2. PICK b \in {0, 1} : nSavepoint = nOpen - b /\ (b = 1 <=> isTransactionSavepoint)
  BY <1>1, Indices
<1>3. nOpen \in Nat
  BY <1>1, Counted
<1>4. b = 1 => nOpen > 0
  BY <1>1, <1>2 DEF SavepointCounts
<1>5. nSavepoint \in Nat
  BY <1>2, <1>3, <1>4
<1>6. stmt.iStatement \in {0, nSavepoint + 1} /\ Len(aSavepoint) = Max2(nSavepoint, stmt.iStatement)
  BY <1>1 DEF SavepointCounts
<1>7. \A x \in Nat : Max2(x, 0) = x /\ Max2(x, x + 1) = x + 1
  BY DEF Max2
<1>8. CASE stmt.iStatement = 0
  BY <1>1, <1>5, <1>6, <1>7, <1>8
<1>9. CASE stmt.iStatement # 0
  <2>1. stmt.iStatement = nSavepoint + 1 /\ Len(aSavepoint) = nSavepoint + 1
    BY <1>5, <1>6, <1>7, <1>9
  <2>2. stmt.iStatement - 1 < Len(aSavepoint)
    BY <1>5, <2>1
  <2>3. InPager(stmt.iStatement - 1)
    BY <1>1, <2>2 DEF InPager
  <2> QED BY <1>1, <1>5, <1>9, <2>1, <2>3 DEF Meant
<1> QED BY <1>8, <1>9

\* A statement that fails in a transaction undoes all it has done, or nothing.
LEMMA HaltContents ==
    ASSUME SInv, stmt.running, NEW keep \in BOOLEAN, HaltInTransaction(keep)
    PROVE  /\ Current' \in {Current, past.undo} \ {NoContents}
           /\ \A i \in 1 .. nSavepoint : \A p \in 1 .. aSavepoint[i].nOrig :
                 MainAfter(aSavepoint[i].iOffset, p) = {}
                 /\ SubAfter(aSavepoint[i].iSubRec, p) = {} => Read(p)' = Read(p)
<1>1. IInv /\ PlacesNested /\ Restorable /\ Current # NoContents
      /\ PastShape /\ Len(aSavepoint) \in Nat
  BY CurrentContents, InvParts DEF SInv, SavepointsInv, SavepointTypes
<1>2. UNCHANGED <<dbSize, pages>> \/ (stmt.iStatement # 0 /\ PagerRollback(stmt.iStatement - 1))
  BY DEF HaltInTransaction, RollbackStatement
<1>3. CASE UNCHANGED <<dbSize, pages>>
  <2>1. \A p : Read(p)' = Read(p)
    BY <1>3 DEF Read, pages
  <2> QED BY <1>1, <1>3, <2>1 DEF Current
<1>4. CASE stmt.iStatement # 0 /\ PagerRollback(stmt.iStatement - 1)
  <2> DEFINE i == stmt.iStatement - 1
  <2>1. /\ nSavepoint \in Nat /\ stmt.iStatement = nSavepoint + 1
        /\ Len(aSavepoint) = nSavepoint + 1 /\ InPager(i)
        /\ Meant(stmt.iStatement) = past.undo
    BY <1>4, Running
  <2>2. i \in Nat /\ i + 1 = stmt.iStatement /\ i = nSavepoint /\ PagerRollback(i)
    BY <1>4, <2>1
  <2> HIDE DEF i
  <2>3. /\ \A j \in 1 .. Len(aSavepoint) :
              (InPager(i) => j <= i + 1) =>
                 \A p \in 1 .. aSavepoint[j].nOrig :
                    MainAfter(aSavepoint[j].iOffset, p) = {}
                    /\ SubAfter(aSavepoint[j].iSubRec, p) = {} => Read(p)' = Read(p)
        /\ InPager(i) => Current' = Meant(i + 1)
    BY <1>1, <2>2, PagerRollbackKeeps
  <2>4. \A j \in 1 .. nSavepoint : j \in 1 .. Len(aSavepoint) /\ j <= i + 1
    BY <2>1, <2>2
  <2>5. past.undo # NoContents
    BY <1>1, <1>4 DEF PastShape
  <2>6. Current' = past.undo
    BY <2>1, <2>2, <2>3
  <2>7. \A j \in 1 .. nSavepoint : \A p \in 1 .. aSavepoint[j].nOrig :
           MainAfter(aSavepoint[j].iOffset, p) = {}
           /\ SubAfter(aSavepoint[j].iSubRec, p) = {} => Read(p)' = Read(p)
    BY <2>3, <2>4
  <2> QED BY <2>5, <2>6, <2>7
<1> QED BY <1>2, <1>3, <1>4

\* Outside a transaction there is no savepoint of SQL.
LEMMA HaltCloses ==
    ASSUME SInv, NEW keep \in BOOLEAN, HaltAutoCommit(keep)
    PROVE  (CommitBtree \/ RollbackAll) /\ CloseSavepoints /\ autoCommit
<1>1. (CommitBtree \/ RollbackAll) /\ autoCommit
      /\ UNCHANGED <<autoCommit, nOpen, isTransactionSavepoint>>
  BY DEF HaltAutoCommit, handle
<1>2. nOpen = 0 /\ ~isTransactionSavepoint
  BY <1>1 DEF SInv, SavepointsInv, SavepointCounts
<1>3. autoCommit \in BOOLEAN /\ isTransactionSavepoint \in BOOLEAN
  BY InvParts DEF SInv, HandleTypes
<1>4. autoCommit' = TRUE /\ isTransactionSavepoint' = FALSE
  BY <1>1, <1>2, <1>3, Zenon
<1> QED BY <1>1, <1>2, <1>4 DEF CloseSavepoints

LEMMA HaltSavepoints ==
    ASSUME NEW keep \in BOOLEAN PROVE SInv /\ Halt(keep) => SavepointsInv'
<1> SUFFICES ASSUME SInv, Halt(keep) PROVE SavepointsInv'
  OBVIOUS
<1>1. /\ IInv /\ HandleTypes /\ SavepointCounts /\ PastShape
      /\ stmt.running /\ stmt' = NoStatement
      /\ HaltAutoCommit(keep) \/ HaltInTransaction(keep)
  BY InvParts DEF SInv, SavepointsInv, Halt
<1>2. ~stmt'.running /\ stmt'.iStatement = 0
  BY <1>1 DEF NoStatement
<1>3. CASE HaltAutoCommit(keep)
  <2>1. (CommitBtree \/ RollbackAll) /\ CloseSavepoints
    BY <1>3, HaltCloses
  <2> QED BY <1>1, <1>2, <2>1, Ended, EndedInv
<1>4. CASE HaltInTransaction(keep)
  <2>1. /\ ~autoCommit' /\ SameTransaction /\ nOpen' = nOpen /\ jrn' = jrn
        /\ past' = [past EXCEPT !.undo = NoContents] /\ ReleaseStatement
    BY <1>4 DEF HaltInTransaction, handle, SameTransaction
  <2>2. PICK b \in {0, 1} : nSavepoint = nOpen - b
    BY <1>1, Indices
  <2>3. /\ nSavepoint \in Nat /\ nOpen \in Nat /\ nOpen \in 0 .. nOpen
        /\ Len(aSavepoint) \in Nat
    BY <1>1, Running, Counted, InvParts DEF SavepointTypes
  <2>4. isTransactionSavepoint => nOpen' > 0
    BY <1>1, <2>1 DEF SavepointCounts
  <2>5. /\ past'.committed = past.committed /\ past'.undo = NoContents
        /\ past'.saved = past.saved
    <3>1. past' = [committed |-> past.committed, saved |-> past.saved, undo |-> NoContents]
      BY <1>1, <2>1, PastRecord
    <3> QED BY <3>1
  <2>6. past'.saved \in Seq(Contents) /\ Len(past'.saved) = nOpen
    BY <1>1, <2>5 DEF PastShape
  <2>7. /\ nSavepoint \in 0 .. Len(aSavepoint) /\ aSavepoint' = SubSeq(aSavepoint, 1, nSavepoint)
        /\ NoneRecorded \/ nSavepoint = 0
    <3>1. CASE stmt.iStatement = 0
      <4>1. UNCHANGED <<sub, aSavepoint>> /\ Len(aSavepoint) = nSavepoint
        BY <1>1, <2>1, <3>1, Running DEF ReleaseStatement
      <4>2. aSavepoint' = SubSeq(aSavepoint, 1, nSavepoint)
        BY <1>1, <4>1, WholePrefix
      <4> QED BY <2>1, <2>3, <4>1, <4>2 DEF NoneRecorded
    <3>2. CASE stmt.iStatement # 0
      <4>1. /\ stmt.iStatement = nSavepoint + 1 /\ Len(aSavepoint) = nSavepoint + 1
            /\ InPager(stmt.iStatement - 1) /\ PagerRelease(stmt.iStatement - 1)
        BY <1>1, <2>1, <3>2, Running DEF ReleaseStatement
      <4>2. stmt.iStatement - 1 = nSavepoint
        BY <2>3, <4>1
      <4>3. InPager(nSavepoint) /\ PagerRelease(nSavepoint)
        BY <4>1, <4>2
      <4>4. aSavepoint' = SubSeq(aSavepoint, 1, nSavepoint)
            /\ sub' = (IF nSavepoint = 0 THEN <<>> ELSE sub)
        BY <4>3 DEF PagerRelease
      <4> QED BY <2>1, <2>3, <4>1, <4>4 DEF NoneRecorded
    <3> QED BY <3>1, <3>2
  <2>8. \A i \in 1 .. nSavepoint : \A p \in 1 .. aSavepoint[i].nOrig :
           MainAfter(aSavepoint[i].iOffset, p) = {}
           /\ SubAfter(aSavepoint[i].iSubRec, p) = {} => Read(p)' = Read(p)
    BY <1>1, <1>4, HaltContents
  <2>9. \A i \in 1 .. nSavepoint : i # stmt.iStatement
    BY <1>1, <2>3, Running
  <2>10. nSavepoint <= nOpen - b /\ ~(nSavepoint < nOpen - b)
    BY <2>2, <2>3
  <2>11. \A k \in 1 .. nOpen : past'.saved[k] = past.saved[k]
    BY <2>5
  <2>12. PICK m \in 0 .. Len(aSavepoint) : m = nSavepoint
    BY <2>7
  <2>13. PICK n \in 0 .. nOpen : n = nOpen
    BY <2>3
  <2> HIDE DEF nSavepoint
  <2> QED BY <1>2, <2>1, <2>2, <2>4, <2>5, <2>6, <2>7, <2>8, <2>9, <2>10, <2>11, <2>12, <2>13,
             InnerSavepointsGo
<1> QED BY <1>1, <1>3, <1>4

\* While a statement is under way the pager has all the savepoints.
LEMMA AllOpened ==
    ASSUME SInv, stmt.running, NEW k \in 1 .. nOpen
    PROVE  Index(k) < Len(aSavepoint)
<1>1. HandleTypes
  BY InvParts DEF SInv
<1>2. PICK b \in {0, 1} : nSavepoint = nOpen - b /\ \A j \in Int : Index(j) = j - b - 1
  BY <1>1, Indices
<1>3. nOpen \in Nat /\ k \in Nat /\ k <= nOpen
  BY <1>1, Counted
<1>4. Len(aSavepoint) >= nOpen - b
  <2>1. Len(aSavepoint) \in {nSavepoint, nSavepoint + 1}
    BY Running
  <2> QED BY <1>2, <1>3, <2>1
<1>5. Index(k) = k - b - 1 /\ Len(aSavepoint) \in Nat
  BY <1>1, <1>2, <1>3, InvParts DEF SInv, SavepointTypes
<1> QED BY <1>3, <1>4, <1>5

LEMMA WriteSavepoints ==
    ASSUME NEW p \in Page, NEW data \in Value
    PROVE  SInv /\ Write(p, data) => SavepointsInv'
<1> SUFFICES ASSUME SInv, Write(p, data) PROVE SavepointsInv'
  OBVIOUS
<1>1. /\ IInv /\ SavepointsInv /\ SavepointCounts /\ PastShape /\ HandleTypes
      /\ stmt.running /\ eState # "reader"
  BY Running, InvParts DEF SInv, SavepointsInv, Write
<1>2. /\ UNCHANGED <<autoCommit, nOpen, isTransactionSavepoint, past>>
      /\ stmt' = [stmt EXCEPT !.wrote = TRUE]
      /\ eState' = (IF eState = "locked" THEN "cachemod" ELSE eState)
  BY DEF Write, handle
<1>3. stmt'.iStatement = stmt.iStatement /\ (stmt'.running <=> stmt.running)
  BY <1>1, <1>2 DEF HandleTypes
<1>4. /\ PlacesNested' /\ PagesInSavepoint' /\ Restorable'
      /\ Len(aSavepoint') = Len(aSavepoint)
  BY <1>1, WriteRestorable DEF SInv
<1>5. nSavepoint' = nSavepoint
  BY <1>2 DEF nSavepoint
<1>6. SavepointCounts'
  <2> HIDE DEF nSavepoint
  <2> QED BY <1>1, <1>2, <1>3, <1>4, <1>5 DEF SavepointCounts
<1>7. PastShape'
  BY <1>1, <1>2, <1>3 DEF PastShape
<1>8. UnopenedCurrent'
  <2>1. ASSUME NEW k \in 1 .. nOpen, Index(k)' >= Len(aSavepoint') PROVE FALSE
    <3>1. PICK index \in Int : index = Index(k)
      BY <1>1, Indices
    <3>2. Index(k)' = index
      BY <1>2, <3>1 DEF Index, nSavepoint
    <3>3. index < Len(aSavepoint) /\ Len(aSavepoint) \in Nat
      BY <1>1, <3>1, AllOpened, InvParts DEF SavepointTypes
    <3> QED BY <1>4, <2>1, <3>2, <3>3
  <2> QED BY <1>2, <2>1 DEF UnopenedCurrent
<1> QED BY <1>4, <1>6, <1>7, <1>8 DEF SavepointsInv

LEMMA InitSavepoints == Init => SavepointsInv
<1> SUFFICES ASSUME Init PROVE SavepointsInv
  OBVIOUS
<1>1. /\ aSavepoint = <<>> /\ nOpen = 0 /\ ~isTransactionSavepoint
      /\ eState = "reader" /\ stmt = NoStatement
      /\ past = [committed |-> Current, saved |-> <<>>, undo |-> NoContents]
  BY DEF Init
<1>2. ~stmt.running /\ stmt.iStatement = 0 /\ past.saved = <<>> /\ past.undo = NoContents
  BY <1>1 DEF NoStatement
<1>3. nSavepoint = 0
  <2>1. nSavepoint = nOpen - 0
    BY <1>1, Zenon DEF nSavepoint
  <2> QED BY <1>1, <2>1
<1>4. SavepointCounts
  BY <1>1, <1>2, <1>3 DEF SavepointCounts
<1>5. PastShape /\ UnopenedCurrent
  BY <1>1, <1>2 DEF PastShape, UnopenedCurrent
<1>6. PlacesNested /\ PagesInSavepoint /\ Restorable
  BY <1>1 DEF PlacesNested, PagesInSavepoint, Restorable
<1> QED BY <1>4, <1>5, <1>6 DEF SavepointsInv

LEMMA NextSavepoints == SInv /\ [Next]_vars => SInv'
<1> SUFFICES ASSUME SInv, [Next]_vars PROVE SavepointsInv'
  BY NextInv DEF SInv
<1>1. CASE Begin
  BY <1>1, BeginSavepoints
<1>2. CASE Commit
  BY <1>2, CommitSavepoints
<1>3. CASE Savepoint
  BY <1>3, SavepointSavepoints
<1>4. CASE Rollback \/ AbortTransaction \/ IoError \/ \E p \in Page : SubJournalFull(p)
  <2>1. ForcedRollback
    BY <1>4 DEF Rollback, AbortTransaction, IoError, SubJournalFull
  <2> QED BY <2>1, ForcedRollbackSavepoints
<1>5. CASE \E k \in 1 .. nOpen : Release(k) \/ RollbackTo(k)
  BY <1>5, ReleaseSavepoints, RollbackToSavepoints
<1>6. CASE \E usesStmtJournal, reading \in BOOLEAN : StartStatement(usesStmtJournal, reading)
  BY <1>6, StartStatementSavepoints
<1>7. CASE \E p \in Page, data \in Value : Write(p, data)
  BY <1>7, WriteSavepoints
<1>8. CASE Succeed \/ Abort
  <2>1. \E keep \in BOOLEAN : Halt(keep)
    BY <1>8 DEF Succeed, Abort
  <2> QED BY <2>1, HaltSavepoints
<1>9. CASE \E p \in Page : Fetch(p) \/ Evict(p) \/ Spill(p)
  BY <1>9, PageSavepoints
<1>10. CASE UNCHANGED vars
  BY <1>10, StutterSavepoints
<1> QED BY <1>1, <1>2, <1>3, <1>4, <1>5, <1>6, <1>7, <1>8, <1>9, <1>10 DEF Next

LEMMA SavepointInvariance == Spec => []SInv
<1>1. Init => SInv
  BY InitInv, InitSavepoints DEF SInv
<1> QED BY <1>1, NextSavepoints, PTL DEF Spec

------------------------------------------------------------------------------
(* What follows from the inductive invariant.                               *)

LEMMA InvSavepointsKept == SInv => SavepointsKept
<1> SUFFICES ASSUME SInv, NEW k \in 1 .. nOpen, ~IsTransaction(k)
             PROVE  past.saved[k] =
                       IF InPager(Index(k))
                       THEN LET savepoint == aSavepoint[Index(k) + 1]
                            IN After(BackTo(savepoint), savepoint.nOrig)
                       ELSE Current
  BY DEF SavepointsKept
<1>1. /\ IInv /\ HandleTypes /\ Restorable /\ UnopenedCurrent
      /\ Index(k) \in Nat /\ Len(aSavepoint) \in Nat
      /\ eState = "reader" => aSavepoint = <<>>
  BY IndexRange, InvParts DEF SInv, SavepointsInv, SavepointSizes, SavepointTypes
<1>2. CASE InPager(Index(k))
  <2> DEFINE s == Index(k) + 1
  <2>1. s \in 1 .. Len(aSavepoint) /\ Meant(s) = past.saved[k]
    BY <1>2, MeantSaved DEF InPager
  <2> HIDE DEF s
  <2>2. past.saved[k] \in [1 .. aSavepoint[s].nOrig -> Value]
    BY <1>1, <2>1 DEF Restorable
  <2>3. \A p \in 1 .. aSavepoint[s].nOrig :
           ReadAfter(BackTo(aSavepoint[s]), p) = past.saved[k][p]
    BY <1>1, <2>1, MeantPlayed
  <2>4. past.saved[k] = After(BackTo(aSavepoint[s]), aSavepoint[s].nOrig)
    BY <2>2, <2>3 DEF After
  <2> QED BY <1>2, <2>4 DEF s
<1>3. CASE ~InPager(Index(k))
  <2>1. Index(k) >= Len(aSavepoint)
    BY <1>1, <1>3 DEF InPager
  <2> QED BY <1>1, <1>3, <2>1 DEF UnopenedCurrent
<1> QED BY <1>2, <1>3

\* Every open savepoint can be gone back to at any moment, whatever has been
\* written, spilled, evicted or undone since (sqlite3PagerSavepoint,
\* pagerPlaybackSavepoint, subjRequiresPage).
THEOREM SavepointsRestored == Spec => []SavepointsKept
BY InvSavepointsKept, SavepointInvariance, PTL

LEMMA InvStatementKept == SInv => StatementKept
<1> SUFFICES ASSUME SInv, stmt.iStatement # 0
             PROVE  past.undo = After(BackTo(aSavepoint[stmt.iStatement]),
                                      aSavepoint[stmt.iStatement].nOrig)
  BY DEF StatementKept
<1>1. IInv /\ Restorable /\ stmt.running
  BY DEF SInv, SavepointsInv, SavepointCounts
<1> DEFINE s == stmt.iStatement
<1>2. s \in 1 .. Len(aSavepoint) /\ Meant(s) = past.undo
  <2>1. nSavepoint \in Nat /\ s = nSavepoint + 1 /\ Len(aSavepoint) = nSavepoint + 1
    BY <1>1, Running
  <2>2. Meant(s) = past.undo
    BY DEF Meant
  <2> QED BY <2>1, <2>2
<1> HIDE DEF s
<1>3. past.undo \in [1 .. aSavepoint[s].nOrig -> Value]
  BY <1>1, <1>2 DEF Restorable
<1>4. \A p \in 1 .. aSavepoint[s].nOrig : ReadAfter(BackTo(aSavepoint[s]), p) = past.undo[p]
  BY <1>1, <1>2, MeantPlayed
<1>5. past.undo = After(BackTo(aSavepoint[s]), aSavepoint[s].nOrig)
  BY <1>3, <1>4 DEF After
<1> QED BY <1>5 DEF s

\* A statement that has a statement journal can be undone alone, whatever it
\* has written and the cache has spilled since it began (sqlite3BtreeBeginStmt,
\* vdbeCloseStatement).
THEOREM StatementRestored == Spec => []StatementKept
BY InvStatementKept, SavepointInvariance, PTL

------------------------------------------------------------------------------
(* The refinement of SqlTransactions.                                       *)

LEMMA CurrentContentsNext == IInv' => (Current \in Contents)'
<1>1. IInv => Current \in Contents
  BY CurrentContents
<1> QED BY <1>1, PTL

\* What SqlTransactions calls tx
tx == IF autoCommit THEN "none" ELSE IF isTransactionSavepoint THEN "savepoint" ELSE "begin"

\* The actions of SqlTransactions in the terms of Transactions
Same == UNCHANGED <<past.committed, Current, past.saved, past.undo>>

LEMMA PromiseView ==
    /\ Promise!avars = <<past.committed, Current, tx, past.saved, stmt.running, past.undo>>
    /\ Promise!Begin <=>
          tx = "none" /\ ~stmt.running /\ tx' = "begin" /\ UNCHANGED stmt.running /\ Same
    /\ \A contents : Promise!End(contents) <=>
          /\ tx' = "none" /\ ~stmt'.running /\ past'.saved = <<>> /\ past'.undo = NoContents
          /\ Current' = contents /\ past'.committed = contents
    /\ Promise!Commit <=> (tx # "none" => ~stmt.running) /\ Promise!End(Current)
    /\ Promise!Rollback <=> Promise!End(past.committed)
BY DEF Promise!avars, Promise!Begin, Promise!End, Promise!Commit, Promise!Rollback, tx, Same

LEMMA BeginPromise == SInv /\ Begin => Promise!Begin
<1> SUFFICES ASSUME SInv, Begin PROVE Promise!Begin
  OBVIOUS
<1>1. /\ UNCHANGED <<isTransactionSavepoint, stmt, past, dbSize, file, cache>>
      /\ ~stmt.running /\ autoCommit /\ ~autoCommit' /\ ~isTransactionSavepoint
  BY DEF SInv, SavepointsInv, SavepointCounts, Begin, pages
<1>2. Current' = Current
  BY <1>1 DEF Current, Read
<1>3. tx = "none" /\ tx' = "begin"
  BY <1>1, Zenon DEF tx
<1> QED BY <1>1, <1>2, <1>3, PromiseView DEF Same

\* A transaction ends with what the b-tree reads, or with what was committed.
LEMMA EndPromise ==
    ASSUME IInv, IInv', CloseSavepoints, ~stmt'.running,
           \/ CommitBtree /\ (tx # "none" => ~stmt.running)
           \/ RollbackAll
    PROVE  Promise!Commit \/ Promise!Rollback
<1>1. eState' = "reader" /\ past'.saved = <<>> /\ past'.undo = NoContents
  BY Ended
<1>2. Current' = past'.committed
  BY <1>1 DEF IInv, PagesInv, CommittedKept
<1>3. tx' = "none"
  BY DEF CloseSavepoints, tx
<1>4. CASE CommitBtree /\ (tx # "none" => ~stmt.running)
  BY <1>1, <1>2, <1>3, <1>4, Ended, PromiseView
<1>5. CASE RollbackAll
  <2>1. past' = [past EXCEPT !.saved = <<>>, !.undo = NoContents]
    BY <1>5 DEF RollbackAll
  <2>2. past'.committed = past.committed
    BY <2>1, PastRecord
  <2> QED BY <1>1, <1>2, <1>3, <2>2, PromiseView
<1> QED BY <1>4, <1>5

LEMMA CommitPromise == SInv /\ SInv' /\ Commit => Promise!Commit \/ Promise!Rollback
BY EndPromise DEF SInv, Commit

LEMMA ForcedRollbackPromise ==
    SInv /\ SInv' /\ ForcedRollback => Promise!Commit \/ Promise!Rollback
<1> SUFFICES ASSUME SInv, SInv', ForcedRollback PROVE Promise!Commit \/ Promise!Rollback
  OBVIOUS
<1>1. RollbackAll /\ CloseSavepoints /\ ~stmt'.running
  BY DEF ForcedRollback, NoStatement
<1> QED BY <1>1, EndPromise DEF SInv

LEMMA SavepointPromise == SInv /\ Savepoint => Promise!Savepoint
<1> SUFFICES ASSUME SInv, Savepoint PROVE Promise!Savepoint
  OBVIOUS
<1>1. /\ UNCHANGED <<stmt, dbSize, file, cache>> /\ ~stmt.running /\ ~autoCommit'
      /\ isTransactionSavepoint' = (isTransactionSavepoint \/ autoCommit)
      /\ past' = [past EXCEPT !.saved = Append(past.saved, Current)]
  BY DEF Savepoint, pages
<1>2. IInv /\ (autoCommit => ~isTransactionSavepoint)
      /\ autoCommit \in BOOLEAN /\ isTransactionSavepoint \in BOOLEAN
  BY InvParts DEF SInv, SavepointsInv, SavepointCounts, HandleTypes
<1>3. Current' = Current
  BY <1>1 DEF Current, Read
<1>4. past' = [committed |-> past.committed, saved |-> Append(past.saved, Current),
               undo |-> past.undo]
  BY <1>1, <1>2, PastRecord
<1>5. /\ past'.committed = past.committed /\ past'.undo = past.undo
      /\ past'.saved = Append(past.saved, Current)
  BY <1>4
<1>6. tx' = IF tx = "none" THEN "savepoint" ELSE tx
  <2>1. CASE autoCommit
    BY <1>1, <2>1, Zenon DEF tx
  <2>2. CASE ~autoCommit
    <3>1. isTransactionSavepoint' = isTransactionSavepoint
      BY <1>1, <1>2, <2>2, Zenon
    <3> QED BY <1>1, <2>2, <3>1, Zenon DEF tx
  <2> QED BY <2>1, <2>2
<1> QED BY <1>1, <1>3, <1>5, <1>6, Zenon DEF Promise!Savepoint, tx

LEMMA ReleasePromise ==
    ASSUME NEW k \in 1 .. nOpen
    PROVE  SInv /\ SInv' /\ Release(k) =>
              Promise!Commit \/ Promise!Rollback \/ Promise!Release(k)
<1> SUFFICES ASSUME SInv, SInv', Release(k)
             PROVE  Promise!Commit \/ Promise!Rollback \/ Promise!Release(k)
  OBVIOUS
<1>1. IInv /\ IInv' /\ HandleTypes /\ ~stmt.running /\ stmt' = stmt
  BY InvParts DEF SInv, Release
<1>2. CASE IsTransaction(k)
  <2>1. CommitBtree /\ CloseSavepoints
    BY <1>2 DEF Release
  <2> QED BY <1>1, <2>1, EndPromise
<1>3. CASE ~IsTransaction(k)
  <2>1. /\ past' = [past EXCEPT !.saved = SubSeq(past.saved, 1, k - 1)]
        /\ UNCHANGED <<autoCommit, isTransactionSavepoint, dbSize, file, cache>>
    BY <1>3 DEF Release, pages
  <2>2. nOpen \in Nat /\ k - 1 \in 0 .. nOpen /\ ~autoCommit
    <3>1. nOpen \in Nat
      BY <1>1, Counted
    <3> QED BY <3>1 DEF SInv, SavepointsInv, SavepointCounts
  <2>3. /\ past'.committed = past.committed /\ past'.undo = past.undo
        /\ past'.saved = SubSeq(past.saved, 1, k - 1)
    <3> DEFINE n == k - 1
    <3>1. n \in 0 .. nOpen /\ past' = [past EXCEPT !.saved = SubSeq(past.saved, 1, n)]
      BY <2>1, <2>2
    <3> HIDE DEF n
    <3>2. /\ past'.committed = past.committed /\ past'.undo = NoContents
          /\ past'.saved = SubSeq(past.saved, 1, n)
      BY <1>1, <3>1, SavedPrefix
    <3>3. past.undo = NoContents
      BY <1>1 DEF SInv, SavepointsInv, SavepointCounts, PastShape
    <3> QED BY <3>2, <3>3 DEF n
  <2>4. Current' = Current
    BY <2>1 DEF Current, Read
  <2>5. tx' = tx /\ (k = 1 => tx = "begin")
    <3>1. k = 1 => ~isTransactionSavepoint
      BY <1>3 DEF IsTransaction
    <3> QED BY <2>1, <2>2, <3>1 DEF tx
  <2> QED BY <1>1, <2>3, <2>4, <2>5 DEF Promise!Release, tx
<1> QED BY <1>2, <1>3

LEMMA RollbackToPromise ==
    ASSUME NEW k \in 1 .. nOpen
    PROVE  SInv /\ RollbackTo(k) => Promise!RollbackTo(k)
<1> SUFFICES ASSUME SInv, RollbackTo(k) PROVE Promise!RollbackTo(k)
  OBVIOUS
<1>1. /\ ~stmt.running /\ stmt' = stmt
      /\ past' = [past EXCEPT !.saved = SubSeq(past.saved, 1, k)]
      /\ UNCHANGED <<autoCommit, isTransactionSavepoint>>
  BY DEF RollbackTo
<1>2. k \in 0 .. nOpen /\ past.undo = NoContents
  BY <1>1, InvParts, Counted DEF SInv, SavepointsInv, SavepointCounts, PastShape
<1>3. /\ past'.committed = past.committed /\ past'.undo = past.undo
      /\ past'.saved = SubSeq(past.saved, 1, k)
  BY <1>1, <1>2, SavedPrefix
<1>4. Current' = past.saved[k]
  BY RollbackToContents
<1>5. tx' = tx
  BY <1>1 DEF tx
<1> QED BY <1>1, <1>3, <1>4, <1>5 DEF Promise!RollbackTo, tx

LEMMA StartStatementPromise ==
    ASSUME NEW usesStmtJournal \in BOOLEAN, NEW reading \in BOOLEAN
    PROVE  SInv /\ StartStatement(usesStmtJournal, reading) => Promise!StartStatement
<1> SUFFICES ASSUME SInv, StartStatement(usesStmtJournal, reading)
             PROVE  Promise!StartStatement
  OBVIOUS
<1>1. PICK undo \in {Current, NoContents} : past' = [past EXCEPT !.undo = undo]
  BY DEF StartStatement
<1>2. /\ ~stmt.running /\ stmt'.running
      /\ UNCHANGED <<autoCommit, isTransactionSavepoint, dbSize, file, cache>>
  BY DEF StartStatement, handle, pages
<1>3. past' = [committed |-> past.committed, saved |-> past.saved, undo |-> undo]
  BY <1>1, PastRecord DEF SInv
<1>4. past'.committed = past.committed /\ past'.saved = past.saved /\ past'.undo = undo
  BY <1>3
<1>5. Current' = Current /\ tx' = tx
  BY <1>2 DEF Current, Read, tx
<1> QED BY <1>1, <1>2, <1>4, <1>5 DEF Promise!StartStatement, tx

LEMMA WritePromise ==
    ASSUME NEW p \in Page, NEW data \in Value
    PROVE  SInv /\ SInv' /\ Write(p, data) => Promise!Change
<1> SUFFICES ASSUME SInv, SInv', Write(p, data) PROVE Promise!Change
  OBVIOUS
<1>1. /\ UNCHANGED <<autoCommit, isTransactionSavepoint, past>>
      /\ stmt.running /\ stmt' = [stmt EXCEPT !.wrote = TRUE]
  BY DEF Write, handle
<1>2. stmt'.running <=> stmt.running
  BY <1>1, InvParts DEF SInv, HandleTypes
<1>3. (Current \in Contents)' /\ tx' = tx
  BY <1>1, CurrentContentsNext DEF SInv, tx
<1>4. stmt'.running = stmt.running
  <2>1. stmt \in [running : BOOLEAN, usesStmtJournal : BOOLEAN,
                  iStatement : 0 .. MaxSavepoints + 1, wrote : BOOLEAN]
    BY InvParts DEF SInv, HandleTypes
  <2> QED BY <1>1, <2>1
<1> QED BY <1>1, <1>3, <1>4 DEF Promise!Change, tx

LEMMA HaltPromise ==
    ASSUME NEW keep \in BOOLEAN
    PROVE  SInv /\ SInv' /\ Halt(keep) =>
              Promise!Commit \/ Promise!Rollback \/ Promise!EndStatement
<1> SUFFICES ASSUME SInv, SInv', Halt(keep)
             PROVE  Promise!Commit \/ Promise!Rollback \/ Promise!EndStatement
  OBVIOUS
<1>1. /\ IInv /\ IInv' /\ stmt.running /\ ~stmt'.running
      /\ HaltAutoCommit(keep) \/ HaltInTransaction(keep)
  BY DEF SInv, Halt, NoStatement
<1>2. CASE HaltAutoCommit(keep)
  <2>1. (CommitBtree \/ RollbackAll) /\ CloseSavepoints /\ autoCommit
    BY <1>2, HaltCloses
  <2>2. tx = "none"
    BY <2>1 DEF tx
  <2> QED BY <1>1, <2>1, <2>2, EndPromise
<1>3. CASE HaltInTransaction(keep)
  <2>1. /\ UNCHANGED <<autoCommit, isTransactionSavepoint>> /\ ~autoCommit
        /\ past' = [past EXCEPT !.undo = NoContents]
    BY <1>3 DEF HaltInTransaction, handle
  <2>2. past' = [committed |-> past.committed, saved |-> past.saved, undo |-> NoContents]
    BY <1>1, <2>1, PastRecord
  <2>3. /\ past'.committed = past.committed /\ past'.saved = past.saved
        /\ past'.undo = NoContents
    BY <2>2
  <2>4. Current' \in {Current, past.undo} \ {NoContents}
    BY <1>1, <1>3, HaltContents
  <2>5. tx # "none" /\ tx' = tx
    BY <2>1 DEF tx
  <2> QED BY <1>1, <2>3, <2>4, <2>5 DEF Promise!EndStatement, tx
<1> QED BY <1>1, <1>2, <1>3

\* What the page cache does is not seen, nor a step that changes nothing.
LEMMA UnseenPromise ==
    SInv /\ ((\E p \in Page : Fetch(p) \/ Evict(p) \/ Spill(p)) \/ UNCHANGED vars) =>
       UNCHANGED Promise!avars
<1> SUFFICES ASSUME SInv,
                    (\E p \in Page : Fetch(p) \/ Evict(p) \/ Spill(p)) \/ UNCHANGED vars
             PROVE  UNCHANGED Promise!avars
  OBVIOUS
<1>1. UNCHANGED <<autoCommit, isTransactionSavepoint, stmt, past, dbSize>>
  BY DEF Fetch, Evict, Spill, vars, handle
<1>2. \A q \in 1 .. dbSize : Read(q)' = Read(q)
  <2>1. CASE UNCHANGED vars
    BY <2>1 DEF vars, pages, Read
  <2>2. CASE \E p \in Page : Fetch(p) \/ Evict(p) \/ Spill(p)
    BY <2>2, PageReads DEF SInv
  <2> QED BY <2>1, <2>2
<1>3. Current' = Current /\ tx' = tx
  BY <1>1, <1>2 DEF Current, tx
<1> QED BY <1>1, <1>3 DEF Promise!avars, tx

LEMMA InitPromise == Init => Promise!Init
<1> SUFFICES ASSUME Init PROVE Promise!Init
  OBVIOUS
<1>1. autoCommit /\ stmt = NoStatement
      /\ past = [committed |-> Current, saved |-> <<>>, undo |-> NoContents]
  BY DEF Init
<1>2. past.committed = Current /\ past.saved = <<>> /\ past.undo = NoContents
  BY <1>1
<1>3. Current \in Contents
  BY InitInv, CurrentContents
<1> QED BY <1>1, <1>2, <1>3 DEF Promise!Init, NoStatement

LEMMA NextPromise == SInv /\ SInv' /\ [Next]_vars => [Promise!Next]_(Promise!avars)
<1> SUFFICES ASSUME SInv, SInv', [Next]_vars PROVE Promise!Next \/ UNCHANGED Promise!avars
  OBVIOUS
<1>1. Len(past.saved) = nOpen
  BY DEF SInv, SavepointsInv, PastShape
<1>2. CASE Begin
  BY <1>2, BeginPromise DEF Promise!Next
<1>3. CASE Commit
  BY <1>3, CommitPromise DEF Promise!Next
<1>4. CASE Savepoint
  BY <1>4, SavepointPromise DEF Promise!Next
<1>5. CASE Rollback \/ AbortTransaction \/ IoError \/ \E p \in Page : SubJournalFull(p)
  <2>1. ForcedRollback
    BY <1>5 DEF Rollback, AbortTransaction, IoError, SubJournalFull
  <2> QED BY <2>1, ForcedRollbackPromise DEF Promise!Next
<1>6. CASE \E k \in 1 .. nOpen : Release(k) \/ RollbackTo(k)
  BY <1>1, <1>6, ReleasePromise, RollbackToPromise DEF Promise!Next
<1>7. CASE \E usesStmtJournal, reading \in BOOLEAN : StartStatement(usesStmtJournal, reading)
  BY <1>7, StartStatementPromise DEF Promise!Next
<1>8. CASE \E p \in Page, data \in Value : Write(p, data)
  BY <1>8, WritePromise DEF Promise!Next
<1>9. CASE Succeed \/ Abort
  <2>1. \E keep \in BOOLEAN : Halt(keep)
    BY <1>9 DEF Succeed, Abort
  <2> QED BY <2>1, HaltPromise DEF Promise!Next
<1>10. CASE (\E p \in Page : Fetch(p) \/ Evict(p) \/ Spill(p)) \/ UNCHANGED vars
  BY <1>10, UnseenPromise
<1> QED BY <1>2, <1>3, <1>4, <1>5, <1>6, <1>7, <1>8, <1>9, <1>10 DEF Next

\* To the contents of the database BEGIN, COMMIT, ROLLBACK, SAVEPOINT, RELEASE,
\* ROLLBACK TO and the statements do what they say (sqlite3VdbeHalt,
\* OP_Savepoint, and beneath them the pager), and the page cache does nothing.
THEOREM SqlImplemented == Spec => ImplementsSql
<1>1. SInv /\ SInv' /\ [Next]_vars => [Promise!Next]_(Promise!avars)
  BY NextPromise
<1> QED BY <1>1, InitPromise, SavepointInvariance, PTL DEF Spec, ImplementsSql, Promise!Spec

=============================================================================
