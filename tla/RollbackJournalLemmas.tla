------------------------- MODULE RollbackJournalLemmas -------------------------
(****************************************************************************)
(* Lemmas for RollbackJournalProofs: where headers and records lie, what    *)
(* the writes of the pager make of the journal, and what a playback finds   *)
(* in it.  A journal that is overwritten has older headers and records      *)
(* behind those of the transaction; what tells them apart is the seed of    *)
(* their checksums, their place, and the magic of the header in front of    *)
(* them.                                                                    *)
(****************************************************************************)
EXTENDS RollbackJournal, FiniteSetTheorems, WellFoundedInduction, TLAPS

------------------------------------------------------------------------------
(* Arithmetic of offsets.                                                   *)

\* The sector an offset is in.
LEMMA Division ==
    ASSUME NEW o \in Nat
    PROVE  /\ o \div Sector \in Nat
           /\ (o \div Sector) * Sector <= o
           /\ o < (o \div Sector) * Sector + Sector
BY SectorAssumption

\* Two sector boundaries are a sector apart at least.
LEMMA MultipleGap ==
    ASSUME NEW a \in Nat, NEW b \in Nat, a < b
    PROVE  a * Sector + Sector <= b * Sector
<1>1. PICK d \in Nat : b = a + 1 + d
  <2>1. b - a - 1 \in Nat
    OBVIOUS
  <2> QED BY <2>1
<1>2. b * Sector = a * Sector + Sector + d * Sector
  BY <1>1, SectorAssumption
<1>3. d * Sector >= 0
  BY SectorAssumption
<1> QED BY <1>2, <1>3, SectorAssumption

\* RoundUp is the least multiple that is no less.
LEMMA RoundUpMultiple ==
    ASSUME NEW o \in Nat
    PROVE  /\ \E q \in Nat : RoundUp(o) = q * Sector
           /\ RoundUp(o) \in Nat
           /\ o <= RoundUp(o)
           /\ RoundUp(o) < o + Sector
<1>1. o + Sector - 1 \in Nat
  BY SectorAssumption
<1>2. /\ (o + Sector - 1) \div Sector \in Nat
      /\ ((o + Sector - 1) \div Sector) * Sector <= o + Sector - 1
      /\ o + Sector - 1 < ((o + Sector - 1) \div Sector) * Sector + Sector
  BY <1>1, Division
<1>3. ((o + Sector - 1) \div Sector) * Sector \in Nat
  BY <1>2, SectorAssumption
<1> DEFINE r == ((o + Sector - 1) \div Sector) * Sector
<1>4. o <= r /\ r < o + Sector
  <2> HIDE DEF r
  <2> QED BY <1>2, <1>3, SectorAssumption DEF r
<1> QED BY <1>2, <1>3, <1>4 DEF RoundUp

\* No other multiple is.
LEMMA RoundUpUnique ==
    ASSUME NEW o \in Nat, NEW q \in Nat, o <= q * Sector, q * Sector < o + Sector
    PROVE  RoundUp(o) = q * Sector
<1>1. PICK n \in Nat : RoundUp(o) = n * Sector
  BY RoundUpMultiple
<1>2. o <= n * Sector /\ n * Sector < o + Sector
  BY <1>1, RoundUpMultiple
<1>3. n * Sector \in Nat /\ q * Sector \in Nat
  BY SectorAssumption
<1>4. CASE n < q
  <2>1. n * Sector + Sector <= q * Sector
    BY <1>4, MultipleGap
  <2> QED BY <2>1, <1>2, <1>3, SectorAssumption
<1>5. CASE q < n
  <2>1. q * Sector + Sector <= n * Sector
    BY <1>5, MultipleGap
  <2> QED BY <2>1, <1>2, <1>3, SectorAssumption
<1> QED BY <1>1, <1>4, <1>5

\* Behind something aligned, rounding up concerns the rest only.
LEMMA RoundUpBehind ==
    ASSUME NEW a \in Nat, RoundUp(a) = a, NEW b \in Nat
    PROVE  RoundUp(a + b) = a + RoundUp(b)
<1>1. PICK q \in Nat : a = q * Sector
  BY RoundUpMultiple
<1>2. PICK n \in Nat : RoundUp(b) = n * Sector
  BY RoundUpMultiple
<1>3. b <= n * Sector /\ n * Sector < b + Sector
  BY <1>2, RoundUpMultiple
<1>4. (q + n) * Sector = q * Sector + n * Sector
  BY SectorAssumption
<1>5. q * Sector \in Nat /\ n * Sector \in Nat /\ q + n \in Nat
  BY SectorAssumption
<1>6. a + b <= (q + n) * Sector /\ (q + n) * Sector < a + b + Sector
  BY <1>1, <1>3, <1>4, <1>5, SectorAssumption
<1>7. RoundUp(a + b) = (q + n) * Sector
  BY <1>5, <1>6, RoundUpUnique
<1> QED BY <1>1, <1>2, <1>4, <1>7

\* A sector boundary is where it is rounded to.
LEMMA RoundUpSector ==
    /\ RoundUp(0) = 0
    /\ RoundUp(Sector) = Sector
    /\ \A o \in Nat : RoundUp(RoundUp(o)) = RoundUp(o)
<1>1. RoundUp(0) = 0 * Sector
  BY RoundUpUnique, SectorAssumption
<1>2. RoundUp(Sector) = 1 * Sector
  BY RoundUpUnique, SectorAssumption
<1>3. ASSUME NEW o \in Nat
      PROVE  RoundUp(RoundUp(o)) = RoundUp(o)
  <2>1. PICK q \in Nat : RoundUp(o) = q * Sector
    BY RoundUpMultiple
  <2>2. RoundUp(o) \in Nat /\ RoundUp(o) < RoundUp(o) + Sector
    BY RoundUpMultiple, SectorAssumption
  <2> QED BY <2>1, <2>2, RoundUpUnique
<1> QED BY <1>1, <1>2, <1>3, SectorAssumption

\* No boundary is between an offset and where it is rounded to.
LEMMA RoundUpLeast ==
    ASSUME NEW o \in Nat, NEW m \in Nat, RoundUp(m) = m, o <= m
    PROVE  RoundUp(o) <= m
<1>1. PICK q \in Nat : m = q * Sector
  BY RoundUpMultiple
<1>2. PICK n \in Nat : RoundUp(o) = n * Sector
  BY RoundUpMultiple
<1>3. RoundUp(o) < m + Sector
  BY RoundUpMultiple, SectorAssumption
<1>4. ~(q < n)
  <2> SUFFICES ASSUME q < n PROVE FALSE
    OBVIOUS
  <2>1. q * Sector + Sector <= n * Sector
    BY MultipleGap
  <2>2. n * Sector \in Nat /\ q * Sector \in Nat
    BY SectorAssumption
  <2> QED BY <1>1, <1>2, <1>3, <2>1, <2>2, SectorAssumption
<1>5. n = q \/ n * Sector + Sector <= q * Sector
  BY <1>4, MultipleGap
<1>6. n * Sector \in Nat /\ q * Sector \in Nat
  BY SectorAssumption
<1> QED BY <1>1, <1>2, <1>5, <1>6, SectorAssumption

------------------------------------------------------------------------------
(* Segments of the journal.                                                 *)

\* The offset of a record, counted from 0, of the segment with its header at h.
Slot(h, k) == h + Sector + Record * k

\* Records follow each other without a gap.
LEMMA SlotFacts ==
    ASSUME NEW h \in Nat, NEW k \in Nat
    PROVE  /\ Slot(h, k) \in Nat
           /\ Slot(h, 0) = h + Sector
           /\ Slot(h, k + 1) = Slot(h, k) + Record
           /\ h + Sector <= Slot(h, k)
<1>1. Record * k \in Nat
  BY SectorAssumption
<1>2. Record * (k + 1) = Record * k + Record /\ Record * 0 = 0
  BY SectorAssumption
<1> QED BY <1>1, <1>2, SectorAssumption DEF Slot

\* A record ends before a later one begins.
LEMMA SlotOrder ==
    ASSUME NEW h \in Nat, NEW j \in Nat, NEW k \in Nat, j < k
    PROVE  Slot(h, j) + Record <= Slot(h, k)
<1>1. PICK d \in Nat : k = j + 1 + d
  <2>1. k - j - 1 \in Nat
    OBVIOUS
  <2> QED BY <2>1
<1>2. Record * k = Record * j + Record + Record * d
  BY <1>1, SectorAssumption
<1>3. Record * d \in Nat /\ Record * j \in Nat
  BY SectorAssumption
<1> QED BY <1>2, <1>3, SectorAssumption DEF Slot

\* What MaxPos allows for n records.
Weight(n) == n * (Sector + RoundUp(Record))

\* The sum and the order of weights.
LEMMA WeightFacts ==
    ASSUME NEW m \in Nat, NEW n \in Nat
    PROVE  /\ Weight(n) \in Nat
           /\ Weight(m + n) = Weight(m) + Weight(n)
           /\ m <= n => Weight(m) <= Weight(n)
<1> DEFINE w == Sector + RoundUp(Record)
<1>1. w \in Nat
  BY SectorAssumption, RoundUpMultiple
<1> HIDE DEF w
<1>2. ASSUME NEW a \in Nat PROVE a * w \in Nat
  BY <1>1
<1>3. (m + n) * w = m * w + n * w
  BY <1>1
<1>4. ASSUME m <= n PROVE m * w <= n * w
  <2>1. n - m \in Nat
    BY <1>4
  <2>2. n * w = m * w + (n - m) * w
    BY <1>1
  <2> QED BY <1>2, <2>1, <2>2
<1> QED BY <1>2, <1>3, <1>4 DEF Weight, w

\* A segment, and the next header behind a segment that has a record.
LEMMA SegmentFits ==
    ASSUME NEW h \in Nat, RoundUp(h) = h, NEW n \in Nat
    PROVE  /\ Slot(h, n) <= h + Weight(n) + Sector
           /\ n # 0 => RoundUp(Slot(h, n)) <= h + Weight(n)
<1>1. PICK q \in Nat : RoundUp(Record) = q * Sector
  BY SectorAssumption, RoundUpMultiple
<1>2. Record <= q * Sector /\ q * Sector \in Nat
  BY <1>1, SectorAssumption, RoundUpMultiple
<1>3. n * (Sector + RoundUp(Record)) = n * Sector + (q * n) * Sector
  BY <1>1, SectorAssumption
<1>4. Record * n <= (q * n) * Sector
  <2> DEFINE u == q * Sector
  <2>1. Record * n <= u * n
    <3>1. u \in Nat /\ Record <= u
      BY <1>2
    <3> HIDE DEF u
    <3>2. u - Record \in Nat
      BY <3>1, SectorAssumption
    <3>3. u * n = Record * n + (u - Record) * n
      BY <3>1, SectorAssumption
    <3>4. (u - Record) * n \in Nat
      BY <3>2
    <3> QED BY <3>3, <3>4, SectorAssumption
  <2>2. u * n = (q * n) * Sector
    BY SectorAssumption
  <2> QED BY <2>1, <2>2
<1>5. Record * n \in Nat /\ (q * n) * Sector \in Nat /\ n * Sector \in Nat /\ q * n \in Nat
  BY SectorAssumption
<1>6. n # 0 => Sector <= n * Sector
  <2> SUFFICES ASSUME n # 0 PROVE Sector <= n * Sector
    OBVIOUS
  <2>1. n - 1 \in Nat
    OBVIOUS
  <2>2. n * Sector = (n - 1) * Sector + Sector /\ (n - 1) * Sector \in Nat
    BY <2>1, SectorAssumption
  <2> QED BY <2>2, SectorAssumption
<1>7. Slot(h, n) <= h + Weight(n) + Sector
  BY <1>3, <1>4, <1>5, SectorAssumption DEF Slot, Weight
<1>8. ASSUME n # 0
      PROVE  RoundUp(Slot(h, n)) <= h + Weight(n)
  <2>1. RoundUp((q * n) * Sector) = (q * n) * Sector
    BY <1>5, RoundUpUnique, SectorAssumption
  <2>2. RoundUp(Record * n) <= (q * n) * Sector
    BY <1>4, <1>5, <2>1, RoundUpLeast
  <2>3. RoundUp(Sector + Record * n) = Sector + RoundUp(Record * n)
    BY <1>5, RoundUpSector, RoundUpBehind, SectorAssumption
  <2>4. RoundUp(h + (Sector + Record * n)) = h + RoundUp(Sector + Record * n)
    BY <1>5, RoundUpBehind, SectorAssumption
  <2>5. RoundUp(Slot(h, n)) = h + Sector + RoundUp(Record * n)
    <3>1. Slot(h, n) = h + (Sector + Record * n)
      BY <1>5, SectorAssumption DEF Slot
    <3>2. RoundUp(Record * n) \in Nat
      BY <1>5, RoundUpMultiple
    <3> QED BY <2>3, <2>4, <3>1, <3>2, SectorAssumption
  <2>6. RoundUp(Record * n) \in Nat
    BY <1>5, RoundUpMultiple
  <2> QED BY <1>3, <1>5, <1>6, <1>8, <2>2, <2>5, <2>6, SectorAssumption DEF Weight
<1> QED BY <1>7, <1>8

\* The journal has room for a transaction, and ends there.
LEMMA Positions ==
    /\ MaxPos \in Nat
    /\ MaxPos = Weight(NPages) + Sector
    /\ \A i \in Pos : i \in Nat
    /\ 0 \in Pos
<1>1. Weight(NPages) \in Nat
  BY NPagesAssumption, WeightFacts
<1> QED BY <1>1, SectorAssumption DEF MaxPos, Weight, Pos

------------------------------------------------------------------------------
(* What the writes make of the journal.                                     *)

\* cksumInit is drawn so that no older header or record has it.
LEMMA FreshDiffers ==
    ASSUME NEW file
    PROVE  /\ FreshNonce(file) \in Nonce
           /\ \A i \in Pos : file[i].init # FreshNonce(file)
<1> DEFINE f == [i \in Pos |-> file[i].init]
           used == {file[i].init : i \in Pos}
<1>1. f \in Surjection(Pos, used)
  BY DEF Surjection
<1>2. IsFiniteSet(Pos) /\ Cardinality(Pos) = MaxPos
  <2>1. 0 \in Int /\ MaxPos - 1 \in Int /\ MaxPos # 0
    BY Positions DEF Pos
  <2> QED BY <2>1, FS_Interval, Positions DEF Pos
<1>3. IsFiniteSet(used) /\ Cardinality(used) <= MaxPos
  <2> HIDE DEF f, used
  <2> QED BY <1>1, <1>2, FS_Surjection
<1>4. \E n \in Nonce : n \notin used
  <2> HIDE DEF used
  <2> SUFFICES ASSUME Nonce \subseteq used PROVE FALSE
    OBVIOUS
  <2>1. Cardinality(Nonce) <= Cardinality(used)
    BY <1>3, FS_Subset
  <2>2. Cardinality(Nonce) \in Nat /\ Cardinality(used) \in Nat
    BY <1>3, NonceAssumption, FS_CardinalityType
  <2> QED BY <1>3, <2>1, <2>2, NonceAssumption, Positions
<1>5. \E n \in Nonce : \A i \in Pos : file[i].init # n
  BY <1>4
<1> QED BY <1>5 DEF FreshNonce

\* The record of page p with contents db[p].
Original(db, p, init) ==
    [kind |-> "rec", magic |-> FALSE, num |-> p, init |-> init,
     sample |-> Sample(db[p]), data |-> db[p]]

\* A header as it is first written, and with magic and number of records.
NewHeader(init) == [EmptyCell EXCEPT !.kind = "hdr", !.init = init]
Marked(cell, n) == [cell EXCEPT !.magic = TRUE, !.num = n]

\* The fields of a header before its segment is synced.
LEMMA HeaderFields ==
    ASSUME NEW init
    PROVE  /\ NewHeader(init).kind = "hdr" /\ ~NewHeader(init).magic
           /\ NewHeader(init).num = 0 /\ NewHeader(init).init = init
BY DEF NewHeader, EmptyCell

\* syncJournal changes magic and nRec of a header and nothing else.
LEMMA MarkedFields ==
    ASSUME NEW cell \in Cells, NEW n \in 0 .. NPages
    PROVE  /\ Marked(cell, n) \in Cells
           /\ Marked(cell, n).kind = cell.kind /\ Marked(cell, n).magic
           /\ Marked(cell, n).num = n /\ Marked(cell, n).init = cell.init
BY DEF Marked, Cells, CellsOf

\* The units before `end` are as they were: headers, and records that do not
\* reach beyond.
SameBefore(old, new, end) ==
    \A i \in Pos : i < end /\ (old[i].kind = "rec" => i + Record <= end) =>
                      new[i] = old[i]

\* A unit nobody has written has its type.
LEMMA EmptyIsCell == EmptyCell \in Cells
<1>1. Sample(NoData) \in [Sampled -> Value \cup {Hole, 0}]
  BY PartAssumption DEF Sample, NoData, Part
<1> QED BY <1>1, NPagesAssumption DEF EmptyCell, Cells, CellsOf, NoData

\* What writeJournalHdr makes of journal j.
HeaderAt(j, w, start) ==
    /\ w \in Journals
    /\ w.off = start + Sector /\ w.hdr = start
    /\ w.nRec = j.nRec
    /\ j.size <= w.size /\ w.off <= w.size
    /\ w.file[start] = NewHeader(w.init)
    /\ SameBefore(j.file, w.file, start)
    /\ \A i \in Pos : w.file[i].kind = "rec" => w.file[i].init # w.init

\* writeJournalHdr writes one sector; it leaves what is before it, and no record
\* has the seed it draws.
LEMMA HeaderWritten ==
    ASSUME NEW j \in Journals, RoundUp(j.off) + Sector <= MaxPos
    PROVE  HeaderAt(j, WriteHeader(j), RoundUp(j.off))
<1> SUFFICES ASSUME NEW w, w = WriteHeader(j),
                    NEW start, start = RoundUp(j.off), start + Sector <= MaxPos
             PROVE  HeaderAt(j, w, start)
  OBVIOUS
<1> DEFINE init == FreshNonce(j.file)
           header == [EmptyCell EXCEPT !.kind = "hdr", !.init = init]
           last == start + Sector - 1
           file == [i \in Pos |-> IF i \in start .. last
                                  THEN header
                                  ELSE Wiped(j.file, i, start, last)]
<1>1. j.off \in Nat /\ j.off <= MaxPos /\ j.size \in Nat /\ j.size <= MaxPos
      /\ j.file \in [Pos -> Cells] /\ j.nRec \in 0 .. NPages
  BY DEF Journals, JournalsOf, Cells
<1>2. start \in Nat /\ start \in Pos
  <2>1. start \in Nat
    BY <1>1, RoundUpMultiple
  <2> QED BY <2>1, SectorAssumption, Positions DEF Pos
<1>3. init \in Nonce /\ \A i \in Pos : j.file[i].init # init
  BY <1>1, FreshDiffers
<1>4. header \in Cells
  BY <1>3, EmptyIsCell DEF Cells, CellsOf
<1>5. file \in [Pos -> Cells]
  BY <1>1, <1>4, EmptyIsCell DEF Wiped
<1>6. w = [file |-> file, size |-> LargerOf(j.size, start + Sector),
           off |-> start + Sector, hdr |-> start, nRec |-> j.nRec, init |-> init]
  BY DEF WriteHeader, Journals, JournalsOf, Cells
<1>7. LargerOf(j.size, start + Sector) \in 0 .. MaxPos
      /\ j.size <= LargerOf(j.size, start + Sector)
      /\ start + Sector <= LargerOf(j.size, start + Sector)
  BY <1>1, <1>2, SectorAssumption DEF LargerOf
<1>8. w \in Journals
  <2>1. start + Sector \in 0 .. MaxPos /\ start \in 0 .. MaxPos
    BY <1>2, SectorAssumption, Positions
  <2> HIDE DEF file, init, header
  <2> QED BY <1>1, <1>3, <1>5, <1>6, <1>7, <2>1 DEF Journals, JournalsOf, Cells
<1>9. w.file[start] = header
  BY <1>2, <1>6, SectorAssumption
<1>10. SameBefore(j.file, w.file, start)
  <2> SUFFICES ASSUME NEW i \in Pos, i < start,
                      j.file[i].kind = "rec" => i + Record <= start
               PROVE  file[i] = j.file[i]
    BY <1>6 DEF SameBefore
  <2>1. i \in Nat /\ i \notin start .. last
    BY <1>2, Positions
  <2> QED BY <1>2, <2>1, SectorAssumption DEF Wiped
<1>11. ASSUME NEW i \in Pos, file[i].kind = "rec"
       PROVE  file[i].init # init
  <2>1. header.kind = "hdr" /\ EmptyCell.kind = "none"
    BY DEF EmptyCell
  <2>2. file[i] # header /\ file[i] # EmptyCell
    <3> HIDE DEF header, file
    <3> QED BY <1>11, <2>1
  <2>3. file[i] = j.file[i]
    BY <2>2 DEF Wiped
  <2> QED BY <1>3, <2>3
<1>12. /\ w.off = start + Sector /\ w.hdr = start /\ w.nRec = j.nRec /\ w.init = init
       /\ w.file = file /\ w.size = LargerOf(j.size, start + Sector)
  BY <1>6
<1> HIDE DEF file, init
<1>13. w.file[start] = NewHeader(w.init)
  BY <1>9, <1>12 DEF header, NewHeader
<1> HIDE DEF header
<1> QED BY <1>7, <1>8, <1>10, <1>11, <1>12, <1>13 DEF HeaderAt

------------------------------------------------------------------------------
\* PosOf numbers the pages of a set without gaps.
LEMMA Ranks ==
    ASSUME NEW pages \in SUBSET Page
    PROVE  /\ IsFiniteSet(pages) /\ Cardinality(pages) \in Nat
           /\ Cardinality(pages) <= NPages
           /\ \A p \in pages : Cardinality({q \in pages : q < p}) \in 0 .. Cardinality(pages) - 1
           /\ \A p, r \in pages : Cardinality({q \in pages : q < p}) = Cardinality({q \in pages : q < r})
                                     => p = r
           /\ \A k \in 0 .. Cardinality(pages) - 1 :
                 \E p \in pages : Cardinality({q \in pages : q < p}) = k
<1> DEFINE Below(p) == {q \in pages : q < p}
           n == Cardinality(pages)
<1>1. IsFiniteSet(Page) /\ Cardinality(Page) = NPages
  <2>1. 1 \in Int /\ NPages \in Int /\ ~(1 > NPages)
    BY NPagesAssumption
  <2> QED BY <2>1, FS_Interval DEF Page
<1>2. IsFiniteSet(pages) /\ n \in Nat /\ n <= NPages
  BY <1>1, FS_Subset, FS_CardinalityType
<1>3. ASSUME NEW p \in pages
      PROVE  IsFiniteSet(Below(p)) /\ Cardinality(Below(p)) \in 0 .. n - 1
  <2>1. Below(p) \in SUBSET pages /\ Below(p) # pages
    BY DEF Page
  <2>2. IsFiniteSet(Below(p)) /\ Cardinality(Below(p)) <= n /\ Cardinality(Below(p)) # n
    BY <1>2, <2>1, FS_Subset
  <2>3. Cardinality(Below(p)) \in Nat
    BY <2>2, FS_CardinalityType
  <2> QED BY <1>2, <2>2, <2>3
<1>4. ASSUME NEW p \in pages, NEW r \in pages, p < r
      PROVE  Cardinality(Below(p)) < Cardinality(Below(r))
  <2>1. Below(p) \in SUBSET Below(r) /\ p \in Below(r) /\ p \notin Below(p)
    <3>1. p \in Int /\ r \in Int /\ \A q \in pages : q \in Int
      BY NPagesAssumption DEF Page
    <3>2. ~(p < p)
      BY <3>1
    <3>3. \A q \in pages : q < p => q < r
      BY <1>4, <3>1
    <3> QED BY <1>4, <3>2, <3>3
  <2>2. Cardinality(Below(p)) <= Cardinality(Below(r))
        /\ Cardinality(Below(p)) # Cardinality(Below(r))
    BY <1>3, <2>1, FS_Subset
  <2>3. Cardinality(Below(p)) \in Nat /\ Cardinality(Below(r)) \in Nat
    <3>1. IsFiniteSet(Below(p)) /\ IsFiniteSet(Below(r))
      BY <1>3
    <3> QED BY <3>1, FS_CardinalityType
  <2> HIDE DEF Below, n
  <2> QED BY <2>2, <2>3
<1>5. ASSUME NEW p \in pages, NEW r \in pages, Cardinality(Below(p)) = Cardinality(Below(r))
      PROVE  p = r
  <2>1. p \in Nat /\ r \in Nat /\ Cardinality(Below(p)) \in Nat
    BY <1>2, <1>3 DEF Page
  <2> QED BY <1>4, <1>5, <2>1
<1> DEFINE f == [p \in pages |-> Cardinality(Below(p))]
<1>6. f \in Injection(pages, 0 .. n - 1)
  BY <1>3, <1>5 DEF Injection, IsInjective
<1>7. IsFiniteSet(0 .. n - 1) /\ Cardinality(0 .. n - 1) = n
  <2>1. 0 \in Int /\ n - 1 \in Int
    BY <1>2
  <2> HIDE DEF n
  <2> QED BY <1>2, <2>1, FS_Interval
<1>8. f \in Surjection(pages, 0 .. n - 1)
  <2> HIDE DEF f
  <2> QED BY <1>6, <1>7, FS_Injection
<1>9. \A k \in 0 .. n - 1 : \E p \in pages : Cardinality(Below(p)) = k
  BY <1>8 DEF Surjection
<1> QED BY <1>2, <1>3, <1>5, <1>9

\* A record has its type.
LEMMA OriginalIsCell ==
    ASSUME NEW db \in Database, NEW p \in Page, NEW init \in Nonce \cup {0}
    PROVE  Original(db, p, init) \in Cells
<1>1. db[p] \in [Part -> Value \cup {0}]
  BY DEF Database
<1>2. Sample(db[p]) \in [Sampled -> Value \cup {0}]
  BY <1>1, PartAssumption DEF Sample, Part
<1>3. /\ db[p] \in [Part -> Value \cup {Hole, 0}]
      /\ Sample(db[p]) \in [Sampled -> Value \cup {Hole, 0}]
  BY <1>1, <1>2
<1>4. p \in 0 .. NPages
  BY NPagesAssumption DEF Page
<1> QED BY <1>3, <1>4 DEF Original, Cells, CellsOf

\* pagerAddPageToRollbackJournal puts one record per page behind what is there,
\* with the seed of the segment; it creates no other record.
LEMMA RecordsAdded ==
    ASSUME NEW j \in Journals, NEW pages \in SUBSET Page, NEW db \in Database, NEW stop,
           Whole(j, pages, db, stop),
           NEW w, w = AddRecords(j, pages, db, stop),
           NEW n, n = Cardinality(pages),
           j.off + Record * n <= MaxPos, j.nRec + n <= NPages
    PROVE  /\ n \in Nat
           /\ w \in Journals
           /\ w.off = j.off + Record * n
           /\ w.hdr = j.hdr /\ w.init = j.init
           /\ w.nRec = j.nRec + n
           /\ j.size <= w.size /\ w.off <= w.size
           /\ SameBefore(j.file, w.file, j.off)
           /\ \A k \in 0 .. n - 1 : /\ j.off + Record * k \in Pos
                                    /\ \E p \in pages : w.file[j.off + Record * k] = Original(db, p, j.init)
           /\ \A p \in pages : \E k \in 0 .. n - 1 :
                 w.file[j.off + Record * k] = Original(db, p, j.init)
           /\ \A i \in Pos : w.file[i].kind = "rec" =>
                 \/ w.file[i] = j.file[i]
                 \/ \E k \in 0 .. n - 1 : i = j.off + Record * k
<1> DEFINE rank(p) == Cardinality({q \in pages : q < p})
           pos(p) == j.off + Record * rank(p)
           end == j.off + Record * n
           RecordOf(p, old) ==
              [kind |-> "rec", magic |-> FALSE, num |-> p, init |-> j.init,
               sample |-> Sample(db[p]), data |-> Stored(old, db[p], stop[p])]
           file == [i \in Pos |->
                       IF \E p \in pages : pos(p) = i
                       THEN RecordOf(CHOOSE p \in pages : pos(p) = i, j.file[i].data)
                       ELSE Wiped(j.file, i, j.off, end - 1)]
<1>1. j.off \in Nat /\ j.off <= MaxPos /\ j.size \in Nat /\ j.size <= MaxPos
      /\ j.file \in [Pos -> Cells] /\ j.nRec \in 0 .. NPages /\ j.init \in Nonce \cup {0}
      /\ j.hdr \in 0 .. MaxPos
  BY DEF Journals, JournalsOf, Cells
<1>2. n \in Nat /\ n <= NPages /\ n = Cardinality(pages)
  BY Ranks
<1>3. \A p \in pages : rank(p) \in 0 .. n - 1
  BY Ranks
<1>4. \A p, r \in pages : rank(p) = rank(r) => p = r
  BY Ranks
<1>5. \A k \in 0 .. n - 1 : \E p \in pages : rank(p) = k
  BY Ranks
<1>6. w = [file |-> file, size |-> LargerOf(j.size, end), off |-> end,
           hdr |-> j.hdr, nRec |-> j.nRec + n, init |-> j.init]
  BY DEF AddRecords, PosOf, Journals, JournalsOf, Cells
<1> HIDE DEF rank
<1>7. ASSUME NEW a \in Nat, NEW b \in Nat, a < b
      PROVE  Record * a + Record <= Record * b
  <2>1. PICK d \in Nat : b = a + 1 + d
    <3>1. b - a - 1 \in Nat
      BY <1>7
    <3> QED BY <3>1
  <2>2. Record * b = Record * a + Record + Record * d
    BY <2>1, SectorAssumption
  <2>3. Record * d \in Nat /\ Record * a \in Nat
    BY SectorAssumption
  <2> QED BY <2>2, <2>3, SectorAssumption
<1>8. \A a \in Nat : Record * a \in Nat
  BY SectorAssumption
<1>9. end \in Nat /\ j.off <= end /\ end <= MaxPos
  BY <1>1, <1>2, <1>8
<1>10. \A k \in 0 .. n - 1 : j.off + Record * k \in Pos /\ j.off + Record * k >= j.off
  <2> SUFFICES ASSUME NEW k \in 0 .. n - 1
               PROVE  j.off + Record * k \in Pos /\ j.off + Record * k >= j.off
    OBVIOUS
  <2>1. k \in Nat /\ k < n
    BY <1>2
  <2>2. Record * k + Record <= Record * n
    BY <1>2, <1>7, <2>1
  <2> DEFINE x == Record * k
             y == Record * n
  <2>3. x \in Nat /\ x + Record <= y /\ j.off + y <= MaxPos /\ y \in Nat
    BY <1>2, <1>8, <2>1, <2>2
  <2> HIDE DEF x, y
  <2>4. j.off + x \in 0 .. MaxPos - 1 /\ j.off + x >= j.off
    BY <1>1, <2>3, SectorAssumption, Positions
  <2> QED BY <2>4 DEF x, Pos
<1>11. \A p, r \in pages : pos(p) = pos(r) => p = r
  <2> SUFFICES ASSUME NEW p \in pages, NEW r \in pages, pos(p) = pos(r)
               PROVE  p = r
    OBVIOUS
  <2>1. rank(p) \in Nat /\ rank(r) \in Nat
    BY <1>2, <1>3
  <2>2. Record * rank(p) = Record * rank(r)
    BY <1>1, <1>8, <2>1
  <2>3. ~(rank(p) < rank(r))
    BY <1>7, <1>8, <2>1, <2>2, SectorAssumption
  <2>4. ~(rank(r) < rank(p))
    BY <1>7, <1>8, <2>1, <2>2, SectorAssumption
  <2> QED BY <1>4, <2>1, <2>3, <2>4
<1>12. ASSUME NEW p \in pages
       PROVE  RecordOf(p, j.file[pos(p)].data) = Original(db, p, j.init)
  <2>1. Stored(j.file[pos(p)].data, db[p], stop[p]) = db[p]
    BY DEF Whole, PosOf, rank
  <2> HIDE DEF pos
  <2> QED BY <2>1 DEF Original
<1>13. ASSUME NEW p \in pages
       PROVE  pos(p) \in Pos /\ file[pos(p)] = Original(db, p, j.init)
  <2>1. pos(p) \in Pos
    BY <1>3, <1>10
  <2>2. (CHOOSE r \in pages : pos(r) = pos(p)) = p
    BY <1>11
  <2> HIDE DEF pos, RecordOf
  <2>3. file[pos(p)] = RecordOf(p, j.file[pos(p)].data)
    BY <2>1, <2>2
  <2> QED BY <2>1, <2>3, <1>12
<1>14. file \in [Pos -> Cells]
  <2> SUFFICES ASSUME NEW i \in Pos PROVE file[i] \in Cells
    OBVIOUS
  <2>1. CASE \E p \in pages : pos(p) = i
    <3>1. PICK p \in pages : pos(p) = i
      BY <2>1
    <3>2. Original(db, p, j.init) \in Cells
      BY <1>1, OriginalIsCell
    <3> QED BY <3>1, <3>2, <1>13
  <2>2. CASE ~\E p \in pages : pos(p) = i
    BY <2>2, <1>1, EmptyIsCell DEF Wiped
  <2> QED BY <2>1, <2>2
<1>15. SameBefore(j.file, file, j.off)
  <2> SUFFICES ASSUME NEW i \in Pos, i < j.off,
                      j.file[i].kind = "rec" => i + Record <= j.off
               PROVE  file[i] = j.file[i]
    BY DEF SameBefore
  <2>1. ~\E p \in pages : pos(p) = i
    BY <1>1, <1>3, <1>10, Positions
  <2>2. file[i] = Wiped(j.file, i, j.off, end - 1)
    BY <2>1
  <2> QED BY <1>1, <2>2, SectorAssumption, Positions DEF Wiped
<1>16. ASSUME NEW k \in 0 .. n - 1
       PROVE  \E p \in pages : file[j.off + Record * k] = Original(db, p, j.init)
  BY <1>5, <1>13
<1>17. ASSUME NEW p \in pages
       PROVE  \E k \in 0 .. n - 1 : file[j.off + Record * k] = Original(db, p, j.init)
  BY <1>3, <1>13
<1>18. ASSUME NEW i \in Pos, file[i].kind = "rec"
       PROVE  file[i] = j.file[i] \/ \E k \in 0 .. n - 1 : i = j.off + Record * k
  <2>1. CASE \E p \in pages : pos(p) = i
    BY <2>1, <1>3
  <2>2. CASE ~\E p \in pages : pos(p) = i
    <3>1. file[i] = Wiped(j.file, i, j.off, end - 1)
      BY <2>2
    <3> QED BY <3>1, <1>18 DEF Wiped, EmptyCell
  <2> QED BY <2>1, <2>2
<1>19. /\ LargerOf(j.size, end) \in 0 .. MaxPos
       /\ j.size <= LargerOf(j.size, end) /\ end <= LargerOf(j.size, end)
  BY <1>1, <1>9 DEF LargerOf
<1> HIDE DEF file, end
<1>20. w \in Journals
  <2>1. end \in 0 .. MaxPos /\ j.nRec + n \in 0 .. NPages
    BY <1>1, <1>2, <1>9, NPagesAssumption, Positions
  <2> QED BY <1>1, <1>6, <1>14, <1>19, <2>1 DEF Journals, JournalsOf, Cells
<1>21. w.file = file /\ w.size = LargerOf(j.size, end) /\ w.off = end
       /\ w.hdr = j.hdr /\ w.init = j.init /\ w.nRec = j.nRec + n
  BY <1>6
<1> QED BY <1>2, <1>10, <1>15, <1>16, <1>17, <1>18, <1>19, <1>20, <1>21 DEF end

------------------------------------------------------------------------------
(* The journal of a transaction that is under way: a chain of segments, each *)
(* with a header at an aligned offset in H and its records behind it, and    *)
(* behind the last header the records that are not synced.                   *)

\* n records at h, each with what the transaction found.
Segment(f, db, h, n) ==
    \A k \in 0 .. n - 1 :
        /\ Slot(h, k) \in Pos
        /\ \E p \in Page : f[Slot(h, k)] = Original(db, p, f[h].init)

PagesIn(f, h, n) == {f[Slot(h, k)].num : k \in 0 .. n - 1}

\* The synced segments, and the header of the one that is not.
Chain(f, db, H, last) ==
    /\ 0 \in H /\ last \in H
    /\ \A h \in H : RoundUp(h) = h /\ f[h].kind = "hdr" /\ h <= last
    /\ ~f[last].magic /\ f[last].num = 0
    /\ \A h \in H \ {last} :
          /\ f[h].magic
          /\ Segment(f, db, h, f[h].num)
          /\ RoundUp(Slot(h, f[h].num)) \in H
          /\ \A g \in H : h < g => Slot(h, f[h].num) <= g

\* The pages with a record that is synced.
Covered(f, H, last) == {p \in Page : \E h \in H \ {last} : p \in PagesIn(f, h, f[h].num)}

\* The n records behind the last header: no other record of the file has
\* the checksum seed of that header.
LastSegment(f, db, last, n) ==
    /\ Segment(f, db, last, n)
    /\ \A i \in Pos : f[i].kind = "rec" /\ f[i].init = f[last].init =>
                         \E k \in 0 .. n - 1 : i = Slot(last, k)

------------------------------------------------------------------------------
(* What a write behind the chain leaves of it.                              *)

\* Shapes of the numbers a chain is made of.
LEMMA ChainNumbers ==
    ASSUME NEW f \in [Pos -> Cells], NEW db, NEW H \in SUBSET Pos, NEW last \in H,
           Chain(f, db, H, last)
    PROVE  /\ last \in Nat
           /\ \A h \in H : h \in Nat /\ h <= last /\ f[h].num \in 0 .. NPages
           /\ \A h \in H \ {last} : h < last /\ Slot(h, f[h].num) <= last
           /\ \A h \in H \ {last} : \A k \in 0 .. f[h].num - 1 :
                 /\ Slot(h, k) \in Pos
                 /\ h < Slot(h, k)
                 /\ Slot(h, k) + Record <= Slot(h, f[h].num)
                 /\ Slot(h, k) + Record <= last
                 /\ f[Slot(h, k)].num \in Page
<1>1. \A h \in H : h \in Nat /\ h <= last /\ f[h].num \in 0 .. NPages
  BY Positions DEF Chain, Cells, CellsOf
<1>2. ASSUME NEW h \in H \ {last}
      PROVE  h < last /\ Slot(h, f[h].num) <= last
  <2>1. h < last
    BY <1>1
  <2> QED BY <2>1 DEF Chain
<1>3. ASSUME NEW h \in H \ {last}, NEW k \in 0 .. f[h].num - 1
      PROVE  /\ Slot(h, k) \in Pos
             /\ h < Slot(h, k)
             /\ Slot(h, k) + Record <= Slot(h, f[h].num)
             /\ Slot(h, k) + Record <= last
             /\ f[Slot(h, k)].num \in Page
  <2>1. k \in Nat /\ f[h].num \in Nat /\ k < f[h].num /\ h \in Nat
    BY <1>1, NPagesAssumption
  <2>2. Slot(h, k) + Record <= Slot(h, f[h].num)
    BY <2>1, SlotOrder
  <2>3. Slot(h, k) \in Nat /\ Slot(h, f[h].num) \in Nat /\ h + Sector <= Slot(h, k)
    BY <2>1, SlotFacts
  <2>4. Segment(f, db, h, f[h].num)
    BY DEF Chain
  <2>5. Slot(h, k) \in Pos /\ f[Slot(h, k)].num \in Page
    <3>1. Slot(h, k) \in Pos /\ \E p \in Page : f[Slot(h, k)] = Original(db, p, f[h].init)
      BY <2>4 DEF Segment
    <3> QED BY <3>1 DEF Original
  <2> QED BY <1>1, <1>2, <2>1, <2>2, <2>3, <2>5, SectorAssumption
<1> QED BY <1>1, <1>2, <1>3

\* Of SameBefore, what concerns records.
RecordsBefore(old, new, end) ==
    \A i \in Pos : old[i].kind = "rec" /\ i + Record <= end => new[i] = old[i]

\* What leaves the units alone leaves the records alone.
LEMMA SameRecords ==
    ASSUME NEW f, NEW g, NEW e \in Nat, SameBefore(f, g, e)
    PROVE  RecordsBefore(f, g, e)
BY SectorAssumption, Positions DEF SameBefore, RecordsBefore

\* A segment survives what is written behind it.
LEMMA SegmentKept ==
    ASSUME NEW f \in [Pos -> Cells], NEW g \in [Pos -> Cells], NEW db,
           NEW h \in Pos, NEW n \in Nat, NEW e \in Nat,
           Segment(f, db, h, n), Slot(h, n) <= e, RecordsBefore(f, g, e),
           g[h].init = f[h].init
    PROVE  Segment(g, db, h, n) /\ PagesIn(g, h, n) = PagesIn(f, h, n)
<1>1. ASSUME NEW k \in 0 .. n - 1
      PROVE  Slot(h, k) \in Pos /\ g[Slot(h, k)] = f[Slot(h, k)]
  <2>1. k \in Nat /\ k < n /\ h \in Nat
    BY Positions
  <2>2. Slot(h, k) + Record <= e /\ Slot(h, k) < e
    <3>1. Slot(h, k) + Record <= Slot(h, n)
      BY <2>1, SlotOrder
    <3>2. Slot(h, k) \in Nat /\ Slot(h, n) \in Nat
      BY <2>1, SlotFacts
    <3> QED BY <3>1, <3>2, SectorAssumption
  <2>3. Slot(h, k) \in Pos /\ f[Slot(h, k)].kind = "rec"
    <3>1. Slot(h, k) \in Pos /\ \E p \in Page : f[Slot(h, k)] = Original(db, p, f[h].init)
      BY DEF Segment
    <3> QED BY <3>1 DEF Original
  <2> QED BY <2>2, <2>3 DEF RecordsBefore
<1> QED BY <1>1 DEF Segment, PagesIn

\* So does the chain.
LEMMA ChainKept ==
    ASSUME NEW f \in [Pos -> Cells], NEW g \in [Pos -> Cells], NEW db,
           NEW H \in SUBSET Pos, NEW last \in H, NEW e \in Nat,
           Chain(f, db, H, last), SameBefore(f, g, e), last < e
    PROVE  /\ Chain(g, db, H, last)
           /\ Covered(g, H, last) = Covered(f, H, last)
           /\ g[last] = f[last]
<1>1. ASSUME NEW h \in H
      PROVE  g[h] = f[h]
  <2>1. h \in Nat /\ h <= last /\ f[h].kind = "hdr"
    <3>1. f[h].kind = "hdr"
      BY DEF Chain
    <3> QED BY <3>1, ChainNumbers
  <2> QED BY <2>1, Positions DEF SameBefore
<1>2. ASSUME NEW h \in H \ {last}
      PROVE  Segment(g, db, h, f[h].num) /\ PagesIn(g, h, f[h].num) = PagesIn(f, h, f[h].num)
  <2>1. Segment(f, db, h, f[h].num) /\ f[h].num \in Nat /\ Slot(h, f[h].num) <= last /\ h \in Nat
    <3>1. f[h].num \in 0 .. NPages /\ Slot(h, f[h].num) <= last /\ h \in Nat
      BY ChainNumbers
    <3>2. Segment(f, db, h, f[h].num)
      BY DEF Chain
    <3> QED BY <3>1, <3>2, NPagesAssumption
  <2>2. Slot(h, f[h].num) <= e
    <3>1. Slot(h, f[h].num) \in Nat /\ last \in Nat
      BY <2>1, SlotFacts, Positions
    <3> QED BY <2>1, <3>1
  <2> QED BY <1>1, <2>1, <2>2, SegmentKept, SameRecords
<1>3. Chain(g, db, H, last)
  BY <1>1, <1>2 DEF Chain
<1>4. Covered(g, H, last) = Covered(f, H, last)
  BY <1>1, <1>2 DEF Covered
<1> QED BY <1>1, <1>3, <1>4

\* The pages get m records from `start` on, and no other record appears.
RecordsFrom(old, new, db, pages, start, m, init) ==
    /\ SameBefore(old, new, start)
    /\ \A k \in 0 .. m - 1 :
          /\ start + Record * k \in Pos
          /\ \E p \in pages : new[start + Record * k] = Original(db, p, init)
    /\ \A p \in pages : \E k \in 0 .. m - 1 : new[start + Record * k] = Original(db, p, init)
    /\ \A i \in Pos : new[i].kind = "rec" =>
          \/ new[i] = old[i]
          \/ \E k \in 0 .. m - 1 : i = start + Record * k

LongerBy(old, new, db, last, n, m, pages) ==
    /\ LastSegment(new, db, last, n + m)
    /\ PagesIn(new, last, n + m) = PagesIn(old, last, n) \cup pages

\* Records added behind the tail.
LEMMA TailExtended ==
    ASSUME NEW f \in [Pos -> Cells], NEW g \in [Pos -> Cells], NEW db,
           NEW last \in Pos, NEW n \in Nat, NEW m \in Nat,
           NEW pages \in SUBSET Page,
           f[last].kind = "hdr",
           LastSegment(f, db, last, n),
           RecordsFrom(f, g, db, pages, Slot(last, n), m, f[last].init)
    PROVE  LongerBy(f, g, db, last, n, m, pages)
<1>0. /\ SameBefore(f, g, Slot(last, n))
      /\ \A k \in 0 .. m - 1 :
            /\ Slot(last, n) + Record * k \in Pos
            /\ \E p \in pages : g[Slot(last, n) + Record * k] = Original(db, p, f[last].init)
      /\ \A p \in pages : \E k \in 0 .. m - 1 :
            g[Slot(last, n) + Record * k] = Original(db, p, f[last].init)
      /\ \A i \in Pos : g[i].kind = "rec" =>
            \/ g[i] = f[i]
            \/ \E k \in 0 .. m - 1 : i = Slot(last, n) + Record * k
  BY DEF RecordsFrom
<1>1. last \in Nat /\ Slot(last, n) \in Nat /\ last < Slot(last, n)
  <2>1. last \in Nat
    BY Positions
  <2>2. Slot(last, n) \in Nat /\ last + Sector <= Slot(last, n)
    BY <2>1, SlotFacts
  <2> QED BY <2>1, <2>2, SectorAssumption
<1>2. g[last] = f[last]
  BY <1>0, <1>1 DEF SameBefore
<1>3. Segment(g, db, last, n) /\ PagesIn(g, last, n) = PagesIn(f, last, n)
  <2>1. Segment(f, db, last, n) /\ g[last].init = f[last].init
    BY <1>2 DEF LastSegment
  <2>2. Slot(last, n) <= Slot(last, n)
    BY <1>1
  <2> QED BY <1>0, <1>1, <2>1, <2>2, SegmentKept, SameRecords
<1>4. \A k \in Nat : Slot(last, n) + Record * k = Slot(last, n + k)
  <2> SUFFICES ASSUME NEW k \in Nat PROVE Slot(last, n) + Record * k = Slot(last, n + k)
    OBVIOUS
  <2>1. Record * (n + k) = Record * n + Record * k
    BY SectorAssumption
  <2>2. Record * n \in Nat /\ Record * k \in Nat
    BY SectorAssumption
  <2> QED BY <1>1, <2>1, <2>2, SectorAssumption DEF Slot
<1>5. ASSUME NEW k \in 0 .. (n + m) - 1
      PROVE  \/ k \in 0 .. n - 1
             \/ k - n \in 0 .. m - 1 /\ Slot(last, k) = Slot(last, n) + Record * (k - n)
  <2>1. CASE k < n
    BY <2>1
  <2>2. CASE ~(k < n)
    <3>1. k - n \in 0 .. m - 1 /\ k - n \in Nat /\ n + (k - n) = k
      BY <2>2
    <3> QED BY <3>1, <1>4
  <2> QED BY <2>1, <2>2
<1>6. Segment(g, db, last, n + m)
  <2> SUFFICES ASSUME NEW k \in 0 .. (n + m) - 1
               PROVE  /\ Slot(last, k) \in Pos
                      /\ \E p \in Page : g[Slot(last, k)] = Original(db, p, g[last].init)
    BY DEF Segment
  <2>1. CASE k \in 0 .. n - 1
    BY <2>1, <1>3 DEF Segment
  <2>2. CASE k - n \in 0 .. m - 1 /\ Slot(last, k) = Slot(last, n) + Record * (k - n)
    BY <1>0, <2>2, <1>2
  <2> QED BY <1>5, <2>1, <2>2
<1>7. \A k \in 0 .. m - 1 : n + k \in 0 .. (n + m) - 1 /\ Slot(last, n) + Record * k = Slot(last, n + k)
  BY <1>4
<1>8. \A k \in 0 .. n - 1 : k \in 0 .. (n + m) - 1
  OBVIOUS
<1>9. ASSUME NEW i \in Pos, g[i].kind = "rec", g[i].init = g[last].init
      PROVE  \E k \in 0 .. (n + m) - 1 : i = Slot(last, k)
  <2>1. CASE g[i] = f[i]
    BY <2>1, <1>2, <1>8, <1>9 DEF LastSegment
  <2>2. CASE \E k \in 0 .. m - 1 : i = Slot(last, n) + Record * k
    BY <2>2, <1>7
  <2> QED BY <1>0, <1>9, <2>1, <2>2
<1>10. PagesIn(g, last, n + m) \subseteq PagesIn(f, last, n) \cup pages
  <2> SUFFICES ASSUME NEW k \in 0 .. (n + m) - 1
               PROVE  g[Slot(last, k)].num \in PagesIn(f, last, n) \cup pages
    BY DEF PagesIn
  <2>1. CASE k \in 0 .. n - 1
    <3>1. g[Slot(last, k)].num \in PagesIn(g, last, n)
      BY <2>1 DEF PagesIn
    <3> QED BY <1>3, <3>1
  <2>2. CASE k - n \in 0 .. m - 1 /\ Slot(last, k) = Slot(last, n) + Record * (k - n)
    <3>1. PICK p \in pages : g[Slot(last, k)] = Original(db, p, f[last].init)
      BY <1>0, <2>2
    <3>2. g[Slot(last, k)].num = p
      BY <3>1 DEF Original
    <3> QED BY <3>2
  <2> QED BY <1>5, <2>1, <2>2
<1>11. PagesIn(f, last, n) \subseteq PagesIn(g, last, n + m)
  <2>1. PagesIn(g, last, n) \subseteq PagesIn(g, last, n + m)
    BY <1>8 DEF PagesIn
  <2> QED BY <1>3, <2>1
<1>12. pages \subseteq PagesIn(g, last, n + m)
  <2> SUFFICES ASSUME NEW p \in pages
               PROVE  \E k \in 0 .. (n + m) - 1 : g[Slot(last, k)].num = p
    BY DEF PagesIn
  <2>1. PICK k \in 0 .. m - 1 : g[Slot(last, n) + Record * k] = Original(db, p, f[last].init)
    BY <1>0
  <2>2. g[Slot(last, n + k)].num = p
    BY <2>1, <1>7 DEF Original
  <2> QED BY <2>2, <1>7
<1>13. LastSegment(g, db, last, n + m)
  BY <1>6, <1>9 DEF LastSegment
<1> QED BY <1>10, <1>11, <1>12, <1>13 DEF LongerBy

SegmentEnded(old, new, H, last, n, start, init) ==
    /\ new[last] = Marked(old[last], n)
    /\ \A h \in H \ {last} : new[h] = old[h]
    /\ RecordsBefore(old, new, Slot(last, n))
    /\ new[start] = NewHeader(init)
    /\ \A i \in Pos : new[i].kind = "rec" => new[i].init # init

SegmentBegun(old, new, db, H, last, n, start) ==
    /\ Chain(new, db, H \cup {start}, start)
    /\ LastSegment(new, db, start, 0)
    /\ Covered(new, H \cup {start}, start) = Covered(old, H, last) \cup PagesIn(old, last, n)

\* The tail becomes a segment when its header gets magic and number, and the
\* header behind it starts another tail.
LEMMA ChainSynced ==
    ASSUME NEW f \in [Pos -> Cells], NEW g \in [Pos -> Cells], NEW db,
           NEW H \in SUBSET Pos, NEW last \in H, NEW n \in 0 .. NPages,
           NEW start \in Pos, start = RoundUp(Slot(last, n)),
           NEW init,
           Chain(f, db, H, last), LastSegment(f, db, last, n),
           SegmentEnded(f, g, H, last, n, start, init)
    PROVE  SegmentBegun(f, g, db, H, last, n, start)
<1>0. /\ g[last] = Marked(f[last], n)
      /\ \A h \in H \ {last} : g[h] = f[h]
      /\ RecordsBefore(f, g, Slot(last, n))
      /\ g[start] = NewHeader(init)
      /\ \A i \in Pos : g[i].kind = "rec" => g[i].init # init
  BY DEF SegmentEnded
<1>1. n \in Nat /\ last \in Nat /\ start \in Nat
  BY NPagesAssumption, Positions
<1>2. Slot(last, n) \in Nat /\ last + Sector <= Slot(last, n)
  BY <1>1, SlotFacts
<1>3. Slot(last, n) <= start /\ last < start
  BY <1>1, <1>2, RoundUpMultiple, SectorAssumption
<1>4. RoundUp(start) = start
  BY <1>2, RoundUpSector
<1>5. g[last].kind = f[last].kind /\ g[last].magic /\ g[last].num = n /\ g[last].init = f[last].init
  <2>1. f[last] \in Cells
    OBVIOUS
  <2> QED BY <1>0, <2>1, MarkedFields
<1>6. g[start].kind = "hdr" /\ ~g[start].magic /\ g[start].num = 0 /\ g[start].init = init
  BY <1>0, HeaderFields
<1>7. ASSUME NEW h \in H \ {last}
      PROVE  Segment(g, db, h, f[h].num) /\ PagesIn(g, h, f[h].num) = PagesIn(f, h, f[h].num)
  <2>1. h \in Nat /\ f[h].num \in 0 .. NPages /\ Slot(h, f[h].num) <= last
    BY ChainNumbers
  <2>2. f[h].num \in Nat /\ Slot(h, f[h].num) \in Nat
    <3>1. f[h].num \in Nat
      BY <2>1, NPagesAssumption
    <3> QED BY <2>1, <3>1, SlotFacts
  <2>3. Slot(h, f[h].num) <= Slot(last, n)
    BY <1>1, <1>2, <2>1, <2>2, SectorAssumption
  <2>4. Segment(f, db, h, f[h].num) /\ g[h].init = f[h].init
    BY <1>0 DEF Chain
  <2> QED BY <1>0, <1>2, <2>2, <2>3, <2>4, SegmentKept
<1>8. Segment(g, db, last, n) /\ PagesIn(g, last, n) = PagesIn(f, last, n)
  <2>1. Segment(f, db, last, n) /\ Slot(last, n) <= Slot(last, n)
    BY <1>2 DEF LastSegment
  <2>2. last \in Pos
    OBVIOUS
  <2> QED BY <1>0, <1>1, <1>2, <1>5, <2>1, <2>2, SegmentKept
<1>9. \A h \in H : h \in Nat /\ h <= last /\ h < start
  <2>1. \A h \in H : h \in Nat /\ h <= last
    BY ChainNumbers
  <2> QED BY <1>1, <1>3, <2>1
<1>10. start \notin H /\ (H \cup {start}) \ {start} = (H \ {last}) \cup {last}
  BY <1>1, <1>9
<1>11. ASSUME NEW h \in H \ {last}
       PROVE  /\ g[h].magic
              /\ Segment(g, db, h, g[h].num)
              /\ RoundUp(Slot(h, g[h].num)) \in H \cup {start}
              /\ \A i \in H \cup {start} : h < i => Slot(h, g[h].num) <= i
  <2>1. g[h] = f[h]
    BY <1>0
  <2>2. Slot(h, f[h].num) <= start
    <3>1. h \in Nat /\ f[h].num \in 0 .. NPages /\ Slot(h, f[h].num) <= last
      BY ChainNumbers
    <3>2. Slot(h, f[h].num) \in Nat
      <4>1. f[h].num \in Nat
        BY <3>1, NPagesAssumption
      <4> QED BY <3>1, <4>1, SlotFacts
    <3> QED BY <1>1, <1>3, <3>1, <3>2
  <2> QED BY <1>7, <2>1, <2>2 DEF Chain
<1>12. /\ g[last].magic
       /\ Segment(g, db, last, g[last].num)
       /\ RoundUp(Slot(last, g[last].num)) \in H \cup {start}
       /\ \A i \in H \cup {start} : last < i => Slot(last, g[last].num) <= i
  BY <1>1, <1>3, <1>5, <1>8, <1>9
<1>13. \A h \in H \cup {start} : RoundUp(h) = h /\ g[h].kind = "hdr" /\ h <= start
  <2>1. \A h \in H : RoundUp(h) = h /\ f[h].kind = "hdr"
    BY DEF Chain
  <2>2. \A h \in H : g[h].kind = "hdr"
    BY <1>0, <1>5, <2>1
  <2>3. \A h \in H : h <= start
    BY <1>1, <1>9
  <2>4. start <= start
    BY <1>1
  <2> QED BY <1>4, <1>6, <2>1, <2>2, <2>3, <2>4
<1>14. Chain(g, db, H \cup {start}, start)
  <2>1. 0 \in H \cup {start}
    BY DEF Chain
  <2>2. \A h \in (H \cup {start}) \ {start} :
           /\ g[h].magic
           /\ Segment(g, db, h, g[h].num)
           /\ RoundUp(Slot(h, g[h].num)) \in H \cup {start}
           /\ \A i \in H \cup {start} : h < i => Slot(h, g[h].num) <= i
    <3> SUFFICES ASSUME NEW h \in (H \ {last}) \cup {last}
                 PROVE  /\ g[h].magic
                        /\ Segment(g, db, h, g[h].num)
                        /\ RoundUp(Slot(h, g[h].num)) \in H \cup {start}
                        /\ \A i \in H \cup {start} : h < i => Slot(h, g[h].num) <= i
      BY <1>10
    <3>1. CASE h = last
      BY <3>1, <1>12
    <3>2. CASE h # last
      BY <3>2, <1>11
    <3> QED BY <3>1, <3>2
  <2> QED BY <1>6, <1>13, <2>1, <2>2 DEF Chain
<1>15. LastSegment(g, db, start, 0)
  BY <1>0, <1>6 DEF LastSegment, Segment
<1>16. Covered(g, H \cup {start}, start) = Covered(f, H, last) \cup PagesIn(f, last, n)
  <2>1. \A h \in H \ {last} : PagesIn(g, h, g[h].num) = PagesIn(f, h, f[h].num)
    BY <1>0, <1>7
  <2>2. PagesIn(g, last, g[last].num) = PagesIn(f, last, n)
    BY <1>5, <1>8
  <2>3. PagesIn(f, last, n) \subseteq Page
    <3>1. Segment(f, db, last, n)
      BY DEF LastSegment
    <3>2. \A k \in 0 .. n - 1 : f[Slot(last, k)].num \in Page
      <4>1. \A p \in Page : Original(db, p, f[last].init).num = p
        BY DEF Original
      <4>2. \A k \in 0 .. n - 1 : \E p \in Page : f[Slot(last, k)] = Original(db, p, f[last].init)
        BY <3>1 DEF Segment
      <4> QED BY <4>1, <4>2
    <3> QED BY <3>2 DEF PagesIn
  <2>4. \A p \in Page : (\E h \in (H \ {last}) \cup {last} : p \in PagesIn(g, h, g[h].num))
                          <=> \/ \E h \in H \ {last} : p \in PagesIn(g, h, g[h].num)
                              \/ p \in PagesIn(g, last, g[last].num)
    OBVIOUS
  <2>5. \A p \in Page : (\E h \in H \ {last} : p \in PagesIn(g, h, g[h].num))
                          <=> \E h \in H \ {last} : p \in PagesIn(f, h, f[h].num)
    BY <2>1
  <2> QED BY <1>10, <2>2, <2>3, <2>4, <2>5 DEF Covered
<1> QED BY <1>14, <1>15, <1>16 DEF SegmentBegun

------------------------------------------------------------------------------
(* syncJournal                                                              *)

\* Neither the byte over an old header nor magic and number of the current one
\* concern a record.
LEMMA JournalSynced ==
    ASSUME NEW j \in Journals, j.hdr \in Pos, j.hdr < j.off,
           NEW w, w = SyncJournal(j, FALSE)
    PROVE  /\ w \in Journals
           /\ w.off = j.off /\ w.size = j.size /\ w.hdr = j.off /\ w.nRec = j.nRec
           /\ w.file[j.hdr] = Marked(j.file[j.hdr], j.nRec)
           /\ \A i \in Pos : i < j.off /\ i # j.hdr => w.file[i] = j.file[i]
           /\ \A i \in Pos : w.file[i].kind = j.file[i].kind /\ w.file[i].init = j.file[i].init
<1> DEFINE next == RoundUp(j.off)
           guarded == GuardNextHeader(j.file, next)
           file == [guarded EXCEPT ![j.hdr].magic = TRUE, ![j.hdr].num = j.nRec]
<1>1. j.file \in [Pos -> Cells] /\ j.off \in Nat /\ j.off \in 0 .. MaxPos /\ j.nRec \in 0 .. NPages
      /\ j.size \in 0 .. MaxPos /\ j.init \in Nonce \cup {0}
  BY DEF Journals, JournalsOf, Cells
<1>2. j.off <= next /\ next \in Nat
  BY <1>1, RoundUpMultiple
<1>3. /\ guarded \in [Pos -> Cells]
      /\ \A i \in Pos : i < j.off => guarded[i] = j.file[i]
      /\ \A i \in Pos : guarded[i].kind = j.file[i].kind /\ guarded[i].init = j.file[i].init
  <2>1. CASE guarded = j.file
    BY <2>1, <1>1
  <2>2. CASE next \in Pos /\ guarded = [j.file EXCEPT ![next].magic = FALSE]
    <3> DEFINE cell == [j.file[next] EXCEPT !.magic = FALSE]
    <3>1. cell \in Cells /\ cell.kind = j.file[next].kind /\ cell.init = j.file[next].init
      <4>1. PICK c \in Cells : c = j.file[next]
        BY <1>1, <2>2
      <4>2. [c EXCEPT !.magic = FALSE] \in Cells
            /\ [c EXCEPT !.magic = FALSE].kind = c.kind /\ [c EXCEPT !.magic = FALSE].init = c.init
        BY DEF Cells, CellsOf
      <4> QED BY <4>1, <4>2
    <3>2. guarded = [j.file EXCEPT ![next] = cell]
      BY <2>2
    <3> HIDE DEF cell, guarded
    <3>3. guarded \in [Pos -> Cells]
      BY <1>1, <3>1, <3>2
    <3>4. \A i \in Pos : guarded[i] = IF i = next THEN cell ELSE j.file[i]
      BY <1>1, <3>2
    <3>5. \A i \in Pos : i < j.off => i # next
      BY <1>1, <1>2, Positions
    <3> QED BY <3>1, <3>3, <3>4, <3>5
  <2> QED BY <2>1, <2>2 DEF GuardNextHeader, Stale
<1> HIDE DEF guarded
<1> DEFINE cell == [guarded[j.hdr] EXCEPT !.magic = TRUE, !.num = j.nRec]
<1>4. cell \in Cells /\ cell.kind = j.file[j.hdr].kind /\ cell.init = j.file[j.hdr].init
      /\ cell = Marked(j.file[j.hdr], j.nRec)
  <2>1. guarded[j.hdr] \in Cells /\ guarded[j.hdr] = j.file[j.hdr]
    BY <1>3
  <2>2. cell = Marked(j.file[j.hdr], j.nRec)
    BY <2>1 DEF Marked
  <2> HIDE DEF cell
  <2>3. j.file[j.hdr] \in Cells
    BY <1>1
  <2> QED BY <1>1, <2>2, <2>3, MarkedFields
<1>5. file = [guarded EXCEPT ![j.hdr] = cell]
  BY <1>3
<1> HIDE DEF cell, file
<1>6. /\ file \in [Pos -> Cells]
      /\ \A i \in Pos : file[i] = IF i = j.hdr THEN cell ELSE guarded[i]
  BY <1>3, <1>4, <1>5
<1>7. w = [j EXCEPT !.file = file, !.hdr = j.off]
  BY DEF SyncJournal, file, guarded
<1>8. w \in Journals /\ w.file = file /\ w.off = j.off /\ w.size = j.size /\ w.hdr = j.off
      /\ w.nRec = j.nRec
  BY <1>1, <1>6, <1>7 DEF Journals, JournalsOf, Cells
<1> QED BY <1>3, <1>4, <1>6, <1>8

\* What syncJournal makes of journal j when it begins a new segment.
SegmentAt(j, w, start) ==
    /\ w \in Journals
    /\ w.off = start + Sector /\ w.hdr = start /\ w.nRec = 0
    /\ w.off <= w.size
    /\ w.file[j.hdr] = Marked(j.file[j.hdr], j.nRec)
    /\ \A i \in Pos : i < j.off /\ i # j.hdr /\ j.file[i].kind = "hdr" => w.file[i] = j.file[i]
    /\ RecordsBefore(j.file, w.file, j.off)
    /\ w.file[start] = NewHeader(w.init)
    /\ \A i \in Pos : w.file[i].kind = "rec" => w.file[i].init # w.init

\* syncJournal with a new header marks the old one and writes one behind the
\* records.
LEMMA JournalSyncedNew ==
    ASSUME NEW j \in Journals, j.hdr \in Pos, j.hdr < j.off, j.file[j.hdr].kind = "hdr",
           RoundUp(j.off) + Sector <= MaxPos
    PROVE  SegmentAt(j, SyncJournal(j, TRUE), RoundUp(j.off))
<1> SUFFICES ASSUME NEW w, w = SyncJournal(j, TRUE),
                    NEW start, start = RoundUp(j.off), start + Sector <= MaxPos
             PROVE  SegmentAt(j, w, start)
  OBVIOUS
<1> DEFINE s == SyncJournal(j, FALSE)
<1>1. /\ s \in Journals
      /\ s.off = j.off
      /\ s.file[j.hdr] = Marked(j.file[j.hdr], j.nRec)
      /\ \A i \in Pos : i < j.off /\ i # j.hdr => s.file[i] = j.file[i]
      /\ \A i \in Pos : s.file[i].kind = j.file[i].kind
  <2>1. s = SyncJournal(j, FALSE)
    OBVIOUS
  <2> HIDE DEF s
  <2> QED BY <2>1, JournalSynced
<1>2. PICK t \in Journals : /\ w = WriteHeader(t)
                           /\ t.off = j.off /\ t.file = s.file /\ t.nRec = 0
  <2>1. w = WriteHeader([s EXCEPT !.nRec = 0])
    BY DEF SyncJournal
  <2> HIDE DEF s
  <2>2. [s EXCEPT !.nRec = 0] \in Journals
    BY <1>1, NPagesAssumption DEF Journals, JournalsOf, Cells
  <2>3. [s EXCEPT !.nRec = 0].off = j.off /\ [s EXCEPT !.nRec = 0].file = s.file
        /\ [s EXCEPT !.nRec = 0].nRec = 0
    BY <1>1 DEF Journals, JournalsOf, Cells
  <2> QED BY <2>1, <2>2, <2>3
<1> HIDE DEF s
<1>4. /\ w \in Journals
      /\ w.off = start + Sector /\ w.hdr = start /\ w.nRec = 0
      /\ w.off <= w.size
      /\ w.file[start] = NewHeader(w.init)
      /\ SameBefore(s.file, w.file, start)
      /\ \A i \in Pos : w.file[i].kind = "rec" => w.file[i].init # w.init
  <2>1. HeaderAt(t, w, start)
    BY <1>2, HeaderWritten
  <2> QED BY <1>2, <2>1 DEF HeaderAt
<1>5. j.off \in Nat /\ j.off <= start /\ start \in Nat
  <2>1. j.off \in Nat
    BY DEF Journals, JournalsOf, Cells
  <2> QED BY <2>1, RoundUpMultiple
<1>6. w.file[j.hdr] = s.file[j.hdr]
  <2>1. s.file[j.hdr].kind = "hdr" /\ j.hdr < start
    BY <1>1, <1>5, Positions
  <2> QED BY <1>4, <2>1 DEF SameBefore
<1>7. \A i \in Pos : i < j.off /\ i # j.hdr /\ j.file[i].kind = "hdr" => w.file[i] = j.file[i]
  <2> SUFFICES ASSUME NEW i \in Pos, i < j.off, i # j.hdr, j.file[i].kind = "hdr"
               PROVE  w.file[i] = j.file[i]
    OBVIOUS
  <2>1. i < start /\ s.file[i].kind = "hdr"
    BY <1>1, <1>5, Positions
  <2> QED BY <1>1, <1>4, <2>1 DEF SameBefore
<1>8. RecordsBefore(j.file, w.file, j.off)
  <2> SUFFICES ASSUME NEW i \in Pos, i + Record <= j.off, j.file[i].kind = "rec"
               PROVE  w.file[i] = j.file[i]
    BY DEF RecordsBefore
  <2>1. i < j.off /\ i < start /\ i + Record <= start /\ i # j.hdr
    BY <1>5, Positions, SectorAssumption
  <2> QED BY <1>1, <1>4, <2>1 DEF SameBefore
<1> QED BY <1>1, <1>4, <1>6, <1>7, <1>8 DEF SegmentAt

------------------------------------------------------------------------------
(* The journal while the transaction writes.                                *)

\* Journal j holds the pages S of the transaction, the synced ones in the
\* segments at H, ...
JournalHas(j, db, H, S) ==
    /\ Chain(j.file, db, H, j.hdr)
    /\ LastSegment(j.file, db, j.hdr, j.nRec)
    /\ S = Covered(j.file, H, j.hdr) \cup PagesIn(j.file, j.hdr, j.nRec)
    /\ j.hdr + Weight(j.nRec) <= Weight(Cardinality(S))
    /\ j.nRec <= Cardinality(S)
    /\ Slot(j.hdr, j.nRec) <= j.size

\* ... and is where the next record goes.
JournalHolds(j, db, H, S) ==
    /\ JournalHas(j, db, H, S)
    /\ j.off = Slot(j.hdr, j.nRec)
    /\ j.init = j.file[j.hdr].init

\* Shapes of the numbers of a journal that is being written.
LEMMA JournalNumbers ==
    ASSUME NEW j \in Journals, NEW db, NEW H \in SUBSET Pos, NEW S \in SUBSET Page,
           JournalHolds(j, db, H, S)
    PROVE  /\ j.file \in [Pos -> Cells]
           /\ j.hdr \in H /\ j.hdr \in Pos /\ j.hdr \in Nat
           /\ j.nRec \in Nat /\ j.nRec \in 0 .. NPages
           /\ j.off \in Nat /\ j.hdr < j.off
           /\ RoundUp(j.hdr) = j.hdr /\ j.file[j.hdr].kind = "hdr"
           /\ Cardinality(S) \in Nat /\ Cardinality(S) <= NPages
<1>1. j.hdr \in H /\ RoundUp(j.hdr) = j.hdr /\ j.file[j.hdr].kind = "hdr"
  BY DEF JournalHolds, JournalHas, Chain
<1>2. j.hdr \in Nat /\ j.hdr \in Pos
  BY <1>1, Positions
<1>3. j.nRec \in 0 .. NPages /\ j.file \in [Pos -> Cells]
  BY DEF Journals, JournalsOf, Cells
<1>4. j.nRec \in Nat
  BY <1>3, NPagesAssumption
<1>5. j.off = Slot(j.hdr, j.nRec)
  BY DEF JournalHolds, JournalHas
<1>6. Slot(j.hdr, j.nRec) \in Nat /\ j.hdr + Sector <= Slot(j.hdr, j.nRec)
  BY <1>2, <1>4, SlotFacts
<1>7. j.off \in Nat /\ j.hdr < j.off
  BY <1>2, <1>5, <1>6, SectorAssumption
<1>8. Cardinality(S) \in Nat /\ Cardinality(S) <= NPages
  BY Ranks
<1> QED BY <1>1, <1>2, <1>3, <1>4, <1>7, <1>8

\* pager_open_journal begins with an empty tail.
LEMMA JournalOpened ==
    ASSUME NEW j \in Journals, NEW db,
           NEW w, w = WriteHeader([j EXCEPT !.nRec = 0, !.off = 0, !.hdr = 0])
    PROVE  /\ w \in Journals /\ w.hdr = 0 /\ w.nRec = 0
           /\ JournalHolds(w, db, {0}, {})
           /\ Covered(w.file, {0}, 0) = {}
           /\ PagesIn(w.file, 0, 0) = {}
<1>1. PICK t \in Journals : w = WriteHeader(t) /\ t.off = 0 /\ t.nRec = 0
  <2>1. [j EXCEPT !.nRec = 0, !.off = 0, !.hdr = 0] \in Journals
    <3>1. 0 \in 0 .. NPages /\ 0 \in 0 .. MaxPos
      BY NPagesAssumption, Positions
    <3> QED BY <3>1 DEF Journals, JournalsOf, Cells
  <2>2. [j EXCEPT !.nRec = 0, !.off = 0, !.hdr = 0].off = 0
        /\ [j EXCEPT !.nRec = 0, !.off = 0, !.hdr = 0].nRec = 0
    BY DEF Journals, JournalsOf, Cells
  <2> QED BY <2>1, <2>2
<1>2. RoundUp(t.off) = 0 /\ 0 + Sector <= MaxPos
  <2>1. Weight(NPages) \in Nat /\ MaxPos = Weight(NPages) + Sector
    BY NPagesAssumption, WeightFacts, Positions
  <2> QED BY <1>1, <2>1, RoundUpSector, SectorAssumption
<1>3. HeaderAt(t, w, 0)
  BY <1>1, <1>2, HeaderWritten
<1>4. /\ w \in Journals /\ w.off = Sector /\ w.hdr = 0 /\ w.nRec = 0 /\ w.off <= w.size
      /\ w.file[0] = NewHeader(w.init)
      /\ \A i \in Pos : w.file[i].kind = "rec" => w.file[i].init # w.init
  BY <1>1, <1>3, SectorAssumption DEF HeaderAt
<1>5. w.file[0].kind = "hdr" /\ ~w.file[0].magic /\ w.file[0].num = 0 /\ w.file[0].init = w.init
  BY <1>4, HeaderFields
<1>6. Chain(w.file, db, {0}, 0)
  BY <1>5, RoundUpSector DEF Chain
<1>7. LastSegment(w.file, db, 0, 0)
  BY <1>4, <1>5 DEF LastSegment, Segment
<1>8. Covered(w.file, {0}, 0) = {} /\ PagesIn(w.file, 0, 0) = {}
  BY DEF Covered, PagesIn
<1>9. Slot(0, 0) = Sector
  BY SlotFacts, SectorAssumption
<1>10. Cardinality({}) = 0 /\ Weight(0) = 0
  BY FS_EmptySet, SectorAssumption, RoundUpMultiple DEF Weight
<1> QED BY <1>4, <1>5, <1>6, <1>7, <1>8, <1>9, <1>10 DEF JournalHolds, JournalHas

\* What AddRecords makes of journal j.
Extended(j, w, db, H, S, pages) ==
    /\ w \in Journals /\ w.hdr = j.hdr
    /\ w.nRec = j.nRec + Cardinality(pages)
    /\ JournalHolds(w, db, H, S \cup pages)
    /\ Covered(w.file, H, w.hdr) = Covered(j.file, H, j.hdr)
    /\ PagesIn(w.file, w.hdr, w.nRec) = PagesIn(j.file, j.hdr, j.nRec) \cup pages

\* Pages that are journalled before they change are added to those the journal
\* holds.
LEMMA JournalExtended ==
    ASSUME NEW j \in Journals, NEW db \in Database, NEW H \in SUBSET Pos,
           NEW S \in SUBSET Page, JournalHolds(j, db, H, S),
           NEW pages \in SUBSET Page, pages \cap S = {},
           NEW m \in Database, \A p \in pages : m[p] = db[p],
           NEW stop, Whole(j, pages, m, stop)
    PROVE  Extended(j, AddRecords(j, pages, m, stop), db, H, S, pages)
<1> SUFFICES ASSUME NEW w, w = AddRecords(j, pages, m, stop)
             PROVE  Extended(j, w, db, H, S, pages)
  OBVIOUS
<1> DEFINE n == Cardinality(pages)
<1>1. /\ j.file \in [Pos -> Cells]
      /\ j.hdr \in H /\ j.hdr \in Pos /\ j.hdr \in Nat
      /\ j.nRec \in Nat /\ j.nRec \in 0 .. NPages
      /\ j.off \in Nat /\ j.hdr < j.off
      /\ RoundUp(j.hdr) = j.hdr /\ j.file[j.hdr].kind = "hdr"
      /\ Cardinality(S) \in Nat /\ Cardinality(S) <= NPages
  BY JournalNumbers
<1>2. n \in Nat /\ IsFiniteSet(pages) /\ IsFiniteSet(S)
  BY Ranks
<1>3. Cardinality(S \cup pages) = Cardinality(S) + n /\ Cardinality(S \cup pages) <= NPages
  <2>1. S \cap pages = {}
    OBVIOUS
  <2>2. Cardinality(S \cup pages) = Cardinality(S) + Cardinality(pages) - Cardinality(S \cap pages)
    BY <1>2, FS_Union
  <2>3. Cardinality(S \cap pages) = 0
    BY <2>1, FS_EmptySet
  <2>4. Cardinality(S \cup pages) <= NPages
    BY Ranks
  <2> QED BY <1>1, <1>2, <2>2, <2>3, <2>4
<1> HIDE DEF n
<1>4. /\ j.off = Slot(j.hdr, j.nRec)
      /\ j.hdr + Weight(j.nRec) <= Weight(Cardinality(S))
      /\ j.nRec <= Cardinality(S)
      /\ j.init = j.file[j.hdr].init
      /\ Chain(j.file, db, H, j.hdr)
      /\ LastSegment(j.file, db, j.hdr, j.nRec)
      /\ S = Covered(j.file, H, j.hdr) \cup PagesIn(j.file, j.hdr, j.nRec)
  BY DEF JournalHolds, JournalHas
<1>5. j.off + Record * n = Slot(j.hdr, j.nRec + n)
  <2>1. Record * (j.nRec + n) = Record * j.nRec + Record * n
    BY <1>1, <1>2, SectorAssumption
  <2>2. Record * j.nRec \in Nat /\ Record * n \in Nat
    BY <1>1, <1>2, SectorAssumption
  <2> QED BY <1>1, <1>4, <2>1, <2>2, SectorAssumption DEF Slot
<1>6. j.hdr + Weight(j.nRec + n) <= Weight(Cardinality(S \cup pages))
  <2>1. Weight(j.nRec + n) = Weight(j.nRec) + Weight(n)
    BY <1>1, <1>2, WeightFacts
  <2>2. Weight(Cardinality(S) + n) = Weight(Cardinality(S)) + Weight(n)
    BY <1>1, <1>2, WeightFacts
  <2>3. Weight(j.nRec) \in Nat /\ Weight(n) \in Nat /\ Weight(Cardinality(S)) \in Nat
    BY <1>1, <1>2, WeightFacts
  <2> QED BY <1>1, <1>3, <1>4, <2>1, <2>2, <2>3
<1>7. Slot(j.hdr, j.nRec + n) <= MaxPos
  <2>1. j.nRec + n \in Nat
    BY <1>1, <1>2
  <2>2. Slot(j.hdr, j.nRec + n) <= j.hdr + Weight(j.nRec + n) + Sector
    BY <1>1, <2>1, SegmentFits
  <2>3. Cardinality(S \cup pages) \in Nat
    BY <1>1, <1>2, <1>3
  <2>4. Weight(Cardinality(S \cup pages)) <= Weight(NPages)
    BY <1>3, <2>3, WeightFacts, NPagesAssumption
  <2>5. Slot(j.hdr, j.nRec + n) \in Nat
    BY <1>1, <2>1, SlotFacts
  <2>6. Weight(j.nRec + n) \in Nat /\ Weight(NPages) \in Nat /\ Weight(Cardinality(S \cup pages)) \in Nat
    BY <2>1, <2>3, NPagesAssumption, WeightFacts
  <2> QED BY <1>1, <1>6, <2>2, <2>4, <2>5, <2>6, Positions, SectorAssumption
<1>8. /\ w \in Journals
      /\ w.off = j.off + Record * n
      /\ w.hdr = j.hdr /\ w.init = j.init
      /\ w.nRec = j.nRec + n
      /\ w.off <= w.size
      /\ SameBefore(j.file, w.file, j.off)
      /\ \A k \in 0 .. n - 1 : /\ j.off + Record * k \in Pos
                               /\ \E p \in pages : w.file[j.off + Record * k] = Original(m, p, j.init)
      /\ \A p \in pages : \E k \in 0 .. n - 1 :
            w.file[j.off + Record * k] = Original(m, p, j.init)
      /\ \A i \in Pos : w.file[i].kind = "rec" =>
            \/ w.file[i] = j.file[i]
            \/ \E k \in 0 .. n - 1 : i = j.off + Record * k
  <2>1. j.off + Record * n <= MaxPos /\ j.nRec + n <= NPages
    <3>1. j.off + Record * n <= MaxPos
      BY <1>5, <1>7
    <3>2. j.nRec + n <= NPages
      BY <1>1, <1>2, <1>3, <1>4, NPagesAssumption
    <3> QED BY <3>1, <3>2
  <2>2. n = Cardinality(pages)
    BY DEF n
  <2> QED BY <2>1, <2>2, RecordsAdded
<1>9. \A p \in pages : Original(m, p, j.init) = Original(db, p, j.file[j.hdr].init)
  BY <1>4 DEF Original
<1>10. w.file \in [Pos -> Cells]
  BY <1>8 DEF Journals, JournalsOf, Cells
<1>11. /\ LastSegment(w.file, db, j.hdr, j.nRec + n)
       /\ PagesIn(w.file, j.hdr, j.nRec + n) = PagesIn(j.file, j.hdr, j.nRec) \cup pages
  <2>1. RecordsFrom(j.file, w.file, db, pages, j.off, n, j.file[j.hdr].init)
    <3> HIDE DEF Original
    <3> QED BY <1>4, <1>8, <1>9 DEF RecordsFrom
  <2>2. RecordsFrom(j.file, w.file, db, pages, Slot(j.hdr, j.nRec), n, j.file[j.hdr].init)
    BY <1>4, <2>1
  <2>3. /\ j.file \in [Pos -> Cells] /\ j.hdr \in Pos /\ j.nRec \in Nat /\ n \in Nat
        /\ j.file[j.hdr].kind = "hdr"
        /\ LastSegment(j.file, db, j.hdr, j.nRec)
    BY <1>1, <1>2, <1>4
  <2>4. LongerBy(j.file, w.file, db, j.hdr, j.nRec, n, pages)
    BY <1>10, <2>2, <2>3, TailExtended
  <2> QED BY <2>4 DEF LongerBy
<1>12. /\ Chain(w.file, db, H, j.hdr)
       /\ Covered(w.file, H, j.hdr) = Covered(j.file, H, j.hdr)
       /\ w.file[j.hdr] = j.file[j.hdr]
  BY <1>1, <1>4, <1>8, <1>10, ChainKept
<1>13. S \cup pages = Covered(w.file, H, j.hdr) \cup PagesIn(w.file, j.hdr, j.nRec + n)
  BY <1>4, <1>11, <1>12
<1>14. j.nRec + n <= Cardinality(S \cup pages)
  BY <1>1, <1>2, <1>3, <1>4
<1>15. JournalHolds(w, db, H, S \cup pages)
  BY <1>4, <1>5, <1>6, <1>8, <1>11, <1>12, <1>13, <1>14 DEF JournalHolds, JournalHas
<1> QED BY <1>8, <1>11, <1>12, <1>15 DEF n, Extended

\* What syncJournal makes of a journal with the pages S.
Segmented(w, db, H, S) ==
    /\ w \in Journals
    /\ w.hdr \in Pos /\ w.nRec = 0
    /\ JournalHolds(w, db, H \cup {w.hdr}, S)
    /\ Covered(w.file, H \cup {w.hdr}, w.hdr) = S
    /\ PagesIn(w.file, w.hdr, w.nRec) = {}

\* After syncJournal all pages of the journal are in synced segments.
LEMMA JournalSegmented ==
    ASSUME NEW j \in Journals, NEW db, NEW H \in SUBSET Pos, NEW S \in SUBSET Page,
           JournalHolds(j, db, H, S), j.nRec # 0
    PROVE  Segmented(SyncJournal(j, TRUE), db, H, S)
<1> SUFFICES ASSUME NEW w, w = SyncJournal(j, TRUE)
             PROVE  Segmented(w, db, H, S)
  OBVIOUS
<1> DEFINE start == RoundUp(j.off)
<1>1. /\ j.file \in [Pos -> Cells]
      /\ j.hdr \in H /\ j.hdr \in Pos /\ j.hdr \in Nat
      /\ j.nRec \in Nat /\ j.nRec \in 0 .. NPages
      /\ j.off \in Nat /\ j.hdr < j.off
      /\ RoundUp(j.hdr) = j.hdr /\ j.file[j.hdr].kind = "hdr"
      /\ Cardinality(S) \in Nat /\ Cardinality(S) <= NPages
  BY JournalNumbers
<1>2. /\ j.off = Slot(j.hdr, j.nRec)
      /\ j.hdr + Weight(j.nRec) <= Weight(Cardinality(S))
      /\ j.nRec <= Cardinality(S)
      /\ Chain(j.file, db, H, j.hdr)
      /\ LastSegment(j.file, db, j.hdr, j.nRec)
      /\ S = Covered(j.file, H, j.hdr) \cup PagesIn(j.file, j.hdr, j.nRec)
  BY DEF JournalHolds, JournalHas
<1>3. start \in Nat /\ j.off <= start
  BY <1>1, RoundUpMultiple
<1>4. start <= Weight(Cardinality(S)) /\ Weight(Cardinality(S)) \in Nat
  <2>1. start <= j.hdr + Weight(j.nRec)
    BY <1>1, <1>2, SegmentFits
  <2>2. Weight(j.nRec) \in Nat /\ Weight(Cardinality(S)) \in Nat
    BY <1>1, WeightFacts
  <2> QED BY <1>1, <1>2, <1>3, <2>1, <2>2
<1>5. start + Sector <= MaxPos /\ start \in Pos
  <2>1. Weight(Cardinality(S)) <= Weight(NPages) /\ Weight(NPages) \in Nat
    BY <1>1, NPagesAssumption, WeightFacts
  <2>2. start + Sector <= MaxPos /\ MaxPos \in Nat
    BY <1>3, <1>4, <2>1, Positions, SectorAssumption
  <2> QED BY <1>3, <2>2, SectorAssumption DEF Pos
<1> HIDE DEF start
<1>6. start = RoundUp(j.off)
  BY DEF start
<1>7. /\ w \in Journals
      /\ w.off = start + Sector /\ w.hdr = start /\ w.nRec = 0
      /\ w.off <= w.size
      /\ w.file[j.hdr] = Marked(j.file[j.hdr], j.nRec)
      /\ \A i \in Pos : i < j.off /\ i # j.hdr /\ j.file[i].kind = "hdr" => w.file[i] = j.file[i]
      /\ RecordsBefore(j.file, w.file, j.off)
      /\ w.file[start] = NewHeader(w.init)
      /\ \A i \in Pos : w.file[i].kind = "rec" => w.file[i].init # w.init
  <2>1. SegmentAt(j, w, start)
    BY <1>1, <1>5, <1>6, JournalSyncedNew
  <2> QED BY <2>1 DEF SegmentAt
<1>8. \A h \in H \ {j.hdr} : w.file[h] = j.file[h]
  <2>1. \A h \in H : h \in Nat /\ h <= j.hdr
    BY <1>1, <1>2, ChainNumbers
  <2>2. \A h \in H : j.file[h].kind = "hdr"
    BY <1>2 DEF Chain
  <2>3. \A h \in H : h < j.off
    BY <1>1, <2>1
  <2> QED BY <1>7, <2>2, <2>3
<1>9. w.file \in [Pos -> Cells]
  BY <1>7 DEF Journals, JournalsOf, Cells
<1>10. /\ Chain(w.file, db, H \cup {start}, start)
       /\ LastSegment(w.file, db, start, 0)
       /\ Covered(w.file, H \cup {start}, start) = S
  <2>1. start = RoundUp(Slot(j.hdr, j.nRec))
    BY <1>2, <1>6
  <2>2. SegmentEnded(j.file, w.file, H, j.hdr, j.nRec, start, w.init)
    BY <1>2, <1>7, <1>8 DEF SegmentEnded
  <2>3. /\ j.file \in [Pos -> Cells] /\ j.hdr \in H /\ j.nRec \in 0 .. NPages
        /\ start \in Pos
        /\ Chain(j.file, db, H, j.hdr)
        /\ LastSegment(j.file, db, j.hdr, j.nRec)
    BY <1>1, <1>2, <1>5
  <2>4. SegmentBegun(j.file, w.file, db, H, j.hdr, j.nRec, start)
    BY <1>9, <2>1, <2>2, <2>3, ChainSynced
  <2> QED BY <1>2, <2>4 DEF SegmentBegun
<1>11. PagesIn(w.file, start, 0) = {}
  BY DEF PagesIn
<1>12. Slot(start, 0) = start + Sector /\ Weight(0) = 0
  BY <1>3, SlotFacts, SectorAssumption, RoundUpMultiple DEF Weight
<1>13. w.file[start].init = w.init
  BY <1>7, HeaderFields
<1>14. JournalHolds(w, db, H \cup {start}, S)
  <2>1. start + Weight(0) <= Weight(Cardinality(S)) /\ 0 <= Cardinality(S)
    BY <1>1, <1>3, <1>4, <1>12
  <2>2. S = Covered(w.file, H \cup {start}, start) \cup PagesIn(w.file, start, 0)
    BY <1>10, <1>11
  <2> QED BY <1>7, <1>10, <1>12, <1>13, <2>1, <2>2 DEF JournalHolds, JournalHas
<1> QED BY <1>5, <1>7, <1>10, <1>11, <1>14 DEF Segmented

\* The segments at S, and `end`, where the next one would begin.
Segments(f, db, S, end) ==
    /\ 0 \in S \cup {end} /\ RoundUp(end) = end
    /\ \A h \in S : /\ RoundUp(h) = h /\ h < end /\ HasMagic(f[h])
                    /\ Segment(f, db, h, f[h].num)
                    /\ RoundUp(Slot(h, f[h].num)) \in S \cup {end}
                    /\ \A g \in S \cup {end} : h < g => Slot(h, f[h].num) <= g

\* The places of H are those of synced segments, but for the last, where the
\* next one would begin.
Links(f, db, H, last) ==
    /\ H \in SUBSET Nat /\ last \in H /\ H \ {last} \in SUBSET Pos
    /\ Segments(f, db, H \ {last}, last)

\* Shapes of the numbers such places come with.
LEMMA LinkNumbers ==
    ASSUME NEW f \in [Pos -> Cells], NEW db, NEW H, NEW last, Links(f, db, H, last)
    PROVE  /\ H \in SUBSET Nat /\ last \in H /\ last \in Nat /\ 0 \in H
           /\ \A h \in H : h \in Nat /\ h <= last /\ RoundUp(h) = h
           /\ \A h \in H \ {last} :
                 /\ h \in Pos /\ h < last /\ HasMagic(f[h]) /\ f[h].num \in Nat
                 /\ Segment(f, db, h, f[h].num)
                 /\ RoundUp(Slot(h, f[h].num)) \in H
                 /\ \A g \in H : h < g => Slot(h, f[h].num) <= g
                 /\ Slot(h, f[h].num) <= last
           /\ \A h \in H \ {last} : \A k \in 0 .. f[h].num - 1 :
                 /\ k \in Nat /\ Slot(h, k) \in Pos
                 /\ Slot(h, k) + Record <= Slot(h, f[h].num)
                 /\ Slot(h, k) + Record <= last
                 /\ f[Slot(h, k)].num \in Page
<1>1. H \in SUBSET Nat /\ last \in H /\ last \in Nat /\ (H \ {last}) \cup {last} = H
  BY DEF Links
<1>2. 0 \in H /\ RoundUp(last) = last
  BY <1>1 DEF Links, Segments
<1>3. ASSUME NEW h \in H \ {last}
      PROVE  /\ h \in Pos /\ h < last /\ HasMagic(f[h]) /\ f[h].num \in Nat /\ RoundUp(h) = h
             /\ Segment(f, db, h, f[h].num)
             /\ RoundUp(Slot(h, f[h].num)) \in H
             /\ \A g \in H : h < g => Slot(h, f[h].num) <= g
             /\ Slot(h, f[h].num) <= last
  <2>1. h \in Pos
    BY DEF Links
  <2>2. f[h].num \in Nat
    <3>1. f[h] \in Cells
      BY <2>1
    <3> QED BY <3>1, NPagesAssumption DEF Cells, CellsOf
  <2>3. /\ RoundUp(h) = h /\ h < last /\ HasMagic(f[h])
        /\ Segment(f, db, h, f[h].num)
        /\ RoundUp(Slot(h, f[h].num)) \in H
        /\ \A g \in H : h < g => Slot(h, f[h].num) <= g
    BY <1>1 DEF Links, Segments
  <2> QED BY <1>1, <2>1, <2>2, <2>3
<1>4. ASSUME NEW h \in H PROVE h \in Nat /\ h <= last /\ RoundUp(h) = h
  <2>1. CASE h = last
    BY <1>1, <1>2, <2>1
  <2>2. CASE h # last
    <3>1. h \in Nat /\ h < last /\ RoundUp(h) = h
      BY <1>1, <1>3, <2>2
    <3> QED BY <1>1, <3>1
  <2> QED BY <2>1, <2>2
<1>5. ASSUME NEW h \in H \ {last}, NEW k \in 0 .. f[h].num - 1
      PROVE  /\ k \in Nat /\ Slot(h, k) \in Pos
             /\ Slot(h, k) + Record <= Slot(h, f[h].num)
             /\ Slot(h, k) + Record <= last
             /\ f[Slot(h, k)].num \in Page
  <2>1. k \in Nat /\ f[h].num \in Nat /\ k < f[h].num /\ h \in Nat
    BY <1>1, <1>3
  <2>2. Slot(h, k) + Record <= Slot(h, f[h].num) /\ Slot(h, k) \in Nat /\ Slot(h, f[h].num) \in Nat
    BY <2>1, SlotOrder, SlotFacts
  <2>3. Slot(h, k) + Record <= last
    BY <1>1, <1>3, <2>2, SectorAssumption
  <2>4. Slot(h, k) \in Pos /\ f[Slot(h, k)].num \in Page
    <3>1. Slot(h, k) \in Pos /\ \E p \in Page : f[Slot(h, k)] = Original(db, p, f[h].init)
      BY <1>3 DEF Segment
    <3> QED BY <3>1 DEF Original
  <2> QED BY <2>1, <2>2, <2>3, <2>4
<1> QED BY <1>1, <1>2, <1>3, <1>4, <1>5

\* The segments of a transaction that is under way.
LEMMA ChainLinks ==
    ASSUME NEW f \in [Pos -> Cells], NEW db, NEW H \in SUBSET Pos, NEW last \in H,
           Chain(f, db, H, last)
    PROVE  Links(f, db, H, last)
<1>1. /\ last \in Nat
      /\ \A h \in H : h \in Nat /\ h <= last
      /\ \A h \in H \ {last} : h < last
  BY ChainNumbers
<1>2. (H \ {last}) \cup {last} = H
  OBVIOUS
<1>3. Segments(f, db, H \ {last}, last)
  BY <1>1, <1>2 DEF Segments, Chain, HasMagic
<1> QED BY <1>1, <1>3 DEF Links

------------------------------------------------------------------------------
(* Playback: R is the set of the pages that are as the transaction found      *)
(* them, `to` the number of records left in the segment.                      *)

\* The number of records of a segment; n is that of the last one.
Count(f, last, n, h) == IF h = last THEN n ELSE f[h].num

\* The pages with a record before offset o are in R.
RestoredBefore(f, R, H, last, n, o) ==
    \A h \in H : \A k \in 0 .. Count(f, last, n, h) - 1 :
        Slot(h, k) < o => f[Slot(h, k)].num \in R

\* Where a playback can be: in front of a header, ...
AtHeader(j, to, R, H, last, n) ==
    /\ to = 0
    /\ RoundUp(j.off) \in H
    /\ RestoredBefore(j.file, R, H, last, n, RoundUp(j.off) + Sector)

\* ... in front of record k of a synced segment, ...
AtRecord(j, to, R, H, last, n) ==
    /\ \E h \in H \ {last} : \E k \in 0 .. j.file[h].num - 1 :
          /\ to = j.file[h].num - k
          /\ j.off = Slot(h, k)
          /\ j.init = j.file[h].init
    /\ RestoredBefore(j.file, R, H, last, n, j.off)

\* ... in or behind the records that are not synced, ...
InTail(j, to, R, H, last, n) ==
    /\ to \in Nat \ {0}
    /\ j.init = j.file[last].init
    /\ \E k \in Nat : j.off = Slot(last, k)
    /\ j.off + Record * to <= j.size
    /\ j.size < j.off + Record * to + Record
    /\ RestoredBefore(j.file, R, H, last, n, j.off)

\* ... or at the end.
AtEnd(j, to, R, H, last, n) ==
    /\ to = 0
    /\ RoundUp(j.off) + Sector > j.size
    /\ RestoredBefore(j.file, R, H, last, n, j.size)

\* Restoring more pages undoes nothing.
LEMMA RestoredByMore ==
    ASSUME NEW f, NEW R, NEW R2, R \subseteq R2, NEW H, NEW last, NEW n, NEW o,
           RestoredBefore(f, R, H, last, n, o)
    PROVE  RestoredBefore(f, R2, H, last, n, o)
BY DEF RestoredBefore

\* The records before the one behind record k of a segment are those before
\* record k, and record k.
LEMMA RecordsInOrder ==
    ASSUME NEW f \in [Pos -> Cells], NEW db, NEW H, NEW last \in H, Links(f, db, H, last), NEW n \in Nat,
           NEW h \in H \ {last}, NEW k \in 0 .. f[h].num - 1,
           NEW R, NEW p, p = f[Slot(h, k)].num,
           RestoredBefore(f, R, H, last, n, Slot(h, k))
    PROVE  RestoredBefore(f, R \cup {p}, H, last, n, Slot(h, k) + Record)
<1> SUFFICES ASSUME NEW g \in H, NEW i \in 0 .. Count(f, last, n, g) - 1,
                    Slot(g, i) < Slot(h, k) + Record
             PROVE  f[Slot(g, i)].num \in R \cup {p}
  BY DEF RestoredBefore
<1>1. /\ h \in Nat /\ k \in Nat /\ g \in Nat /\ i \in Nat
      /\ Slot(h, k) + Record <= Slot(h, f[h].num)
      /\ f[h].num \in Nat
  <2>1. /\ h \in Nat /\ g \in Nat /\ f[h].num \in Nat /\ k \in Nat /\ k < f[h].num
        /\ Slot(h, k) + Record <= Slot(h, f[h].num)
    BY LinkNumbers
  <2>2. i \in Nat
    <3>1. g # last => f[g].num \in Nat
      BY LinkNumbers
    <3> QED BY <3>1 DEF Count
  <2> QED BY <2>1, <2>2
<1>2. /\ Slot(h, k) \in Nat /\ h + Sector <= Slot(h, k) /\ Slot(h, f[h].num) \in Nat
      /\ Slot(g, i) \in Nat /\ g + Sector <= Slot(g, i)
  BY <1>1, SlotFacts
<1>3. CASE h < g
  <2>1. Slot(h, f[h].num) <= g
    BY <1>3, LinkNumbers
  <2> QED BY <1>1, <1>2, <2>1, SectorAssumption
<1>4. CASE g < h
  <2>1. g # last /\ Slot(g, f[g].num) <= h
    <3>1. last \in Nat /\ h <= last
      BY LinkNumbers
    <3>2. g # last
      BY <1>1, <1>4, <3>1
    <3> QED BY <1>4, <3>2, LinkNumbers
  <2>2. i \in 0 .. f[g].num - 1
    BY <2>1 DEF Count
  <2>3. Slot(g, i) + Record <= Slot(g, f[g].num) /\ Slot(g, f[g].num) \in Nat
    <3>1. f[g].num \in Nat /\ Slot(g, i) + Record <= Slot(g, f[g].num)
      BY <2>1, <2>2, LinkNumbers
    <3> QED BY <1>1, <3>1, SlotFacts
  <2>4. Slot(g, i) < Slot(h, k)
    BY <1>1, <1>2, <2>1, <2>3, SectorAssumption
  <2> QED BY <2>4 DEF RestoredBefore
<1>5. CASE g = h
  <2>1. ~(k < i)
    <3> SUFFICES ASSUME k < i PROVE FALSE
      OBVIOUS
    <3>1. Slot(h, k) + Record <= Slot(h, i)
      BY <1>1, SlotOrder
    <3> QED BY <1>2, <1>5, <3>1, SectorAssumption
  <2>2. CASE i = k
    BY <1>5, <2>2
  <2>3. CASE i < k
    <3>1. Slot(h, i) + Record <= Slot(h, k)
      BY <1>1, <2>3, SlotOrder
    <3>2. Slot(g, i) < Slot(h, k)
      BY <1>2, <1>5, <3>1, SectorAssumption
    <3> QED BY <3>2 DEF RestoredBefore
  <2> QED BY <1>1, <2>1, <2>2, <2>3
<1> QED BY <1>1, <1>3, <1>4, <1>5

\* Behind the last record of a segment comes the header of the next.
LEMMA SegmentPlayed ==
    ASSUME NEW f \in [Pos -> Cells], NEW db, NEW H, NEW last \in H, Links(f, db, H, last), NEW n \in Nat,
           NEW h \in H \ {last}, NEW R,
           RestoredBefore(f, R, H, last, n, Slot(h, f[h].num))
    PROVE  /\ RoundUp(Slot(h, f[h].num)) \in H
           /\ RestoredBefore(f, R, H, last, n, RoundUp(Slot(h, f[h].num)) + Sector)
<1> DEFINE next == RoundUp(Slot(h, f[h].num))
<1>1. next \in H
  BY LinkNumbers
<1>2. h \in Nat /\ f[h].num \in Nat /\ Slot(h, f[h].num) \in Nat /\ h < Slot(h, f[h].num)
      /\ Slot(h, f[h].num) <= next /\ next \in Nat
  <2>1. h \in Nat
    BY LinkNumbers
  <2>2. f[h].num \in Nat
    BY LinkNumbers
  <2>3. Slot(h, f[h].num) \in Nat /\ h + Sector <= Slot(h, f[h].num)
    BY <2>1, <2>2, SlotFacts
  <2>4. h < Slot(h, f[h].num)
    BY <2>1, <2>3, SectorAssumption
  <2> QED BY <2>1, <2>2, <2>3, <2>4, RoundUpMultiple
<1>3. \A g \in H : h < g => next <= g
  <2> SUFFICES ASSUME NEW g \in H, h < g PROVE next <= g
    OBVIOUS
  <2>1. Slot(h, f[h].num) <= g /\ RoundUp(g) = g /\ g \in Nat
    BY LinkNumbers
  <2> QED BY <1>2, <2>1, RoundUpLeast
<1> HIDE DEF next
<1>4. ASSUME NEW g \in H, NEW i \in 0 .. Count(f, last, n, g) - 1, Slot(g, i) < next + Sector
      PROVE  Slot(g, i) < Slot(h, f[h].num)
  <2>1. g \in Nat /\ i \in Nat /\ last \in Nat /\ h <= last
    <3>1. g \in Nat /\ last \in Nat /\ h <= last
      BY LinkNumbers
    <3>2. g # last => f[g].num \in Nat
      BY LinkNumbers
    <3> QED BY <3>1, <3>2 DEF Count
  <2>2. Slot(g, i) \in Nat /\ g + Sector <= Slot(g, i)
    BY <2>1, SlotFacts
  <2>3. ~(h < g)
    <3> SUFFICES ASSUME h < g PROVE FALSE
      OBVIOUS
    <3>1. next <= g
      BY <1>3
    <3> QED BY <1>2, <1>4, <2>1, <2>2, <3>1, SectorAssumption
  <2>4. g # last
    <3> SUFFICES ASSUME g = last PROVE FALSE
      OBVIOUS
    <3>1. h < last
      BY <1>2, <2>1
    <3> QED BY <2>3, <3>1
  <2>5. i \in 0 .. f[g].num - 1 /\ f[g].num \in Nat
    BY <2>4, LinkNumbers DEF Count
  <2>6. Slot(g, i) + Record <= Slot(g, f[g].num) /\ Slot(g, f[g].num) \in Nat
    <3>1. i < f[g].num
      BY <2>1, <2>5
    <3> QED BY <2>1, <2>5, <3>1, SlotOrder, SlotFacts
  <2>7. CASE g = h
    BY <1>2, <2>2, <2>6, <2>7, SectorAssumption
  <2>8. CASE g < h
    <3>1. Slot(g, f[g].num) <= h
      BY <2>4, <2>8, LinkNumbers
    <3> QED BY <1>2, <2>2, <2>6, <3>1, SectorAssumption
  <2> QED BY <1>2, <2>1, <2>3, <2>7, <2>8
<1>5. RestoredBefore(f, R, H, last, n, next + Sector)
  BY <1>4 DEF RestoredBefore
<1> QED BY <1>1, <1>5 DEF next

Replaying(j, to, R, H, last, n) ==
    AtHeader(j, to, R, H, last, n) \/ AtRecord(j, to, R, H, last, n)

\* A playback that starts.
LEMMA PlaybackStarts ==
    ASSUME NEW j, j.file \in [Pos -> Cells], j.off = 0, NEW db, NEW H, NEW last \in H,
           Links(j.file, db, H, last), NEW n \in Nat, NEW R
    PROVE  AtHeader(j, 0, R, H, last, n)
<1>1. RoundUp(j.off) = 0 /\ 0 \in H
  BY RoundUpSector, LinkNumbers
<1>2. ASSUME NEW h \in H, NEW k \in 0 .. Count(j.file, last, n, h) - 1
      PROVE  ~(Slot(h, k) < 0 + Sector)
  <2>1. h \in Nat /\ k \in Nat
    <3>1. h \in Nat
      BY LinkNumbers
    <3>2. h # last => j.file[h].num \in Nat
      BY LinkNumbers
    <3> QED BY <3>1, <3>2 DEF Count
  <2>2. h + Sector <= Slot(h, k) /\ Slot(h, k) \in Nat
    BY <2>1, SlotFacts
  <2> QED BY <2>1, <2>2, SectorAssumption
<1> QED BY <1>1, <1>2 DEF AtHeader, RestoredBefore

\* The header of a segment that is synced.
LEMMA HeaderPlayed ==
    ASSUME NEW j, j.file \in [Pos -> Cells], NEW db, NEW H, NEW last \in H,
           Links(j.file, db, H, last), NEW n \in Nat, NEW R, NEW to,
           AtHeader(j, to, R, H, last, n),
           NEW h, h = RoundUp(j.off), h # last,
           NEW w, w.file = j.file, w.off = h + Sector, w.init = j.file[h].init
    PROVE  Replaying(w, j.file[h].num, R, H, last, n)
<1>1. h \in H /\ h \in H \ {last} /\ RestoredBefore(j.file, R, H, last, n, h + Sector)
  BY DEF AtHeader
<1>2. h \in Nat /\ j.file[h].num \in Nat
  BY <1>1, LinkNumbers
<1>3. Slot(h, 0) = h + Sector
  BY <1>2, SlotFacts
<1>4. CASE j.file[h].num = 0
  <2>1. RestoredBefore(j.file, R, H, last, n, Slot(h, j.file[h].num))
    BY <1>1, <1>3, <1>4
  <2>2. /\ RoundUp(Slot(h, j.file[h].num)) \in H
        /\ RestoredBefore(j.file, R, H, last, n, RoundUp(Slot(h, j.file[h].num)) + Sector)
    BY <1>1, <2>1, SegmentPlayed
  <2>3. w.off = Slot(h, j.file[h].num)
    BY <1>3, <1>4
  <2> QED BY <1>4, <2>2, <2>3 DEF Replaying, AtHeader
<1>5. CASE j.file[h].num # 0
  <2>1. 0 \in 0 .. j.file[h].num - 1 /\ j.file[h].num = j.file[h].num - 0
    BY <1>2, <1>5
  <2> QED BY <1>1, <1>3, <2>1 DEF Replaying, AtRecord
<1> QED BY <1>4, <1>5

\* A record of a segment that is synced.
LEMMA RecordFound ==
    ASSUME NEW j, j.file \in [Pos -> Cells], NEW db, NEW H, NEW last \in H,
           Links(j.file, db, H, last), NEW n, NEW R, NEW to,
           AtRecord(j, to, R, H, last, n)
    PROVE  /\ to \in Nat \ {0}
           /\ j.off \in Pos /\ j.off + Record <= last
           /\ \E h \in H \ {last} : j.off + Record <= Slot(h, j.file[h].num)
           /\ j.file[j.off].num \in Covered(j.file, H, last)
           /\ \E p \in Page : j.file[j.off] = Original(db, p, j.init)
<1>0. PICK h \in H \ {last} : \E k \in 0 .. j.file[h].num - 1 :
          to = j.file[h].num - k /\ j.off = Slot(h, k) /\ j.init = j.file[h].init
  BY DEF AtRecord
<1>1. PICK k \in 0 .. j.file[h].num - 1 :
          to = j.file[h].num - k /\ j.off = Slot(h, k) /\ j.init = j.file[h].init
  BY <1>0
<1>2. j.file[h].num \in Nat
  BY LinkNumbers
<1>3. /\ Slot(h, k) \in Pos /\ Slot(h, k) + Record <= last /\ j.file[Slot(h, k)].num \in Page
      /\ Slot(h, k) + Record <= Slot(h, j.file[h].num)
  BY LinkNumbers
<1>4. \E p \in Page : j.file[Slot(h, k)] = Original(db, p, j.file[h].init)
  BY LinkNumbers DEF Segment
<1>5. j.file[Slot(h, k)].num \in Covered(j.file, H, last)
  BY <1>3 DEF Covered, PagesIn
<1> QED BY <1>1, <1>2, <1>3, <1>4, <1>5

\* A record that is played back leads to the next one, or to the end of its
\* segment.
LEMMA RecordPlayed ==
    ASSUME NEW j, j.file \in [Pos -> Cells], NEW db, NEW H, NEW last \in H,
           Links(j.file, db, H, last), NEW n \in Nat, NEW R, NEW to,
           AtRecord(j, to, R, H, last, n),
           NEW R2, R \subseteq R2, j.file[j.off].num \in R2,
           NEW w, w.file = j.file, w.off = j.off + Record, w.init = j.init
    PROVE  Replaying(w, to - 1, R2, H, last, n)
<1>0. PICK h \in H \ {last} : \E k \in 0 .. j.file[h].num - 1 :
          to = j.file[h].num - k /\ j.off = Slot(h, k) /\ j.init = j.file[h].init
  BY DEF AtRecord
<1>1. PICK k \in 0 .. j.file[h].num - 1 :
          to = j.file[h].num - k /\ j.off = Slot(h, k) /\ j.init = j.file[h].init
  BY <1>0
<1>2. h \in Nat /\ j.file[h].num \in Nat /\ k \in Nat /\ k + 1 \in Nat
  BY LinkNumbers
<1>3. RestoredBefore(j.file, R2, H, last, n, Slot(h, k) + Record)
  <2> DEFINE p == j.file[Slot(h, k)].num
  <2>1. RestoredBefore(j.file, R, H, last, n, Slot(h, k))
    BY <1>1 DEF AtRecord
  <2>2. RestoredBefore(j.file, R \cup {p}, H, last, n, Slot(h, k) + Record)
    BY <2>1, RecordsInOrder
  <2>3. R \cup {p} \subseteq R2
    BY <1>1
  <2> HIDE DEF p
  <2> QED BY <2>2, <2>3, RestoredByMore
<1>4. Slot(h, k + 1) = Slot(h, k) + Record
  BY <1>2, SlotFacts
<1>5. CASE k + 1 = j.file[h].num
  <2>1. RestoredBefore(j.file, R2, H, last, n, Slot(h, j.file[h].num))
    BY <1>3, <1>4, <1>5
  <2>2. /\ RoundUp(Slot(h, j.file[h].num)) \in H
        /\ RestoredBefore(j.file, R2, H, last, n, RoundUp(Slot(h, j.file[h].num)) + Sector)
    BY <2>1, SegmentPlayed
  <2>3. to - 1 = 0 /\ w.off = Slot(h, j.file[h].num)
    BY <1>1, <1>2, <1>4, <1>5
  <2> QED BY <2>2, <2>3 DEF Replaying, AtHeader
<1>6. CASE k + 1 # j.file[h].num
  <2>1. k + 1 \in 0 .. j.file[h].num - 1 /\ to - 1 = j.file[h].num - (k + 1)
    BY <1>1, <1>2, <1>6
  <2>2. w.off = Slot(h, k + 1) /\ w.init = j.file[h].init
    BY <1>1, <1>4
  <2> QED BY <1>3, <1>4, <2>1, <2>2 DEF Replaying, AtRecord
<1> QED BY <1>5, <1>6

\* Every record of the journal is before the end of its last segment, ...
LEMMA RecordsEnd ==
    ASSUME NEW f \in [Pos -> Cells], NEW db, NEW H, NEW last \in H, Links(f, db, H, last), NEW n \in Nat,
           NEW g \in H, NEW i \in 0 .. Count(f, last, n, g) - 1
    PROVE  /\ i \in Nat /\ Slot(g, i) \in Nat
           /\ g # last => Slot(g, i) + Record <= last
           /\ g = last => i < n
           /\ Slot(g, i) + Record <= Slot(last, n)
<1>1. g \in Nat /\ last \in Nat /\ (g # last => f[g].num \in Nat)
  BY LinkNumbers
<1>2. i \in Nat
  BY <1>1 DEF Count
<1>3. Slot(g, i) \in Nat /\ Slot(last, n) \in Nat /\ last + Sector <= Slot(last, n)
  BY <1>1, <1>2, SlotFacts
<1>4. CASE g = last
  <2>1. i < n
    BY <1>2, <1>4 DEF Count
  <2>2. Slot(last, i) + Record <= Slot(last, n)
    BY <1>1, <1>2, <2>1, SlotOrder
  <2> QED BY <1>2, <1>3, <1>4, <2>1, <2>2
<1>5. CASE g # last
  <2>1. i \in 0 .. f[g].num - 1 /\ g \in H \ {last}
    BY <1>5 DEF Count
  <2>2. Slot(g, i) + Record <= last
    BY <2>1, LinkNumbers
  <2> QED BY <1>1, <1>2, <1>3, <1>5, <2>2, SectorAssumption
<1> QED BY <1>4, <1>5

\* ... so that nothing is left to restore behind it.
LEMMA TailEnded ==
    ASSUME NEW f \in [Pos -> Cells], NEW db, NEW H \in SUBSET Pos, NEW last \in H,
           Chain(f, db, H, last), NEW n \in Nat, NEW R, NEW k \in Nat, n <= k,
           RestoredBefore(f, R, H, last, n, Slot(last, k)), NEW o
    PROVE  RestoredBefore(f, R, H, last, n, o)
<1> SUFFICES ASSUME NEW g \in H, NEW i \in 0 .. Count(f, last, n, g) - 1
             PROVE  Slot(g, i) < Slot(last, k)
  BY DEF RestoredBefore
<1>1. Slot(g, i) + Record <= Slot(last, n) /\ Slot(g, i) \in Nat
  BY RecordsEnd, ChainLinks
<1>2. Slot(last, n) <= Slot(last, k) /\ Slot(last, n) \in Nat /\ Slot(last, k) \in Nat
  <2>1. last \in Nat
    BY Positions
  <2>2. Slot(last, n) \in Nat /\ Slot(last, k) \in Nat
    BY <2>1, SlotFacts
  <2>3. CASE n = k
    BY <2>2, <2>3
  <2>4. CASE n < k
    <3>1. Slot(last, n) + Record <= Slot(last, k)
      BY <2>1, <2>4, SlotOrder
    <3> QED BY <2>2, <3>1, SectorAssumption
  <2> QED BY <2>3, <2>4
<1> QED BY <1>1, <1>2, SectorAssumption

\* One more record of the last segment.
LEMMA TailOneMore ==
    ASSUME NEW f \in [Pos -> Cells], NEW db, NEW H \in SUBSET Pos, NEW last \in H,
           Chain(f, db, H, last), NEW n \in Nat, NEW R, NEW k \in Nat,
           RestoredBefore(f, R, H, last, n, Slot(last, k)),
           NEW R2, R \subseteq R2, k < n => f[Slot(last, k)].num \in R2
    PROVE  RestoredBefore(f, R2, H, last, n, Slot(last, k + 1))
<1> SUFFICES ASSUME NEW g \in H, NEW i \in 0 .. Count(f, last, n, g) - 1,
                    Slot(g, i) < Slot(last, k + 1)
             PROVE  f[Slot(g, i)].num \in R2
  BY DEF RestoredBefore
<1>1. /\ i \in Nat /\ Slot(g, i) \in Nat
      /\ g # last => Slot(g, i) + Record <= last
      /\ g = last => i < n
  BY RecordsEnd, ChainLinks
<1>2. last \in Nat /\ Slot(last, k) \in Nat /\ last + Sector <= Slot(last, k)
      /\ Slot(last, k + 1) = Slot(last, k) + Record
  <2>1. last \in Nat
    BY Positions
  <2> QED BY <2>1, SlotFacts
<1>3. CASE g # last
  <2>1. Slot(g, i) < Slot(last, k)
    BY <1>1, <1>2, <1>3, SectorAssumption
  <2> QED BY <2>1 DEF RestoredBefore
<1>4. CASE g = last
  <2>1. ~(k < i)
    <3> SUFFICES ASSUME k < i PROVE FALSE
      OBVIOUS
    <3>1. Slot(last, k) + Record <= Slot(last, i)
      BY <1>1, <1>2, SlotOrder
    <3> QED BY <1>1, <1>2, <1>4, <3>1, SectorAssumption
  <2>2. CASE i = k
    BY <1>1, <1>4, <2>2
  <2>3. CASE i < k
    <3>1. Slot(last, i) + Record <= Slot(last, k)
      BY <1>1, <1>2, <2>3, SlotOrder
    <3>2. Slot(g, i) < Slot(last, k)
      BY <1>1, <1>2, <1>4, <3>1, SectorAssumption
    <3> QED BY <3>2 DEF RestoredBefore
  <2> QED BY <1>1, <2>1, <2>2, <2>3
<1> QED BY <1>3, <1>4

\* The place behind the last record that fits in the file is its end.
LEMMA TailPlace ==
    ASSUME NEW f \in [Pos -> Cells], NEW db, NEW H \in SUBSET Pos, NEW last \in H,
           Chain(f, db, H, last), NEW n \in Nat, NEW R, NEW k \in Nat, NEW to \in Nat,
           NEW j, j.file = f, j.size \in Nat, j.off = Slot(last, k), j.init = f[last].init,
           j.off + Record * to <= j.size, j.size < j.off + Record * to + Record,
           Slot(last, n) <= j.size,
           RestoredBefore(f, R, H, last, n, Slot(last, k))
    PROVE  InTail(j, to, R, H, last, n) \/ AtEnd(j, to, R, H, last, n)
<1>1. CASE to # 0
  BY <1>1 DEF InTail
<1>2. CASE to = 0
  <2>1. last \in Nat /\ Slot(last, k) \in Nat /\ Slot(last, n) \in Nat
    <3>1. last \in Nat
      BY Positions
    <3> QED BY <3>1, SlotFacts
  <2>2. j.size < Slot(last, k) + Record
    <3>1. Record * to = 0
      BY <1>2, SectorAssumption
    <3> QED BY <2>1, <3>1, SectorAssumption
  <2>3. n <= k
    <3> SUFFICES ASSUME k < n PROVE FALSE
      OBVIOUS
    <3>1. Slot(last, k) + Record <= Slot(last, n)
      BY <2>1, SlotOrder
    <3> QED BY <2>1, <2>2, <3>1, SectorAssumption
  <2>4. RestoredBefore(f, R, H, last, n, j.size)
    BY <2>3, TailEnded
  <2>5. RoundUp(j.off) + Sector > j.size
    <3>1. j.off <= RoundUp(j.off) /\ RoundUp(j.off) \in Nat
      BY <2>1, RoundUpMultiple
    <3> QED BY <2>1, <2>2, <3>1, SectorAssumption
  <2> QED BY <1>2, <2>4, <2>5 DEF AtEnd
<1> QED BY <1>1, <1>2

\* The header that is not synced: its records are counted from the size of the
\* file.
LEMMA LastHeaderPlayed ==
    ASSUME NEW j \in Journals, NEW db, NEW H \in SUBSET Pos, NEW last \in H,
           Chain(j.file, db, H, last), NEW n \in Nat, Slot(last, n) <= j.size, NEW R, NEW to,
           AtHeader(j, to, R, H, last, n), last = RoundUp(j.off),
           NEW w, w.file = j.file, w.size = j.size, w.off = last + Sector,
           w.init = j.file[last].init,
           NEW left2, left2 = (j.size - (last + Sector)) \div Record
    PROVE  /\ left2 \in Nat
           /\ InTail(w, left2, R, H, last, n) \/ AtEnd(w, left2, R, H, last, n)
<1>1. j.size \in Nat /\ j.file \in [Pos -> Cells]
  BY Positions DEF Journals, JournalsOf, Cells
<1>2. last \in Nat /\ Slot(last, 0) = last + Sector /\ Slot(last, 0) \in Nat
      /\ last + Sector <= Slot(last, n) /\ Slot(last, n) \in Nat
  <2>1. last \in Nat
    BY Positions
  <2> QED BY <2>1, SlotFacts
<1>3. RestoredBefore(j.file, R, H, last, n, Slot(last, 0))
  BY <1>2 DEF AtHeader
<1> DEFINE rest == j.size - (last + Sector)
<1>4. rest \in Nat
  BY <1>1, <1>2, SectorAssumption
<1>5. left2 \in Nat /\ Record * left2 <= rest /\ rest < Record * left2 + Record
  <2>1. rest \div Record \in Nat /\ (rest \div Record) * Record <= rest
        /\ rest < (rest \div Record) * Record + Record
    <3> HIDE DEF rest
    <3> QED BY <1>4, SectorAssumption
  <2>2. left2 = rest \div Record
    OBVIOUS
  <2> HIDE DEF rest
  <2>3. Record * left2 = left2 * Record
    BY <2>1, <2>2, SectorAssumption
  <2> QED BY <2>1, <2>2, <2>3
<1>6. w.off + Record * left2 <= w.size /\ w.size < w.off + Record * left2 + Record
  <2>1. Record * left2 \in Nat
    BY <1>5, SectorAssumption
  <2> QED BY <1>1, <1>2, <1>5, <2>1, SectorAssumption
<1>7. w.off = Slot(last, 0) /\ 0 \in Nat /\ w.size \in Nat /\ Slot(last, n) <= w.size
  BY <1>1, <1>2
<1>8. InTail(w, left2, R, H, last, n) \/ AtEnd(w, left2, R, H, last, n)
  BY <1>1, <1>3, <1>5, <1>6, <1>7, TailPlace
<1> QED BY <1>5, <1>8

\* What can be found there: a record of the transaction, or something that
\* does not have its checksum.
LEMMA TailFound ==
    ASSUME NEW j \in Journals, NEW db, NEW H \in SUBSET Pos, NEW last \in H,
           NEW n \in Nat, LastSegment(j.file, db, last, n), NEW R, NEW to,
           InTail(j, to, R, H, last, n)
    PROVE  /\ to \in Nat \ {0}
           /\ j.off \in Pos /\ last < j.off /\ j.off + Record <= j.size
           /\ \/ /\ j.file[j.off].num \in PagesIn(j.file, last, n)
                 /\ \E p \in Page : j.file[j.off] = Original(db, p, j.init)
              \/ ~(j.file[j.off].kind = "rec" /\ j.file[j.off].init = j.init)
<1>1. PICK k \in Nat : j.off = Slot(last, k)
  BY DEF InTail
<1>2. to \in Nat \ {0} /\ j.init = j.file[last].init /\ j.off + Record * to <= j.size
  BY DEF InTail
<1>3. last \in Nat /\ j.off \in Nat /\ last < j.off
  <2>1. last \in Nat
    BY Positions
  <2>2. Slot(last, k) \in Nat /\ last + Sector <= Slot(last, k)
    BY <2>1, SlotFacts
  <2> QED BY <1>1, <2>1, <2>2, SectorAssumption
<1>4. j.off \in Pos /\ j.off + Record <= j.size
  <2>1. j.size \in 0 .. MaxPos
    BY DEF Journals, JournalsOf, Cells
  <2>2. Record * to \in Nat /\ Record <= Record * to
    <3>1. to - 1 \in Nat /\ Record * to = Record * (to - 1) + Record
      BY <1>2, SectorAssumption
    <3>2. Record * (to - 1) \in Nat
      BY <3>1, SectorAssumption
    <3> QED BY <3>1, <3>2, SectorAssumption
  <2>3. j.off < MaxPos /\ j.off + Record <= j.size
    BY <1>2, <1>3, <2>1, <2>2, Positions, SectorAssumption
  <2> QED BY <1>3, <2>3, Positions DEF Pos
<1>5. CASE j.file[j.off].kind = "rec" /\ j.file[j.off].init = j.init
  <2>1. PICK i \in 0 .. n - 1 : j.off = Slot(last, i)
    BY <1>2, <1>4, <1>5 DEF LastSegment
  <2>2. \E p \in Page : j.file[Slot(last, i)] = Original(db, p, j.file[last].init)
    BY DEF LastSegment, Segment
  <2>3. j.file[Slot(last, i)].num \in PagesIn(j.file, last, n)
    BY DEF PagesIn
  <2> QED BY <1>2, <1>3, <1>4, <2>1, <2>2, <2>3
<1> QED BY <1>2, <1>3, <1>4, <1>5

\* The playback goes on behind it, ...
LEMMA TailPlayed ==
    ASSUME NEW j \in Journals, NEW db, NEW H \in SUBSET Pos, NEW last \in H,
           Chain(j.file, db, H, last), NEW n \in Nat, LastSegment(j.file, db, last, n),
           Slot(last, n) <= j.size, NEW R, NEW to, InTail(j, to, R, H, last, n),
           NEW R2, R \subseteq R2,
           (\E p \in Page : j.file[j.off] = Original(db, p, j.init)) => j.file[j.off].num \in R2,
           NEW w, w.file = j.file, w.size = j.size, w.off = j.off + Record, w.init = j.init
    PROVE  InTail(w, to - 1, R2, H, last, n) \/ AtEnd(w, to - 1, R2, H, last, n)
<1>1. PICK k \in Nat : j.off = Slot(last, k)
  BY DEF InTail
<1>2. /\ to \in Nat \ {0} /\ j.init = j.file[last].init
      /\ j.off + Record * to <= j.size /\ j.size < j.off + Record * to + Record
      /\ RestoredBefore(j.file, R, H, last, n, Slot(last, k))
  BY <1>1 DEF InTail
<1>3. j.size \in Nat /\ j.file \in [Pos -> Cells]
  BY Positions DEF Journals, JournalsOf, Cells
<1>4. last \in Nat /\ Slot(last, k) \in Nat /\ Slot(last, k + 1) = Slot(last, k) + Record
  <2>1. last \in Nat
    BY Positions
  <2> QED BY <2>1, SlotFacts
<1>5. RestoredBefore(j.file, R2, H, last, n, Slot(last, k + 1))
  <2>1. k < n => \E p \in Page : j.file[j.off] = Original(db, p, j.init)
    BY <1>1, <1>2 DEF LastSegment, Segment
  <2>2. k < n => j.file[Slot(last, k)].num \in R2
    BY <1>1, <2>1
  <2> QED BY <1>2, <1>3, <2>2, TailOneMore
<1>6. to - 1 \in Nat /\ Record * to = Record * (to - 1) + Record /\ Record * (to - 1) \in Nat
  <2>1. to - 1 \in Nat /\ Record * to = Record * (to - 1) + Record
    BY <1>2, SectorAssumption
  <2> QED BY <2>1, SectorAssumption
<1>7. w.off + Record * (to - 1) <= w.size /\ w.size < w.off + Record * (to - 1) + Record
  BY <1>1, <1>2, <1>3, <1>4, <1>6, SectorAssumption
<1>8. w.off = Slot(last, k + 1) /\ k + 1 \in Nat /\ w.size \in Nat /\ Slot(last, n) <= w.size
      /\ w.init = j.file[last].init
  BY <1>1, <1>2, <1>3, <1>4
<1> QED BY <1>3, <1>5, <1>6, <1>7, <1>8, TailPlace

\* ... or is over.
LEMMA TailLeft ==
    ASSUME NEW j \in Journals, NEW db, NEW H \in SUBSET Pos, NEW last \in H,
           Chain(j.file, db, H, last), NEW n \in Nat, LastSegment(j.file, db, last, n),
           NEW R, NEW to, InTail(j, to, R, H, last, n),
           ~\E p \in Page : j.file[j.off] = Original(db, p, j.init),
           NEW w, w.file = j.file, w.size = j.size, w.off = j.size
    PROVE  AtEnd(w, 0, R, H, last, n)
<1>1. PICK k \in Nat : j.off = Slot(last, k)
  BY DEF InTail
<1>2. j.init = j.file[last].init /\ RestoredBefore(j.file, R, H, last, n, Slot(last, k))
  BY <1>1 DEF InTail
<1>3. j.size \in Nat /\ j.file \in [Pos -> Cells]
  BY Positions DEF Journals, JournalsOf, Cells
<1>4. n <= k
  <2> SUFFICES ASSUME k < n PROVE FALSE
    OBVIOUS
  <2>1. k \in 0 .. n - 1
    OBVIOUS
  <2> QED BY <1>1, <1>2, <2>1 DEF LastSegment, Segment
<1>5. RestoredBefore(j.file, R, H, last, n, j.size)
  BY <1>2, <1>3, <1>4, TailEnded
<1>6. RoundUp(w.off) + Sector > w.size
  <2>1. j.size <= RoundUp(j.size) /\ RoundUp(j.size) \in Nat
    BY <1>3, RoundUpMultiple
  <2> QED BY <1>3, <2>1, SectorAssumption
<1> QED BY <1>5, <1>6 DEF AtEnd

\* A playback that has passed all records has restored all their pages.
LEMMA AllRestored ==
    ASSUME NEW f \in [Pos -> Cells], NEW db, NEW H, NEW last \in H, Links(f, db, H, last), NEW n \in Nat, NEW R, NEW o \in Nat, Slot(last, n) <= o,
           RestoredBefore(f, R, H, last, n, o)
    PROVE  Covered(f, H, last) \subseteq R /\ PagesIn(f, last, n) \subseteq R
<1>1. ASSUME NEW g \in H, NEW i \in 0 .. Count(f, last, n, g) - 1
      PROVE  f[Slot(g, i)].num \in R
  <2>1. Slot(g, i) + Record <= Slot(last, n) /\ Slot(g, i) \in Nat
    BY RecordsEnd
  <2>2. Slot(last, n) \in Nat
    BY SlotFacts, LinkNumbers
  <2>3. Slot(g, i) < o
    BY <2>1, <2>2, SectorAssumption
  <2> QED BY <2>3 DEF RestoredBefore
<1> QED BY <1>1 DEF Covered, PagesIn, Count

\* The headers of the segments that are synced are read.
LEMMA HeaderIsThere ==
    ASSUME NEW f \in [Pos -> Cells], NEW db, NEW H, NEW last \in H, Links(f, db, H, last), NEW h \in H
    PROVE  h # last => h + Sector <= last /\ HasMagic(f[h])
<1> SUFFICES ASSUME h # last PROVE h + Sector <= last /\ HasMagic(f[h])
  OBVIOUS
<1>1. h \in Nat /\ f[h].num \in Nat /\ Slot(h, f[h].num) <= last /\ last \in Nat /\ HasMagic(f[h])
  BY LinkNumbers
<1>2. h + Sector <= Slot(h, f[h].num) /\ Slot(h, f[h].num) \in Nat
  BY <1>1, SlotFacts
<1> QED BY <1>1, <1>2, SectorAssumption

\* Room for a record per page.
LEMMA PagesFit == NPages <= MaxPos
<1> DEFINE w == Sector + RoundUp(Record)
<1>1. w - 1 \in Nat
  BY RoundUpMultiple, SectorAssumption
<1>2. w \in Nat
  BY RoundUpMultiple, SectorAssumption
<1> HIDE DEF w
<1>3. NPages * w = NPages + NPages * (w - 1) /\ NPages * (w - 1) \in Nat
  <2>1. PICK v \in Nat : w - 1 = v /\ w = v + 1
    BY <1>1, <1>2
  <2>2. NPages * (v + 1) = NPages + NPages * v /\ NPages * v \in Nat
    BY NPagesAssumption
  <2> QED BY <2>1, <2>2
<1>4. Weight(NPages) = NPages * w
  BY DEF Weight, w
<1> QED BY <1>3, <1>4, Positions, SectorAssumption, NPagesAssumption

------------------------------------------------------------------------------
(* Induction.                                                               *)

\* The order of the natural numbers, as a set of pairs.
Less == OpToRel(<, Nat)

\* A set of natural numbers that is not empty has a least one.
LEMMA Least ==
    ASSUME NEW T \in SUBSET Nat, T # {}
    PROVE  \E m \in T : \A k \in T : m <= k
<1>1. IsWellFoundedOn(Less, Nat)
  BY NatLessThanWellFounded DEF Less
<1>2. PICK m \in T : \A k \in T : ~(<<k, m>> \in Less)
  BY <1>1, WFMin
<1>3. \A k \in T : m <= k
  <2> SUFFICES ASSUME NEW k \in T PROVE m <= k
    OBVIOUS
  <2>1. k \in Nat /\ m \in Nat
    OBVIOUS
  <2>2. ~(k < m)
    BY <1>2, <2>1 DEF Less, OpToRel
  <2> QED BY <2>1, <2>2
<1> QED BY <1>3

\* Induction over the natural numbers, for a set.
LEMMA AllNaturals ==
    ASSUME NEW S, 0 \in S, \A n \in Nat : n \in S => n + 1 \in S
    PROVE  Nat \subseteq S
<1> SUFFICES ASSUME NEW n \in Nat, n \notin S PROVE FALSE
  OBVIOUS
<1>1. PICK m \in Nat \ S : \A k \in Nat \ S : m <= k
  <2>1. Nat \ S \in SUBSET Nat /\ Nat \ S # {}
    OBVIOUS
  <2> QED BY <2>1, Least
<1>2. m # 0 /\ m - 1 \in Nat
  OBVIOUS
<1>3. m - 1 \in S
  BY <1>1, <1>2
<1>4. (m - 1) + 1 = m
  OBVIOUS
<1> QED BY <1>2, <1>3, <1>4

\* f is what n steps from `first` pass through.
Sequence(f, first, step, n) ==
    f = [k \in 0 .. n |-> IF k = 0 THEN first ELSE step[f[k - 1]]]

\* A step that is taken again and again gives a sequence.
LEMMA Iterated ==
    ASSUME NEW X, NEW first \in X, NEW step \in [X -> X], NEW n \in Nat
    PROVE  \E f \in [0 .. n -> X] : Sequence(f, first, step, n)
<1> DEFINE Started(f, m) == /\ f \in [0 .. m -> X] /\ f[0] = first
                            /\ \A k \in 0 .. m : k # 0 => f[k] = step[f[k - 1]]
           S == {m \in Nat : \E f : Started(f, m)}
<1>1. 0 \in S
  <2>1. Started([k \in 0 .. 0 |-> first], 0)
    OBVIOUS
  <2> QED BY <2>1
<1>2. ASSUME NEW m \in Nat, m \in S PROVE m + 1 \in S
  <2>1. PICK f : Started(f, m)
    BY <1>2
  <2> DEFINE g == [k \in 0 .. m + 1 |-> IF k <= m THEN f[k] ELSE step[f[m]]]
  <2>2. f[m] \in X /\ step[f[m]] \in X
    BY <2>1
  <2>3. g \in [0 .. m + 1 -> X]
    BY <2>1, <2>2
  <2>4. \A k \in 0 .. m : g[k] = f[k]
    OBVIOUS
  <2>5. g[m + 1] = step[f[m]]
    OBVIOUS
  <2> HIDE DEF g
  <2>6. g[0] = first
    BY <2>1, <2>4
  <2>7. ASSUME NEW k \in 0 .. m + 1, k # 0 PROVE g[k] = step[g[k - 1]]
    <3>1. CASE k = m + 1
      BY <2>4, <2>5, <3>1
    <3>2. CASE k # m + 1
      <4>1. k \in 0 .. m /\ k - 1 \in 0 .. m
        BY <2>7, <3>2
      <4> QED BY <2>1, <2>4, <2>7, <4>1
    <3> QED BY <3>1, <3>2
  <2>8. Started(g, m + 1)
    BY <2>3, <2>6, <2>7
  <2> QED BY <2>8
<1>3. n \in S
  BY <1>1, <1>2, AllNaturals
<1>4. PICK f : Started(f, n)
  BY <1>3
<1>5. f = [k \in 0 .. n |-> IF k = 0 THEN first ELSE step[f[k - 1]]]
  BY <1>4
<1> QED BY <1>4, <1>5 DEF Sequence

------------------------------------------------------------------------------
(* What a hot rollback finds.                                               *)

\* A hot rollback of journal j finds the segments at S and no other.
Findable(j, db, S, end) ==
    /\ Segments(j.file, db, S, end)
    /\ \A h \in S : Slot(h, j.file[h].num) <= j.size
    /\ end < j.size => ~HasMagic(j.file[end])

\* Behind a header of S the next one is the nearest of S, or `end`.
LEMMA NextSegment ==
    ASSUME NEW f \in [Pos -> Cells], NEW db, NEW S \in SUBSET Pos, NEW end \in Nat,
           Segments(f, db, S, end), NEW h \in S, h # 0
    PROVE  \E g \in S : g < h /\ RoundUp(Slot(g, f[g].num)) = h
<1>1. /\ \A g \in S : g \in Nat /\ g < end /\ f[g].num \in Nat
      /\ 0 \in S
  <2>1. \A g \in S : g \in Nat /\ g < end
    BY Positions DEF Segments
  <2>2. \A g \in S : f[g].num \in Nat
    BY NPagesAssumption DEF Cells, CellsOf
  <2> QED BY <2>1, <2>2 DEF Segments
<1> DEFINE T == {d \in Nat : \E g \in S : g < h /\ d = h - g}
<1>2. h \in Nat /\ h > 0
  BY <1>1
<1>3. T \in SUBSET Nat /\ T # {}
  <2>1. h - 0 \in T
    BY <1>1, <1>2
  <2> QED BY <2>1
<1>4. PICK d \in T : \A e \in T : d <= e
  BY <1>3, Least
<1>5. PICK g \in S : g < h /\ d = h - g
  BY <1>4
<1>6. ASSUME NEW r \in S, g < r, r < h PROVE FALSE
  <2>1. h - r \in Nat /\ r \in Nat /\ g \in Nat
    BY <1>1, <1>2, <1>6
  <2>2. h - r \in T
    BY <1>6, <2>1
  <2>3. d <= h - r
    BY <1>4, <2>2
  <2> QED BY <1>2, <1>5, <1>6, <2>1, <2>3
<1> DEFINE next == RoundUp(Slot(g, f[g].num))
<1>7. /\ next \in S \cup {end} /\ Slot(g, f[g].num) <= h /\ RoundUp(h) = h /\ h < end
  BY <1>5 DEF Segments
<1>8. Slot(g, f[g].num) \in Nat /\ g + Sector <= Slot(g, f[g].num)
  BY <1>1, SlotFacts
<1>9. /\ next \in Nat /\ Slot(g, f[g].num) <= next /\ next <= h
  BY <1>2, <1>7, <1>8, RoundUpMultiple, RoundUpLeast
<1>10. g < next
  BY <1>1, <1>8, <1>9, SectorAssumption
<1>11. next # end
  BY <1>2, <1>7, <1>9
<1> HIDE DEF next
<1>12. next = h
  <2>1. next \in S
    BY <1>7, <1>11
  <2>2. ~(next < h)
    BY <1>6, <1>10, <2>1
  <2> QED BY <1>2, <1>9, <2>2
<1> QED BY <1>5, <1>12 DEF next

\* Where a hot rollback looks for the header behind the one at h.
NextHot(h) == IF h < jrn.size /\ HasMagic(jrn.file[h])
              THEN RoundUp(h + Sector + Record * jrn.file[h].num)
              ELSE jrn.size

\* Sequence s of places to look at gives the headers.
HotStarts(s) ==
    /\ s = [k \in 0 .. jrn.size \div Sector |-> IF k = 0 THEN 0 ELSE NextHot(s[k - 1])]
    /\ HotHeaders = {h \in {s[k] : k \in 0 .. jrn.size \div Sector} :
                        h < jrn.size /\ HasMagic(jrn.file[h])}

\* It looks there again and again.
LEMMA HotHeadersRead ==
    ASSUME NEW g, g = [k \in 0 .. jrn.size \div Sector |-> IF k = 0 THEN 0 ELSE NextHot(g[k - 1])]
    PROVE  \E s : HotStarts(s)
<1> DEFINE start[k \in 0 .. jrn.size \div Sector] ==
            IF k = 0 THEN 0
            ELSE LET h == start[k - 1]
                 IN IF h < jrn.size /\ HasMagic(jrn.file[h])
                    THEN RoundUp(h + Sector + Record * jrn.file[h].num)
                    ELSE jrn.size
<1>1. start = [k \in 0 .. jrn.size \div Sector |-> IF k = 0 THEN 0 ELSE NextHot(start[k - 1])]
  BY DEF NextHot
<1>2. HotHeaders = {h \in {start[k] : k \in 0 .. jrn.size \div Sector} :
                                          h < jrn.size /\ HasMagic(jrn.file[h])}
  BY DEF HotHeaders
<1> HIDE DEF start
<1>3. HotStarts(start)
  BY <1>1, <1>2 DEF HotStarts
<1> QED BY <1>3

\* The headers that are found are those of the segments.
LEMMA HeadersFound ==
    ASSUME jrn \in Journals, NEW db, NEW S \in SUBSET Pos, NEW end \in Nat,
           Findable(jrn, db, S, end)
    PROVE  HotHeaders = S
<1> DEFINE f == jrn.file
           size == jrn.size
           n == size \div Sector
           step == [h \in Nat |-> NextHot(h)]
<1>1. /\ f \in [Pos -> Cells] /\ size \in Nat /\ size <= MaxPos
      /\ \A h \in Nat : h < size => h \in Pos /\ f[h].num \in Nat
  <2>1. f \in [Pos -> Cells] /\ size \in 0 .. MaxPos
    BY DEF Journals, JournalsOf, Cells
  <2>2. \A h \in Nat : h < size => h \in Pos
    BY <2>1, Positions DEF Pos
  <2>3. \A h \in Pos : f[h].num \in Nat
    BY <2>1, NPagesAssumption DEF Cells, CellsOf
  <2> QED BY <2>1, <2>2, <2>3, Positions
<1>2. n \in Nat
  BY <1>1, Division
<1>3. step \in [Nat -> Nat]
  <2> SUFFICES ASSUME NEW h \in Nat PROVE NextHot(h) \in Nat
    OBVIOUS
  <2>1. CASE h < size /\ HasMagic(f[h])
    <3>1. Slot(h, f[h].num) \in Nat
      BY <1>1, <2>1, SlotFacts
    <3>2. RoundUp(Slot(h, f[h].num)) \in Nat
      BY <3>1, RoundUpMultiple
    <3> QED BY <2>1, <3>2 DEF Slot, NextHot
  <2>2. CASE ~(h < size /\ HasMagic(f[h]))
    BY <1>1, <2>2 DEF NextHot
  <2> QED BY <2>1, <2>2
<1>4. PICK chain \in [0 .. n -> Nat] : Sequence(chain, 0, step, n)
  <2>1. PICK s \in [Nat -> Nat] : s = step
    BY <1>3
  <2>2. PICK m \in Nat : m = n
    BY <1>2
  <2>3. \E chain \in [0 .. m -> Nat] : Sequence(chain, 0, s, m)
    <3>1. 0 \in Nat
      OBVIOUS
    <3> QED BY <3>1, Iterated
  <2> HIDE DEF step, n
  <2> QED BY <2>1, <2>2, <2>3
<1>5. chain = [k \in 0 .. n |-> IF k = 0 THEN 0 ELSE NextHot(chain[k - 1])]
  <2>1. \A k \in 0 .. n : k # 0 => step[chain[k - 1]] = NextHot(chain[k - 1])
    <3> SUFFICES ASSUME NEW k \in 0 .. n, k # 0 PROVE step[chain[k - 1]] = NextHot(chain[k - 1])
      OBVIOUS
    <3> HIDE DEF n
    <3>1. k - 1 \in 0 .. n
      BY <1>2
    <3>2. chain[k - 1] \in Nat
      BY <1>4, <3>1
    <3> QED BY <3>2
  <2> HIDE DEF step, n
  <2> QED BY <1>4, <2>1 DEF Sequence
<1>6. PICK start : HotStarts(start)
  BY <1>5, HotHeadersRead
<1>7. 0 \in 0 .. n /\ start[0] = 0
  BY <1>2, <1>6 DEF HotStarts
<1>8. \A k \in Nat : k + 1 <= n => start[k + 1] = NextHot(start[k])
  <2> SUFFICES ASSUME NEW k \in Nat, k + 1 <= n PROVE start[k + 1] = NextHot(start[k])
    OBVIOUS
  <2>1. k + 1 \in 0 .. n /\ k + 1 # 0 /\ (k + 1) - 1 = k
    BY <1>2
  <2> HIDE DEF n
  <2> QED BY <1>6, <2>1 DEF HotStarts, n
<1>9. \A h \in S : /\ h \in Nat /\ h < size /\ HasMagic(f[h]) /\ h < end
                   /\ NextHot(h) = RoundUp(Slot(h, f[h].num)) /\ NextHot(h) \in S \cup {end}
  <2> SUFFICES ASSUME NEW h \in S
               PROVE  /\ h \in Nat /\ h < size /\ HasMagic(f[h]) /\ h < end
                      /\ NextHot(h) = RoundUp(Slot(h, f[h].num)) /\ NextHot(h) \in S \cup {end}
    OBVIOUS
  <2>1. /\ h \in Nat /\ HasMagic(f[h]) /\ h < end
        /\ RoundUp(Slot(h, f[h].num)) \in S \cup {end} /\ Slot(h, f[h].num) <= size
    BY Positions DEF Findable, Segments
  <2>2. f[h].num \in Nat
    BY <1>1, NPagesAssumption DEF Cells, CellsOf
  <2>3. h + Sector <= Slot(h, f[h].num) /\ Slot(h, f[h].num) \in Nat
    BY <2>1, <2>2, SlotFacts
  <2>4. h < size
    BY <1>1, <2>1, <2>3, SectorAssumption
  <2> QED BY <2>1, <2>4 DEF Slot, NextHot
<1>10. NextHot(end) = size /\ NextHot(size) = size
  BY <1>1 DEF Findable, NextHot
<1> HIDE DEF n
<1>11. \A k \in Nat : k <= n => start[k] \in S \cup {end, size}
  <2> DEFINE K == {k \in Nat : k <= n => start[k] \in S \cup {end, size}}
  <2>1. 0 \in K
    BY <1>7 DEF Findable, Segments
  <2>2. ASSUME NEW k \in Nat, k \in K PROVE k + 1 \in K
    BY <1>2, <1>8, <1>9, <1>10, <2>2
  <2>3. Nat \subseteq K
    <3> HIDE DEF K
    <3> QED BY <2>1, <2>2, AllNaturals
  <2> QED BY <2>3
<1>12. HotHeaders \subseteq S
  <2> SUFFICES ASSUME NEW h \in HotHeaders PROVE h \in S
    OBVIOUS
  <2>1. PICK k \in 0 .. n : h = start[k] /\ h < size /\ HasMagic(f[h])
    BY <1>6 DEF HotStarts, n
  <2>2. h \in S \cup {end, size}
    BY <1>2, <1>11, <2>1
  <2> QED BY <1>1, <2>1, <2>2 DEF Findable
<1>13. ASSUME NEW h \in S PROVE \E k \in 0 .. n : start[k] = h /\ k * Sector <= h
  <2> DEFINE Found(g) == \E k \in 0 .. n : start[k] = g /\ k * Sector <= g
             T == {g \in S : ~Found(g)}
  <2> SUFFICES ASSUME T # {} PROVE FALSE
    OBVIOUS
  <2>1. T \in SUBSET Nat
    BY <1>9
  <2>2. PICK m \in T : \A g \in T : m <= g
    <3> HIDE DEF T
    <3> QED BY <2>1, Least
  <2>3. m # 0
    <3>1. Found(0)
      BY <1>7, SectorAssumption
    <3> QED BY <2>2, <3>1
  <2>4. PICK g \in S : g < m /\ RoundUp(Slot(g, f[g].num)) = m
    <3>1. m \in S /\ Segments(f, db, S, end)
      BY DEF Findable
    <3> HIDE DEF T, f
    <3> QED BY <1>1, <2>3, <3>1, NextSegment
  <2>5. Found(g)
    BY <1>9, <2>1, <2>2, <2>4
  <2>6. PICK k \in 0 .. n : start[k] = g /\ k * Sector <= g
    BY <2>5
  <2>7. PICK q \in Nat, r \in Nat : g = q * Sector /\ m = r * Sector
    <3>1. g \in Nat /\ m \in Nat /\ RoundUp(g) = g /\ RoundUp(m) = m
      BY <1>9 DEF Findable, Segments
    <3> QED BY <3>1, RoundUpMultiple
  <2>8. k \in Nat /\ k <= q
    <3>1. k \in Nat
      BY <1>2
    <3>2. CASE q < k
      <4>1. q * Sector + Sector <= k * Sector
        BY <3>1, <3>2, MultipleGap
      <4>2. k * Sector \in Nat /\ q * Sector \in Nat
        BY <3>1, SectorAssumption
      <4> QED BY <2>6, <2>7, <4>1, <4>2, SectorAssumption
    <3> QED BY <3>1, <3>2
  <2>9. q < r
    <3>1. CASE r <= q
      <4>1. r = q \/ r * Sector + Sector <= q * Sector
        BY <3>1, MultipleGap
      <4>2. r * Sector \in Nat /\ q * Sector \in Nat
        BY SectorAssumption
      <4> QED BY <2>4, <2>7, <4>1, <4>2, SectorAssumption
    <3> QED BY <3>1
  <2>10. k + 1 <= r /\ (k + 1) * Sector <= m
    <3>1. k + 1 = r \/ (k + 1) * Sector + Sector <= r * Sector
      BY <2>8, <2>9, MultipleGap
    <3>2. (k + 1) * Sector \in Nat /\ r * Sector \in Nat
      BY <2>8, SectorAssumption
    <3> QED BY <2>7, <2>8, <2>9, <3>1, <3>2, SectorAssumption
  <2>11. k + 1 <= n
    <3>1. n * Sector <= size /\ size < n * Sector + Sector
      BY <1>1, Division DEF n
    <3>2. m < size /\ m \in Nat
      BY <1>9
    <3>3. CASE n < k + 1
      <4>1. n * Sector + Sector <= (k + 1) * Sector
        BY <1>2, <2>8, <3>3, MultipleGap
      <4>2. n * Sector \in Nat /\ (k + 1) * Sector \in Nat
        BY <1>2, <2>8, SectorAssumption
      <4> QED BY <1>1, <2>10, <3>1, <3>2, <4>1, <4>2, SectorAssumption
    <3> QED BY <1>2, <2>8, <3>3
  <2>12. start[k + 1] = m
    BY <1>8, <1>9, <2>4, <2>6, <2>8, <2>11
  <2>13. Found(m)
    <3>1. k + 1 \in 0 .. n
      BY <1>2, <2>8, <2>11
    <3> QED BY <2>10, <2>12, <3>1
  <2> QED BY <2>2, <2>13
<1>14. S \subseteq HotHeaders
  BY <1>6, <1>9, <1>13 DEF HotStarts, n
<1> QED BY <1>12, <1>14

\* The pages with a record in the segments at S.
Held(f, S) == {p \in Page : \E h \in S : p \in PagesIn(f, h, f[h].num)}

\* What is found of a page is what the transaction found, and a page with a
\* record is found.
LEMMA RecordsFound ==
    ASSUME jrn \in Journals, NEW db, NEW S \in SUBSET Pos, NEW end \in Nat,
           Findable(jrn, db, S, end), NEW p \in Page
    PROVE  /\ \A i \in HotRecords(p) : jrn.file[i].data = db[p]
           /\ HotRecords(p) = {} => p \notin Held(jrn.file, S)
<1> DEFINE f == jrn.file
           At(i, h, k) == h \in S /\ k \in 0 .. f[h].num - 1 /\ i = Slot(h, k)
<1>1. HotHeaders = S
  BY HeadersFound
<1>2. \A h \in S : h \in Nat /\ f[h].num \in Nat /\ Slot(h, f[h].num) <= jrn.size
                 /\ Segment(f, db, h, f[h].num)
  <2>1. \A h \in S : f[h] \in Cells
    BY DEF Journals, JournalsOf, Cells
  <2> QED BY <2>1, Positions, NPagesAssumption DEF Findable, Segments, Cells, CellsOf
<1>3. jrn.size \in Nat
  BY Positions DEF Journals, JournalsOf, Cells
<1>4. ASSUME NEW h \in S, NEW k \in 0 .. f[h].num - 1
      PROVE  /\ Slot(h, k) < jrn.size
             /\ \E q \in Page : f[Slot(h, k)] = Original(db, q, f[h].init)
  <2>1. k \in Nat /\ k < f[h].num /\ h \in Nat /\ f[h].num \in Nat
    BY <1>2
  <2>2. Slot(h, k) + Record <= Slot(h, f[h].num) /\ Slot(h, k) \in Nat /\ Slot(h, f[h].num) \in Nat
    BY <2>1, SlotOrder, SlotFacts
  <2>3. Slot(h, k) < jrn.size
    BY <1>2, <1>3, <2>2, SectorAssumption
  <2> QED BY <1>2, <2>3 DEF Segment
<1>5. ASSUME NEW i, i \in HotRecords(p)
      PROVE  f[i].data = db[p]
  <2>1. PICK h \in S, k \in Int : At(i, h, k) /\ f[i].num = p
    BY <1>1, <1>5 DEF HotRecords, Slot
  <2>2. PICK q \in Page : f[i] = Original(db, q, f[h].init)
    BY <1>4, <2>1
  <2> QED BY <2>1, <2>2 DEF Original
<1>6. ASSUME p \in Held(f, S) PROVE HotRecords(p) # {}
  <2>1. PICK h \in S : p \in PagesIn(f, h, f[h].num)
    BY <1>6 DEF Held
  <2>2. PICK k \in 0 .. f[h].num - 1 : p = f[Slot(h, k)].num
    BY <2>1 DEF PagesIn
  <2>3. PICK q \in Page : f[Slot(h, k)] = Original(db, q, f[h].init)
    BY <1>4
  <2>4. /\ Slot(h, k) < jrn.size /\ f[Slot(h, k)].kind = "rec"
        /\ f[Slot(h, k)].num = p /\ f[Slot(h, k)].init = f[h].init
    BY <1>4, <2>2, <2>3 DEF Original
  <2>5. Slot(h, k) \in HotRecords(p)
    BY <1>1, <2>4 DEF HotRecords, Slot
  <2> QED BY <2>5
<1> QED BY <1>5, <1>6

\* The synced segments of a transaction that is under way are found, up to the
\* header that has no magic yet.
LEMMA ChainFindable ==
    ASSUME NEW j \in Journals, NEW db, NEW H \in SUBSET Pos, NEW last \in H,
           Chain(j.file, db, H, last), last <= j.size
    PROVE  /\ Findable(j, db, H \ {last}, last)
           /\ Held(j.file, H \ {last}) = Covered(j.file, H, last)
<1>1. j.file \in [Pos -> Cells] /\ j.size \in Nat
  BY Positions DEF Journals, JournalsOf, Cells
<1>2. /\ last \in Nat
      /\ \A h \in H : h \in Nat /\ h <= last /\ j.file[h].num \in 0 .. NPages
      /\ \A h \in H \ {last} : h < last /\ Slot(h, j.file[h].num) <= last
  BY <1>1, ChainNumbers
<1>3. \A h \in H \ {last} : Slot(h, j.file[h].num) <= j.size
  <2> SUFFICES ASSUME NEW h \in H \ {last} PROVE Slot(h, j.file[h].num) <= j.size
    OBVIOUS
  <2>1. h \in Nat /\ j.file[h].num \in Nat
    BY <1>2, NPagesAssumption
  <2>2. Slot(h, j.file[h].num) \in Nat
    BY <2>1, SlotFacts
  <2> QED BY <1>1, <1>2, <2>2
<1>4. Segments(j.file, db, H \ {last}, last)
  BY <1>2 DEF Segments, Chain, HasMagic
<1>5. ~HasMagic(j.file[last])
  BY DEF Chain, HasMagic
<1> QED BY <1>3, <1>4, <1>5 DEF Findable, Held, Covered

\* syncJournal takes the magic of what an older transaction left there from the
\* place of the next header.
LEMMA NextGuarded ==
    ASSUME NEW j \in Journals, ~Unguarded(j), j.hdr \in Pos, j.hdr < j.off,
           RoundUp(j.off) \in Pos
    PROVE  ~HasMagic(SyncJournal(j, FALSE).file[RoundUp(j.off)])
<1> DEFINE next == RoundUp(j.off)
           guarded == GuardNextHeader(j.file, next)
           file == [guarded EXCEPT ![j.hdr].magic = TRUE, ![j.hdr].num = j.nRec]
<1>1. j.file \in [Pos -> Cells] /\ j.off \in Nat
  BY DEF Journals, JournalsOf, Cells
<1>2. next # j.hdr
  BY <1>1, RoundUpMultiple, Positions
<1>3. guarded \in [Pos -> Cells] /\ ~HasMagic(guarded[next])
  <2>1. CASE HasMagic(j.file[next])
    <3>1. guarded = [j.file EXCEPT ![next].magic = FALSE]
      BY <2>1 DEF GuardNextHeader, Stale, Unguarded
    <3>2. [j.file[next] EXCEPT !.magic = FALSE] \in Cells
      <4>1. PICK c \in Cells : c = j.file[next]
        BY <1>1
      <4>2. [c EXCEPT !.magic = FALSE] \in Cells
        BY DEF Cells, CellsOf
      <4> QED BY <4>1, <4>2
    <3>3. guarded = [j.file EXCEPT ![next] = [j.file[next] EXCEPT !.magic = FALSE]]
      BY <3>1
    <3>4. guarded[next] = [j.file[next] EXCEPT !.magic = FALSE]
      BY <1>1, <3>3
    <3>5. [j.file[next] EXCEPT !.magic = FALSE].magic = FALSE
      <4>1. PICK c \in Cells : c = j.file[next]
        BY <1>1
      <4>2. [c EXCEPT !.magic = FALSE].magic = FALSE
        BY DEF Cells, CellsOf
      <4> QED BY <4>1, <4>2
    <3> HIDE DEF guarded
    <3> QED BY <1>1, <3>2, <3>3, <3>4, <3>5 DEF HasMagic
  <2>2. CASE ~HasMagic(j.file[next])
    <3>1. guarded = j.file
      BY <2>2 DEF GuardNextHeader, Stale
    <3> QED BY <1>1, <2>2, <3>1
  <2> QED BY <2>1, <2>2
<1>4. file[next] = guarded[next]
  <2> DEFINE cell == [guarded[j.hdr] EXCEPT !.magic = TRUE, !.num = j.nRec]
  <2>1. file = [guarded EXCEPT ![j.hdr] = cell]
    BY <1>3
  <2> HIDE DEF guarded, next, cell, file
  <2> QED BY <1>2, <1>3, <2>1
<1>5. SyncJournal(j, FALSE) = [j EXCEPT !.file = file, !.hdr = j.off]
  BY DEF SyncJournal
<1> HIDE DEF file
<1>6. SyncJournal(j, FALSE).file = file
  BY <1>5 DEF Journals, JournalsOf, Cells
<1> QED BY <1>3, <1>4, <1>6

\* What syncJournal makes of journal j when it does not begin a new segment.
SegmentSynced(j, w) ==
    /\ w \in Journals /\ w.size = j.size /\ w.hdr = j.off
    /\ w.file[j.hdr] = Marked(j.file[j.hdr], j.nRec)
    /\ \A i \in Pos : i < j.off /\ i # j.hdr => w.file[i] = j.file[i]
    /\ RoundUp(j.off) \in Pos => ~HasMagic(w.file[RoundUp(j.off)])

\* The current header gets magic and number, the place of the next one none.
LEMMA JournalSegmentSynced ==
    ASSUME NEW j \in Journals, ~Unguarded(j), j.hdr \in Pos, j.hdr < j.off
    PROVE  SegmentSynced(j, SyncJournal(j, FALSE))
BY JournalSynced, NextGuarded DEF SegmentSynced

\* Once the journal of a commit is synced, all its pages are found.
LEMMA SyncedFindable ==
    ASSUME NEW j \in Journals, NEW db, NEW H \in SUBSET Pos, NEW S \in SUBSET Page,
           JournalHolds(j, db, H, S), NEW w, SegmentSynced(j, w)
    PROVE  /\ Findable(w, db, H, RoundUp(j.off))
           /\ Held(w.file, H) = S
           /\ \A h \in H : Slot(h, w.file[h].num) <= w.hdr
<1> DEFINE f == j.file
           g == w.file
           last == j.hdr
           n == j.nRec
           end == RoundUp(j.off)
<1>1. /\ f \in [Pos -> Cells] /\ last \in H /\ last \in Pos /\ last \in Nat
      /\ n \in Nat /\ n \in 0 .. NPages /\ j.off \in Nat /\ last < j.off
      /\ f[last].kind = "hdr"
  BY JournalNumbers
<1>2. /\ Chain(f, db, H, last) /\ Segment(f, db, last, n) /\ Slot(last, n) <= j.size
      /\ S = Covered(f, H, last) \cup PagesIn(f, last, n) /\ j.off = Slot(last, n)
  BY DEF JournalHolds, JournalHas, LastSegment
<1>3. /\ w \in Journals /\ w.size = j.size /\ w.hdr = j.off
      /\ g[last] = Marked(f[last], n)
      /\ \A i \in Pos : i < j.off /\ i # last => g[i] = f[i]
  BY DEF SegmentSynced
<1>4. g \in [Pos -> Cells] /\ w.size \in Nat /\ w.size <= MaxPos
  <2>1. w.size \in 0 .. MaxPos /\ g \in [Pos -> Cells]
    BY <1>3 DEF Journals, JournalsOf, Cells
  <2> QED BY <2>1, Positions
<1>5. g[last].kind = "hdr" /\ g[last].magic /\ g[last].num = n /\ g[last].init = f[last].init
  <2>1. f[last] \in Cells
    BY <1>1
  <2> QED BY <1>1, <1>3, <2>1, MarkedFields
<1>6. end \in Nat /\ j.off <= end /\ RoundUp(end) = end
  BY <1>1, RoundUpMultiple, RoundUpSector
<1>7. RecordsBefore(f, g, j.off)
  <2> SUFFICES ASSUME NEW i \in Pos, f[i].kind = "rec", i + Record <= j.off PROVE g[i] = f[i]
    BY DEF RecordsBefore
  <2>1. i < j.off /\ i # last
    BY <1>1, Positions, SectorAssumption
  <2> QED BY <1>3, <2>1
<1>8. \A h \in H : h \in Nat /\ h <= last /\ f[h].num \in 0 .. NPages
  BY <1>1, <1>2, ChainNumbers
<1>9. \A h \in H \ {last} : h < last /\ Slot(h, f[h].num) <= last
  BY <1>1, <1>2, ChainNumbers
<1>10. ASSUME NEW h \in H \ {last}
       PROVE  /\ g[h] = f[h] /\ f[h].num \in Nat /\ Slot(h, f[h].num) \in Nat
              /\ Segment(g, db, h, f[h].num)
              /\ PagesIn(g, h, f[h].num) = PagesIn(f, h, f[h].num)
  <2>1. h < j.off /\ h \in Pos /\ h \in Nat /\ f[h].num \in Nat
    BY <1>1, <1>8, <1>9, NPagesAssumption
  <2>2. g[h] = f[h]
    BY <1>3, <2>1
  <2>3. Slot(h, f[h].num) \in Nat
    BY <2>1, SlotFacts
  <2>4. Slot(h, f[h].num) <= j.off
    BY <1>1, <1>9, <2>3
  <2>5. Segment(f, db, h, f[h].num) /\ g[h].init = f[h].init
    BY <1>2, <2>2 DEF Chain
  <2> QED BY <1>1, <1>4, <1>7, <2>1, <2>2, <2>3, <2>4, <2>5, SegmentKept
<1>11. Segment(g, db, last, n) /\ PagesIn(g, last, n) = PagesIn(f, last, n)
  <2>1. Slot(last, n) <= j.off /\ g[last].init = f[last].init
    BY <1>1, <1>2, <1>5
  <2> QED BY <1>1, <1>2, <1>4, <1>7, <2>1, SegmentKept
<1> HIDE DEF end
<1>12. ASSUME NEW h \in H
       PROVE  /\ RoundUp(h) = h /\ h < end /\ HasMagic(g[h])
              /\ Segment(g, db, h, g[h].num)
              /\ RoundUp(Slot(h, g[h].num)) \in H \cup {end}
              /\ \A r \in H \cup {end} : h < r => Slot(h, g[h].num) <= r
              /\ Slot(h, g[h].num) <= w.size /\ Slot(h, g[h].num) <= j.off
  <2>1. RoundUp(h) = h /\ h < end
    BY <1>1, <1>2, <1>6, <1>8 DEF Chain
  <2>2. CASE h = last
    <3>1. HasMagic(g[h]) /\ Segment(g, db, h, g[h].num) /\ g[h].num = n
      BY <1>5, <1>11, <2>2 DEF HasMagic
    <3>2. Slot(h, g[h].num) = j.off /\ Slot(h, g[h].num) <= w.size
          /\ Slot(h, g[h].num) <= j.off
      BY <1>1, <1>2, <1>3, <2>2, <3>1
    <3>3. RoundUp(Slot(h, g[h].num)) = end
      BY <3>2 DEF end
    <3>4. ASSUME NEW r \in H \cup {end}, h < r PROVE Slot(h, g[h].num) <= r
      <4>1. r = end
        BY <1>1, <1>8, <2>2, <3>4
      <4> QED BY <1>6, <3>2, <4>1
    <3> QED BY <2>1, <3>1, <3>2, <3>3, <3>4
  <2>3. CASE h # last
    <3>1. /\ g[h] = f[h] /\ Segment(g, db, h, f[h].num) /\ Slot(h, f[h].num) \in Nat
          /\ Slot(h, f[h].num) <= last
      BY <1>9, <1>10, <2>3
    <3>2. /\ f[h].kind = "hdr" /\ f[h].magic /\ RoundUp(Slot(h, f[h].num)) \in H
          /\ \A r \in H : h < r => Slot(h, f[h].num) <= r
      BY <1>2, <2>3 DEF Chain
    <3>3. Slot(h, f[h].num) <= end /\ Slot(h, f[h].num) <= w.size /\ Slot(h, f[h].num) <= j.off
      <4>1. Slot(last, n) \in Nat /\ last <= Slot(last, n)
        BY <1>1, <1>2
      <4> QED BY <1>1, <1>2, <1>3, <1>4, <1>6, <3>1, <4>1
    <3> QED BY <2>1, <3>1, <3>2, <3>3 DEF HasMagic
  <2> QED BY <2>2, <2>3
<1>13. Segments(g, db, H, end)
  BY <1>2, <1>6, <1>12 DEF Segments, Chain
<1>14. end < w.size => ~HasMagic(g[end])
  <2> SUFFICES ASSUME end < w.size PROVE ~HasMagic(g[end])
    OBVIOUS
  <2>1. end \in Pos
    BY <1>4, <1>6, Positions DEF Pos
  <2> QED BY <2>1 DEF end, SegmentSynced
<1>15. S \subseteq Held(g, H)
  <2> SUFFICES ASSUME NEW p \in S PROVE p \in Held(g, H)
    OBVIOUS
  <2>1. CASE p \in PagesIn(f, last, n)
    <3>1. p \in PagesIn(g, last, g[last].num)
      BY <1>5, <1>11, <2>1
    <3> QED BY <1>1, <3>1 DEF Held
  <2>2. CASE p \in Covered(f, H, last)
    <3>1. PICK h \in H \ {last} : p \in PagesIn(f, h, f[h].num)
      BY <2>2 DEF Covered
    <3>2. p \in PagesIn(g, h, g[h].num)
      BY <1>10, <3>1
    <3> QED BY <3>2 DEF Held
  <2> QED BY <1>2, <2>1, <2>2
<1>16. Held(g, H) \subseteq S
  <2> SUFFICES ASSUME NEW p \in Page, NEW h \in H, p \in PagesIn(g, h, g[h].num)
               PROVE  p \in S
    BY DEF Held
  <2>1. CASE h = last
    BY <1>2, <1>5, <1>11, <2>1
  <2>2. CASE h # last
    BY <1>2, <1>10, <2>2 DEF Covered
  <2> QED BY <2>1, <2>2
<1> QED BY <1>3, <1>12, <1>13, <1>14, <1>15, <1>16 DEF Findable, end

------------------------------------------------------------------------------
(* Types, whatever the journal holds.                                       *)

\* A journal of any length.
AnyCell == CellsOf(Nat)
AnyJournal == JournalsOf(Nat, Nat)

\* What is read outside the file or wiped has its type.
LEMMA EmptyIsAnyCell == EmptyCell \in AnyCell
BY PartAssumption DEF EmptyCell, AnyCell, CellsOf, Sample, NoData, Part, Hole

\* A journal of no bytes has its type.
LEMMA NewIsAnyJournal == NewJournal \in AnyJournal
BY EmptyIsAnyCell DEF NewJournal, AnyJournal, JournalsOf, AnyCell

\* What a write leaves of a cell is the cell or nothing.
LEMMA WipedType ==
    ASSUME NEW file \in [Pos -> AnyCell], NEW i \in Pos, NEW first, NEW last
    PROVE  Wiped(file, i, first, last) \in AnyCell
BY EmptyIsAnyCell DEF Wiped

\* writeJournalHdr keeps the type.
LEMMA HeaderType ==
    ASSUME NEW j \in AnyJournal
    PROVE  WriteHeader(j) \in AnyJournal
<1> DEFINE start == RoundUp(j.off)
           init == FreshNonce(j.file)
           header == [EmptyCell EXCEPT !.kind = "hdr", !.init = init]
           last == start + Sector - 1
           file == [i \in Pos |-> IF i \in start .. last THEN header ELSE Wiped(j.file, i, start, last)]
<1>1. /\ j.off \in Nat /\ j.size \in Nat /\ j.file \in [Pos -> AnyCell]
  BY DEF AnyJournal, JournalsOf, AnyCell
<1>2. start \in Nat
  BY <1>1, RoundUpMultiple
<1>3. init \in Nonce
  BY FreshDiffers
<1>4. WriteHeader(j) = [j EXCEPT !.file = file, !.size = LargerOf(j.size, start + Sector),
                                 !.off = start + Sector, !.hdr = start, !.init = init]
  <2>1. j = [file |-> j.file, size |-> j.size, off |-> j.off, hdr |-> j.hdr,
             nRec |-> j.nRec, init |-> j.init]
    BY DEF AnyJournal, JournalsOf
  <2> QED BY <2>1 DEF WriteHeader
<1>5. header \in AnyCell
  BY <1>3, EmptyIsAnyCell DEF AnyCell, CellsOf
<1>6. file \in [Pos -> AnyCell]
  BY <1>1, <1>5, WipedType
<1>7. start + Sector \in Nat /\ LargerOf(j.size, start + Sector) \in Nat
  BY <1>1, <1>2, SectorAssumption DEF LargerOf
<1> HIDE DEF start, init, header, last, file
<1> QED BY <1>1, <1>2, <1>3, <1>4, <1>6, <1>7 DEF AnyJournal, JournalsOf, AnyCell

\* pagerAddPageToRollbackJournal keeps it.
LEMMA RecordsType ==
    ASSUME NEW j \in AnyJournal, NEW pages \in SUBSET Page, NEW m \in Database, NEW stop
    PROVE  AddRecords(j, pages, m, stop) \in AnyJournal
<1> DEFINE RecordOf(p, old) ==
               [kind |-> "rec", magic |-> FALSE, num |-> p, init |-> j.init,
                sample |-> Sample(m[p]), data |-> Stored(old, m[p], stop[p])]
           end == j.off + Record * Cardinality(pages)
           file == [i \in Pos |->
                       IF \E p \in pages : PosOf(j, pages, p) = i
                       THEN RecordOf(CHOOSE p \in pages : PosOf(j, pages, p) = i, j.file[i].data)
                       ELSE Wiped(j.file, i, j.off, end - 1)]
<1>1. /\ j.off \in Nat /\ j.size \in Nat /\ j.nRec \in Nat /\ j.file \in [Pos -> AnyCell]
      /\ j.init \in Nonce \cup {0}
  BY DEF AnyJournal, JournalsOf, AnyCell
<1>2. Cardinality(pages) \in Nat
  BY Ranks
<1>3. end \in Nat /\ LargerOf(j.size, end) \in Nat /\ j.nRec + Cardinality(pages) \in Nat
  <2>1. Record * Cardinality(pages) \in Nat
    BY <1>2, SectorAssumption
  <2> QED BY <1>1, <1>2, <2>1 DEF LargerOf
<1>4. AddRecords(j, pages, m, stop) =
         [j EXCEPT !.file = file, !.size = LargerOf(j.size, end), !.off = end,
                   !.nRec = j.nRec + Cardinality(pages)]
  <2>1. j = [file |-> j.file, size |-> j.size, off |-> j.off, hdr |-> j.hdr,
             nRec |-> j.nRec, init |-> j.init]
    BY DEF AnyJournal, JournalsOf
  <2> QED BY <2>1 DEF AddRecords
<1>5. ASSUME NEW p \in pages, NEW i \in Pos PROVE RecordOf(p, j.file[i].data) \in AnyCell
  <2>1. m[p] \in [Part -> Value \cup {0}] /\ p \in Nat
    BY DEF Database, Page
  <2>2. Sample(m[p]) \in [Sampled -> Value \cup {Hole, 0}]
    BY <2>1, PartAssumption DEF Sample, Part
  <2>3. j.file[i].data \in [Part -> Value \cup {Hole, 0}]
    BY <1>1 DEF AnyCell, CellsOf
  <2>4. Stored(j.file[i].data, m[p], stop[p]) \in [Part -> Value \cup {Hole, 0}]
    BY <2>1, <2>3 DEF Stored
  <2> QED BY <1>1, <2>1, <2>2, <2>4 DEF AnyCell, CellsOf
<1>6. file \in [Pos -> AnyCell]
  <2> SUFFICES ASSUME NEW i \in Pos PROVE file[i] \in AnyCell
    OBVIOUS
  <2>1. CASE \E p \in pages : PosOf(j, pages, p) = i
    <3>1. PICK p : p = CHOOSE q \in pages : PosOf(j, pages, q) = i
      OBVIOUS
    <3>2. p \in pages
      BY <2>1, <3>1
    <3>3. file[i] = RecordOf(p, j.file[i].data)
      BY <2>1, <3>1
    <3> QED BY <1>5, <3>2, <3>3
  <2>2. CASE ~\E p \in pages : PosOf(j, pages, p) = i
    <3>1. file[i] = Wiped(j.file, i, j.off, end - 1)
      BY <2>2
    <3> QED BY <1>1, <3>1, WipedType
  <2> QED BY <2>1, <2>2
<1> HIDE DEF RecordOf, end, file
<1> QED BY <1>1, <1>3, <1>4, <1>6 DEF AnyJournal, JournalsOf, AnyCell

\* syncJournal keeps it.
LEMMA SyncType ==
    ASSUME NEW j \in AnyJournal, NEW newHdr \in BOOLEAN
    PROVE  SyncJournal(j, newHdr) \in AnyJournal
<1>1. /\ j.off \in Nat /\ j.nRec \in Nat /\ j.file \in [Pos -> AnyCell]
  BY DEF AnyJournal, JournalsOf, AnyCell
<1>2. PICK guarded : guarded = GuardNextHeader(j.file, RoundUp(j.off))
  OBVIOUS
<1>3. guarded \in [Pos -> AnyCell]
  <2> DEFINE next == RoundUp(j.off)
  <2>1. CASE guarded = j.file
    BY <1>1, <2>1
  <2>2. CASE next \in Pos /\ guarded = [j.file EXCEPT ![next].magic = FALSE]
    <3>1. [j.file[next] EXCEPT !.magic = FALSE] \in AnyCell
      BY <1>1, <2>2 DEF AnyCell, CellsOf
    <3> HIDE DEF next
    <3> QED BY <1>1, <2>2, <3>1
  <2> QED BY <1>2, <2>1, <2>2 DEF GuardNextHeader, Stale
<1>4. PICK file : file = [guarded EXCEPT ![j.hdr].magic = TRUE, ![j.hdr].num = j.nRec]
  OBVIOUS
<1>5. file \in [Pos -> AnyCell]
  <2>1. CASE j.hdr \in Pos
    <3>1. Marked(guarded[j.hdr], j.nRec) \in AnyCell
      <4>1. PICK cell \in AnyCell, n \in Nat : cell = guarded[j.hdr] /\ n = j.nRec
        BY <1>1, <1>3, <2>1
      <4>2. [cell EXCEPT !.magic = TRUE, !.num = n] \in AnyCell
        BY DEF AnyCell, CellsOf
      <4> QED BY <4>1, <4>2 DEF Marked
    <3>2. file = [guarded EXCEPT ![j.hdr] = Marked(guarded[j.hdr], j.nRec)]
      BY <1>3, <1>4, <2>1 DEF Marked
    <3> QED BY <1>3, <2>1, <3>1, <3>2
  <2>2. CASE j.hdr \notin Pos
    <3>1. file = guarded
      BY <1>3, <1>4, <2>2
    <3> QED BY <1>3, <3>1
  <2> QED BY <2>1, <2>2
<1>6. PICK synced : synced = [j EXCEPT !.file = file, !.hdr = j.off]
  OBVIOUS
<1>7. synced \in AnyJournal /\ [synced EXCEPT !.nRec = 0] \in AnyJournal
  BY <1>1, <1>5, <1>6 DEF AnyJournal, JournalsOf, AnyCell
<1>8. SyncJournal(j, newHdr) = IF newHdr THEN WriteHeader([synced EXCEPT !.nRec = 0]) ELSE synced
  BY <1>2, <1>4, <1>6 DEF SyncJournal
<1> QED BY <1>7, <1>8, HeaderType

\* zeroJournalHdr keeps it.
LEMMA ZeroType ==
    ASSUME NEW j \in AnyJournal
    PROVE  [ZeroHeader(j) EXCEPT !.off = 0, !.nRec = 0] \in AnyJournal
<1>1. ZeroHeader(j) \in AnyJournal
  <2>1. CASE ZeroHeader(j) = j
    BY <2>1
  <2>2. CASE ZeroHeader(j) = [j EXCEPT !.file[0].magic = FALSE, !.file[0].num = 0, !.file[0].init = 0]
    <3> DEFINE cell == [j.file[0] EXCEPT !.magic = FALSE, !.num = 0, !.init = 0]
    <3>1. j.file \in [Pos -> AnyCell] /\ 0 \in Pos /\ j.file[0] \in AnyCell
      BY Positions DEF AnyJournal, JournalsOf, AnyCell
    <3>2. cell \in AnyCell
      BY <3>1 DEF AnyCell, CellsOf
    <3>3. ZeroHeader(j) = [j EXCEPT !.file = [j.file EXCEPT ![0] = cell]]
      <4>1. 0 \in DOMAIN j.file
        BY <3>1
      <4> QED BY <2>2, <4>1
    <3> HIDE DEF cell
    <3>4. [j.file EXCEPT ![0] = cell] \in [Pos -> AnyCell]
      BY <3>1, <3>2
    <3> QED BY <3>3, <3>4 DEF AnyJournal, JournalsOf, AnyCell
  <2> QED BY <2>1, <2>2 DEF ZeroHeader
<1> QED BY <1>1 DEF AnyJournal, JournalsOf

------------------------------------------------------------------------------
(* Every step keeps the types, whatever the journal has become.             *)

\* sqlite3PagerBegin.
LEMMA BeginTypes == ASSUME Types, Begin PROVE Types'
BY MaxTxAssumption DEF Types, PagerTypes, Begin, loopVars, JournalsOf

\* What the client writes has its type, and so has the journal.
LEMMA OpenedType == Types => OpenedJournal \in AnyJournal
<1> SUFFICES ASSUME Types PROVE OpenedJournal \in AnyJournal
  OBVIOUS
<1>1. jrn \in AnyJournal /\ [jrn EXCEPT !.nRec = 0, !.off = 0, !.hdr = 0] \in AnyJournal
  BY DEF Types, PagerTypes, AnyJournal, JournalsOf
<1> QED BY <1>1, HeaderType DEF OpenedJournal

\* sqlite3PagerWrite.
LEMMA WriteTypes ==
    ASSUME Types, NEW p \in Page, NEW content \in Content, PagerWrite(p, content)
    PROVE  Types'
<1>1. /\ mem' = [mem EXCEPT ![p] = content]
      /\ UNCHANGED <<phase, committed, disk, changeCountDone, todo, hot, left, txs>>
  BY DEF PagerWrite, loopVars
<1>2. mem' \in Database
  BY <1>1 DEF Types, PagerTypes, Database, Content
<1>3. ToJournal(p) \subseteq Page /\ Touched(p) \subseteq Page /\ Flagged(p) \subseteq Page
  BY DEF ToJournal, Touched, SectorOf, Flagged
<1>4. CASE p \in dirty
  BY <1>1, <1>2, <1>4 DEF PagerWrite, Types, PagerTypes
<1>5. CASE p \notin dirty
  <2>1. PICK stop : /\ jrn' = AddRecords(OpenedJournal, ToJournal(p), mem, stop)
                    /\ intact' = (intact /\ Whole(OpenedJournal, ToJournal(p), mem, stop))
                    /\ MakeWritable(p)
                    /\ eState' = IF eState = "locked" THEN "cachemod" ELSE eState
    BY <1>5 DEF PagerWrite
  <2>2. jrn' \in JournalsOf(Nat, Nat)
    BY <1>3, <2>1, OpenedType, RecordsType DEF AnyJournal, Types, PagerTypes
  <2>3. intact' \in BOOLEAN
    BY <2>1
  <2>4. /\ dirty' \subseteq Page /\ needSync' \subseteq Page /\ inJournal' \subseteq Page
        /\ jopen' \in BOOLEAN /\ tmp' \in [Part -> Value \cup {0}]
    BY <1>3, <2>1 DEF MakeWritable, Types, PagerTypes, ZeroData
  <2> QED BY <1>1, <1>2, <2>1, <2>2, <2>3, <2>4 DEF Types, PagerTypes
<1> QED BY <1>4, <1>5

\* pagerStress syncs the journal.
LEMMA SpillSyncTypes ==
    ASSUME Types, NEW p \in Page, SyncForSpill(p)
    PROVE  /\ jrn' \in JournalsOf(Nat, Nat) /\ needSync' \subseteq Page
           /\ tmp' \in [Part -> Value \cup {0}]
BY SyncType DEF SyncForSpill, Types, PagerTypes, ZeroData, AnyJournal

\* pagerStress writes the page.
LEMMA SpillTypes ==
    ASSUME Types, NEW p \in Page, Spill(p) \/ SpillFails(p)
    PROVE  Types'
<1>1. /\ SyncForSpill(p) /\ dirty' \subseteq dirty /\ eState' \in {"dbmod", "error"}
      /\ UNCHANGED <<phase, committed, mem, inJournal, changeCountDone, jopen, todo, hot, left,
                     txs, intact>>
  BY DEF Spill, SpillFails, SyncForSpill, loopVars
<1>2. disk' \in Database
  BY DEF Spill, SpillFails, Damaged, Types, PagerTypes, Database
<1> QED BY <1>1, <1>2, SpillSyncTypes DEF Types, PagerTypes

\* sqlite3PagerCommitPhaseOne.
LEMMA CommitTypes == ASSUME Types, CommitPhaseOne PROVE Types'
<1>1. /\ needSync' = {} /\ changeCountDone' = TRUE /\ eState' = "dbmod" /\ phase' = "commit"
      /\ todo' = dirty'
      /\ UNCHANGED <<committed, disk, mem, hot, left, txs>>
  BY DEF CommitPhaseOne
<1>2. 1 \in Page
  BY NPagesAssumption DEF Page
<1>3. ToJournal(1) \subseteq Page /\ Touched(1) \subseteq Page
  BY <1>2 DEF ToJournal, Touched, SectorOf
<1>4. /\ jrn' \in JournalsOf(Nat, Nat) /\ dirty' \subseteq Page /\ inJournal' \subseteq Page
      /\ intact' \in BOOLEAN /\ jopen' = jopen /\ tmp' = tmp
  <2>1. CASE changeCountDone \/ 1 \in dirty
    <3>1. /\ jrn' = SyncJournal(jrn, FALSE)
          /\ intact' = (intact /\ ~Unguarded(jrn))
          /\ UNCHANGED <<dirty, inJournal, jopen, tmp>>
      BY <2>1 DEF CommitPhaseOne
    <3> QED BY <3>1, SyncType DEF Types, PagerTypes, AnyJournal
  <2>2. CASE ~(changeCountDone \/ 1 \in dirty)
    <3>1. PICK stop, added :
             /\ added = AddRecords(jrn, ToJournal(1), mem, stop)
             /\ jrn' = SyncJournal(added, FALSE)
             /\ intact' = (intact /\ Whole(jrn, ToJournal(1), mem, stop) /\ ~Unguarded(added))
             /\ dirty' = dirty \cup Touched(1)
             /\ inJournal' = inJournal \cup ToJournal(1)
             /\ UNCHANGED <<jopen, tmp>>
      BY <2>2 DEF CommitPhaseOne
    <3>2. added \in AnyJournal
      BY <1>3, <3>1, RecordsType DEF AnyJournal, Types, PagerTypes
    <3> QED BY <1>3, <3>1, <3>2, SyncType DEF Types, PagerTypes, AnyJournal
  <2> QED BY <2>1, <2>2
<1> QED BY <1>1, <1>4 DEF Types, PagerTypes

\* pager_write_pagelist.
LEMMA WriteListTypes ==
    ASSUME Types, CommitWrite \/ CommitWriteFails \/ CommitWritten
    PROVE  Types'
<1>1. CASE CommitWrite
  <2>1. disk' \in Database
    BY <1>1 DEF CommitWrite, Types, PagerTypes, Database
  <2> QED BY <1>1, <2>1 DEF CommitWrite, Types, PagerTypes
<1>2. CASE CommitWriteFails
  <2>1. disk' \in Database
    BY <1>2 DEF CommitWriteFails, Damaged
  <2>2. jrn' \in JournalsOf(Nat, Nat) /\ left' = 0 /\ phase' = "playback" /\ hot' = FALSE
    BY <1>2 DEF CommitWriteFails, StartPlayback, Types, PagerTypes, JournalsOf
  <2>3. intact' \in BOOLEAN
    BY <1>2 DEF CommitWriteFails
  <2> QED BY <1>2, <2>1, <2>2, <2>3 DEF CommitWriteFails, Types, PagerTypes
<1>3. CASE CommitWritten
  BY <1>3 DEF CommitWritten, Types, PagerTypes, loopVars
<1> QED BY <1>1, <1>2, <1>3

\* pager_end_transaction, reached from a commit or a rollback.
LEMMA EndTypes ==
    ASSUME Types, CommitPhaseTwo \/ Rollback \/ PlaybackEnd
    PROVE  Types'
<1>1. EndTransaction => /\ jrn' \in JournalsOf(Nat, Nat) /\ inJournal' = {} /\ dirty' = {}
                        /\ needSync' = {} /\ eState' = "reader"
  BY ZeroType DEF EndTransaction, Types, PagerTypes, AnyJournal
<1>2. CASE CommitPhaseTwo
  BY <1>1, <1>2 DEF CommitPhaseTwo, Types, PagerTypes, loopVars
<1>3. CASE Rollback
  <2>1. CASE eState = "locked"
    BY <1>1, <1>3, <2>1 DEF Rollback, Types, PagerTypes
  <2>2. CASE eState # "locked"
    <3>1. /\ StartPlayback(FALSE) /\ UNCHANGED <<inJournal, dirty, needSync, eState, committed,
             disk, mem, changeCountDone, jopen, todo, tmp, txs, intact>>
      BY <1>3, <2>2 DEF Rollback
    <3> QED BY <3>1 DEF StartPlayback, Types, PagerTypes, JournalsOf
  <2> QED BY <2>1, <2>2
<1>4. CASE PlaybackEnd
  BY <1>1, <1>4 DEF PlaybackEnd, Types, PagerTypes
<1> QED BY <1>2, <1>3, <1>4

\* A unit that is read has its type, and so has the page it is read as.
LEMMA CellType ==
    ASSUME Types
    PROVE  \A i : CellAt(i) \in AnyCell /\ CellAt(i).num \in Nat
                  /\ CellAt(i).init \in Nonce \cup {0}
<1>1. jrn.file \in [Pos -> AnyCell]
  BY DEF Types, PagerTypes, JournalsOf, AnyCell
<1>2. \A i : CellAt(i) \in AnyCell
  BY <1>1, EmptyIsAnyCell DEF CellAt
<1> QED BY <1>2 DEF AnyCell, CellsOf

\* pTmpSpace holds a page.
LEMMA LoadedType == Types => Loaded \in [Part -> Value \cup {0}]
<1> SUFFICES ASSUME Types PROVE Loaded \in [Part -> Value \cup {0}]
  OBVIOUS
<1>1. Cell \in AnyCell
  BY CellType DEF Cell
<1>2. Cell.data \in [Part -> Value \cup {Hole, 0}]
  BY <1>1 DEF AnyCell, CellsOf
<1>3. tmp \in [Part -> Value \cup {0}]
  BY DEF Types, PagerTypes
<1> QED BY <1>2, <1>3 DEF Loaded

\* pager_playback.
LEMMA ReplayTypes ==
    ASSUME Types, PlaybackHeader \/ PlaybackDone \/ PlaybackSkip \/ PlaybackRecord \/ PlaybackFails
    PROVE  Types'
<1>1. CASE PlaybackHeader
  <2> DEFINE h == NextHeader
  <2>1. /\ HeaderThere
        /\ left' = IF CellAt(h).num = 0 /\ ~hot /\ h = jrn.hdr
                   THEN (jrn.size - (h + Sector)) \div Record
                   ELSE CellAt(h).num
        /\ jrn' = [jrn EXCEPT !.off = h + Sector, !.init = CellAt(h).init]
        /\ UNCHANGED <<eState, phase, committed, disk, mem, dirty, needSync, inJournal,
                       changeCountDone, jopen, todo, hot, tmp, txs, intact>>
    BY <1>1 DEF PlaybackHeader
  <2>2. jrn.off \in Nat /\ jrn.size \in Nat
    BY DEF Types, PagerTypes, JournalsOf
  <2>3. h \in Nat /\ h + Sector \in Nat
    <3>1. h = RoundUp(jrn.off)
      BY DEF NextHeader
    <3>2. RoundUp(jrn.off) \in Nat
      BY <2>2, RoundUpMultiple
    <3> HIDE DEF h
    <3> QED BY <3>1, <3>2, SectorAssumption
  <2>4. h + Sector <= jrn.size
    BY <2>1 DEF HeaderThere
  <2>5. CellAt(h).num \in Nat /\ CellAt(h).init \in Nonce \cup {0}
    BY CellType
  <2> HIDE DEF h
  <2>6. (jrn.size - (h + Sector)) \div Record \in Nat
    <3>1. jrn.size - (h + Sector) \in Nat
      BY <2>2, <2>3, <2>4
    <3> QED BY <3>1, SectorAssumption
  <2>7. left' \in Nat
    BY <2>1, <2>5, <2>6
  <2>8. jrn' \in JournalsOf(Nat, Nat)
    BY <2>1, <2>3, <2>5 DEF Types, PagerTypes, JournalsOf
  <2> QED BY <2>1, <2>7, <2>8 DEF Types, PagerTypes
<1>2. CASE PlaybackDone
  <2>1. jrn' \in JournalsOf(Nat, Nat)
    BY <1>2 DEF PlaybackDone, Types, PagerTypes, JournalsOf
  <2> QED BY <1>2, <2>1, LoadedType DEF PlaybackDone, Types, PagerTypes
<1>3. CASE PlaybackSkip \/ PlaybackRecord
  <2>1. jrn' \in JournalsOf(Nat, Nat)
    <3>1. jrn' = [jrn EXCEPT !.off = jrn.off + Record]
      BY <1>3 DEF PlaybackSkip, PlaybackRecord
    <3>2. jrn.off + Record \in Nat
      BY SectorAssumption DEF Types, PagerTypes, JournalsOf
    <3> QED BY <3>1, <3>2 DEF Types, PagerTypes, JournalsOf
  <2>2. left' \in Nat
    <3>1. left' = left - 1 /\ left > 0 /\ left \in Nat
      BY <1>3 DEF PlaybackSkip, PlaybackRecord, InRecords, Types, PagerTypes
    <3> QED BY <3>1
  <2>3. disk' \in Database
    BY <1>3, LoadedType DEF PlaybackSkip, PlaybackRecord, Types, PagerTypes, Database
  <2>4. mem' \in Database
    <3>1. mem' = mem \/ \E c : mem' = [mem EXCEPT ![Cell.num] = c] /\ c \in {Loaded, disk'[Cell.num]}
      BY <1>3 DEF PlaybackSkip, PlaybackRecord
    <3> QED BY <2>3, <3>1, LoadedType DEF Types, PagerTypes, Database
  <2> QED BY <1>3, <2>1, <2>2, <2>3, <2>4, LoadedType DEF PlaybackSkip, PlaybackRecord, Types, PagerTypes
<1>4. CASE PlaybackFails
  <2>1. disk' \in Database
    BY <1>4 DEF PlaybackFails, Damaged
  <2> QED BY <1>4, <2>1, LoadedType DEF PlaybackFails, Types, PagerTypes
<1> QED BY <1>1, <1>2, <1>3, <1>4

\* Unlocking, closing, power loss.
LEMMA OpenTypes ==
    ASSUME Types, Unlock \/ SharedLock \/ Close \/ PowerLoss
    PROVE  Types'
<1>1. CASE Unlock
  <2>1. jrn' \in JournalsOf(Nat, Nat)
    BY <1>1 DEF Unlock, Types, PagerTypes, JournalsOf
  <2> QED BY <1>1, <2>1 DEF Unlock, Types, PagerTypes, loopVars
<1>2. CASE SharedLock
  <2>1. jrn' \in JournalsOf(Nat, Nat)
    BY <1>2 DEF SharedLock, StartPlayback, Types, PagerTypes, JournalsOf
  <2> QED BY <1>2, <2>1 DEF SharedLock, StartPlayback, Types, PagerTypes
<1>3. CASE Close \/ PowerLoss
  <2>1. intact' \in BOOLEAN /\ committed' \in Database /\ Reopened
    BY <1>3 DEF Close, PowerLoss, Reopened, Types, PagerTypes
  <2>2. NewJournal \in JournalsOf(Nat, Nat) /\ txs' \in 0 .. MaxTx
    BY <2>1, NewIsAnyJournal, MaxTxAssumption DEF Reopened, AnyJournal
  <2>3. ZeroData \in [Part -> Value \cup {0}]
    BY DEF ZeroData
  <2> QED BY <2>1, <2>2, <2>3 DEF Reopened, Types, PagerTypes
<1> QED BY <1>1, <1>2, <1>3

\* Every step.
LEMMA StepTypes == ASSUME Types, [Next]_vars PROVE Types'
<1>1. CASE Begin
  BY <1>1, BeginTypes
<1>2. CASE \E p \in Page : \E content \in Content : PagerWrite(p, content)
  BY <1>2, WriteTypes
<1>3. CASE \E p \in Page : Spill(p) \/ SpillFails(p)
  BY <1>3, SpillTypes
<1>4. CASE CommitPhaseOne
  BY <1>4, CommitTypes
<1>5. CASE CommitWrite \/ CommitWriteFails \/ CommitWritten
  BY <1>5, WriteListTypes
<1>6. CASE CommitPhaseTwo \/ Rollback \/ PlaybackEnd
  BY <1>6, EndTypes
<1>7. CASE PlaybackHeader \/ PlaybackDone \/ PlaybackSkip \/ PlaybackRecord \/ PlaybackFails
  BY <1>7, ReplayTypes
<1>8. CASE Unlock \/ SharedLock \/ Close \/ PowerLoss
  BY <1>8, OpenTypes
<1>9. CASE UNCHANGED vars
  BY <1>9 DEF vars, Types, PagerTypes
<1> QED BY <1>1, <1>2, <1>3, <1>4, <1>5, <1>6, <1>7, <1>8, <1>9 DEF Next, Playback

=============================================================================
