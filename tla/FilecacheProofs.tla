--------------------------- MODULE FilecacheProofs ---------------------------
(****************************************************************************)
(* Proofs about the list of Filecache, for every block size, every width of *)
(* blockid, every set of requests and every budget of blocks.               *)
(****************************************************************************)
EXTENDS Filecache, TLAPS

LEMMA ModRange ==
    ASSUME NEW a \in Nat, NEW b \in Nat \ {0}
    PROVE  /\ a % b \in 0 .. b - 1
           /\ a \div b \in Nat
           /\ a = b * (a \div b) + (a % b)
OBVIOUS

LEMMA MultipleMod ==
    ASSUME NEW m \in Nat, NEW b \in Nat \ {0}
    PROVE  (b * m) % b = 0
OBVIOUS

\* What linkedlist_store's two ways of linking a block give.
LEMMA InsertedProperties ==
    ASSUME list \in Seq(Block), NEW p \in 1 .. Len(list) + 1, NEW e \in Block
    PROVE  /\ Inserted(p, e) \in Seq(Block)
           /\ Len(Inserted(p, e)) = Len(list) + 1
           /\ \A i \in 1 .. Len(list) + 1 :
                 Inserted(p, e)[i] = IF i < p THEN list[i]
                                     ELSE IF i = p THEN e ELSE list[i - 1]
<1>1. \A i \in 1 .. Len(list) + 1 :
         (IF i < p THEN list[i] ELSE IF i = p THEN e ELSE list[i - 1]) \in Block
  OBVIOUS
<1> QED BY <1>1 DEF Inserted

\* The chunk of a pass lies in the request and in its block.
LEMMA ChunkProperties ==
    ASSUME TypeOK, r < req.len, req \in Requests
    PROVE  /\ relaoffset \in Nat
           /\ relaoffset \div BlockSize \in Nat
           /\ relaoffset % BlockSize \in 0 .. BlockSize - 1
           /\ relaoffset = BlockSize * (relaoffset \div BlockSize) + (relaoffset % BlockSize)
           /\ Round \in 1 .. BlockSize
           /\ relalen \in 1 .. Round
           /\ r + relalen <= req.len
           /\ blockid \in 0 .. IdMod - 1
           /\ Chunk \subseteq 0 .. req.len - 1
<1>1. req.offset \in Nat /\ req.len \in Nat /\ r \in Nat
  BY RequestsAssumption DEF TypeOK
<1>2. relaoffset \in Nat
  BY <1>1 DEF relaoffset
<1>7. /\ relaoffset \div BlockSize \in Nat
      /\ relaoffset % BlockSize \in 0 .. BlockSize - 1
      /\ relaoffset = BlockSize * (relaoffset \div BlockSize) + (relaoffset % BlockSize)
  BY <1>2, ModRange, BlockSizeAssumption
<1>3. Round \in 1 .. BlockSize
  BY <1>7, BlockSizeAssumption DEF Round
<1>4. relalen \in 1 .. Round /\ r + relalen <= req.len
  BY <1>1, <1>3, BlockSizeAssumption DEF relalen
<1>5. blockid \in 0 .. IdMod - 1
  <2>1. relaoffset \div BlockSize \in Nat
    BY <1>2, ModRange, BlockSizeAssumption
  <2> QED BY <2>1, ModRange, IdModAssumption DEF blockid
<1>6. Chunk \subseteq 0 .. req.len - 1
  BY <1>1, <1>3, <1>4, BlockSizeAssumption DEF Chunk
<1> QED BY <1>2, <1>3, <1>4, <1>5, <1>6, <1>7

\* A copy into a block gives block contents.
LEMMA CopiedType ==
    ASSUME TypeOK, r < req.len, req \in Requests, NEW old \in BlockData
    PROVE  Copied(old) \in BlockData
<1>1. \A k \in Chunk : data[k] \in Byte
  BY ChunkProperties DEF TypeOK, Buffers
<1> QED BY <1>1 DEF Copied, BlockData

LEMMA BlockOverType ==
    ASSUME TypeOK, r < req.len, req \in Requests, NEW old \in BlockData
    PROVE  BlockOver(old) \in Block
BY CopiedType, ChunkProperties DEF BlockOver, Block

LEMMA NewBlockType ==
    ASSUME TypeOK, r < req.len, req \in Requests
    PROVE  NewBlock \in Block
<1>1. [b \in 0 .. BlockSize - 1 |-> 0] \in BlockData
  BY ByteAssumption DEF BlockData
<1> QED BY <1>1, BlockOverType DEF NewBlock

\* A request in progress is one of Requests.
LEMMA InProgress ==
    ASSUME TypeOK, r < req.len
    PROVE  req \in Requests
BY RequestsAssumption DEF TypeOK, NoRequest

LEMMA ReturnInv ==
    ASSUME TypeOK, Return, list' \in Seq(Block), open' = open, size' \in Nat, heap' \in Nat
    PROVE  TypeOK' /\ CallInv' /\ RootInv' /\ PassedInv' /\ AlignedInv' /\ PassInv'
<1>0. blocks' \in Nat
  <2>1. (0 % BlockSize) + 0 + BlockSize - 1 = BlockSize - 1
    BY BlockSizeAssumption
  <2>2. req'.offset = 0 /\ req'.len = 0
    BY DEF Return, NoRequest
  <2>3. blocks' = (BlockSize - 1) \div BlockSize
    BY <2>1, <2>2 DEF blocks
  <2> QED BY <2>3, BlockSizeAssumption
<1>1. TypeOK'
  BY <1>0 DEF TypeOK, Return, NoRequest, NoBuffer, Buffers
<1>2. CallInv'
  BY DEF Return, CallInv
<1>3. RootInv' /\ PassedInv' /\ AlignedInv' /\ PassInv'
  BY DEF Return, RootInv, PassedInv, AlignedInv, PassInv
<1> QED BY <1>1, <1>2, <1>3

\* A product with BlockSize keeps the order of block numbers.
LEMMA BlockOrder ==
    ASSUME NEW i \in Nat, NEW j \in Nat, NEW o \in Nat
    PROVE  /\ i <= j => i * BlockSize <= j * BlockSize
           /\ i * BlockSize \in Nat
           /\ i * BlockSize <= o <=> i <= o \div BlockSize
BY ModRange, BlockSizeAssumption

\* The passes cover the request, and one less does not.
LEMMA BlocksCover ==
    ASSUME TypeOK
    PROVE  /\ blocks \in Nat /\ pass \in 0 .. blocks
           /\ req.offset \in Nat /\ req.len \in Nat /\ r \in Nat
           /\ req.offset % BlockSize \in 0 .. BlockSize - 1
           /\ (req.offset % BlockSize) + req.len <= blocks * BlockSize
           /\ blocks * BlockSize < (req.offset % BlockSize) + req.len + BlockSize
<1> DEFINE s == req.offset % BlockSize
           a == s + req.len + BlockSize - 1
<1>1. req.offset \in Nat /\ req.len \in Nat /\ r \in Nat
  <2>1. req \in [offset : Nat, len : Nat]
    BY RequestsAssumption DEF TypeOK, NoRequest
  <2>2. r \in 0 .. req.len
    BY DEF TypeOK
  <2> QED BY <2>1, <2>2
<1>2. s \in 0 .. BlockSize - 1
  BY <1>1, ModRange, BlockSizeAssumption
<1> HIDE DEF s
<1>3. a \in Nat
  BY <1>1, <1>2, BlockSizeAssumption
<1>4. blocks = a \div BlockSize
  BY DEF blocks, s
<1> HIDE DEF a
<1>5. /\ blocks \in Nat /\ a % BlockSize \in 0 .. BlockSize - 1
      /\ a = BlockSize * blocks + (a % BlockSize)
  BY <1>3, <1>4, ModRange, BlockSizeAssumption
<1>6. BlockSize * blocks = blocks * BlockSize /\ BlockSize * blocks \in Nat
  BY <1>5, BlockSizeAssumption
<1>7. s + req.len <= blocks * BlockSize /\ blocks * BlockSize < s + req.len + BlockSize
  BY <1>1, <1>2, <1>5, <1>6, BlockSizeAssumption DEF a
<1> QED BY <1>1, <1>2, <1>5, <1>7 DEF TypeOK, s

\* The loop over the chunks ends where the request does.
LEMMA PassesLeft ==
    ASSUME TypeOK, CallInv, PassInv, pc # "idle"
    PROVE  pass < blocks <=> r < req.len
<1> DEFINE s == req.offset % BlockSize
<1>1. req.len \in Nat \ {0}
  BY RequestsAssumption DEF CallInv
<1>2. /\ blocks \in Nat /\ pass \in 0 .. blocks
      /\ s \in 0 .. BlockSize - 1
      /\ s + req.len <= blocks * BlockSize /\ blocks * BlockSize < s + req.len + BlockSize
  BY BlocksCover
<1>3. r = IF pass = 0 THEN 0 ELSE IF pass < blocks THEN pass * BlockSize - s ELSE req.len
  BY DEF PassInv
<1> HIDE DEF s
<1>4. blocks # 0
  BY <1>1, <1>2, BlockSizeAssumption
<1>5. CASE pass = 0
  BY <1>1, <1>2, <1>3, <1>4, <1>5
<1>6. CASE pass # 0 /\ pass < blocks
  <2>1. pass * BlockSize \in Nat /\ blocks * BlockSize \in Nat
    BY <1>2, BlockSizeAssumption
  <2>2. pass * BlockSize + BlockSize <= blocks * BlockSize
    <3>1. (pass + 1) * BlockSize <= blocks * BlockSize
      BY <1>2, <1>6, BlockOrder, BlockSizeAssumption
    <3> QED BY <1>2, <2>1, <3>1, BlockSizeAssumption
  <2>3. r = pass * BlockSize - s
    BY <1>3, <1>6
  <2> QED BY <1>1, <1>2, <1>6, <2>1, <2>2, <2>3, BlockSizeAssumption
<1>7. CASE ~(pass < blocks)
  BY <1>1, <1>2, <1>3, <1>4, <1>7
<1> QED BY <1>5, <1>6, <1>7

\* What a pass does: the bytes up to the end of its block, or of the request.
LEMMA PassDone ==
    ASSUME TypeOK, CallInv, PassInv, pc # "idle", pass < blocks
    PROVE  /\ pass + 1 \in 0 .. blocks
           /\ r + relalen = IF pass + 1 < blocks
                            THEN (pass + 1) * BlockSize - (req.offset % BlockSize)
                            ELSE req.len
<1> DEFINE s == req.offset % BlockSize
           d == req.offset \div BlockSize
<1>1. req.len \in Nat \ {0} /\ req.offset \in Nat
  BY RequestsAssumption DEF CallInv
<1>2. /\ blocks \in Nat /\ pass \in 0 .. blocks /\ r \in Nat
      /\ s \in 0 .. BlockSize - 1
      /\ s + req.len <= blocks * BlockSize /\ blocks * BlockSize < s + req.len + BlockSize
  BY BlocksCover
<1>3. r < req.len
  BY PassesLeft
<1>4. d \in Nat /\ req.offset = BlockSize * d + s
  BY <1>1, ModRange, BlockSizeAssumption
<1>5. r = IF pass = 0 THEN 0 ELSE pass * BlockSize - s
  BY DEF PassInv
<1>6. pass + 1 \in 0 .. blocks
  BY <1>2
<1>7. r + Round = (pass + 1) * BlockSize - s
  <2>1. Round = BlockSize - (relaoffset % BlockSize) /\ relaoffset = req.offset + r
    BY DEF Round, relaoffset
  <2>2. CASE pass = 0
    <3>1. Round = BlockSize - s /\ r = 0
      BY <1>1, <1>5, <2>1, <2>2
    <3> HIDE DEF s
    <3> QED BY <1>2, <2>2, <3>1, BlockSizeAssumption
  <2>3. CASE pass # 0
    <3> HIDE DEF s, d
    <3>1. relaoffset = BlockSize * d + pass * BlockSize
      <4>1. BlockSize * d \in Nat /\ pass * BlockSize \in Nat
        BY <1>2, <1>4, BlockSizeAssumption
      <4> QED BY <1>2, <1>4, <1>5, <2>1, <2>3, <4>1
    <3>2. relaoffset = BlockSize * (d + pass) /\ d + pass \in Nat
      BY <1>2, <1>4, <3>1, BlockSizeAssumption
    <3>3. relaoffset % BlockSize = 0
      BY <3>2, MultipleMod, BlockSizeAssumption
    <3>4. (pass + 1) * BlockSize = pass * BlockSize + BlockSize /\ pass * BlockSize \in Nat
      BY <1>2, BlockSizeAssumption
    <3> QED BY <1>2, <1>5, <2>1, <2>3, <3>3, <3>4, BlockSizeAssumption
  <2> QED BY <2>2, <2>3
<1>8. Round \in Nat /\ relalen = IF req.len - r > Round THEN Round ELSE req.len - r
  <2>1. Round \in 1 .. BlockSize
    BY <1>3, ChunkProperties DEF CallInv
  <2> QED BY <2>1, BlockSizeAssumption DEF relalen
<1>9. (pass + 1) * BlockSize \in Nat /\ blocks * BlockSize \in Nat
  BY <1>2, BlockSizeAssumption
<1> HIDE DEF s
<1>10. CASE pass + 1 < blocks
  <2>1. (pass + 1) * BlockSize + BlockSize <= blocks * BlockSize
    <3>1. (pass + 1 + 1) * BlockSize <= blocks * BlockSize
      BY <1>2, <1>10, BlockOrder
    <3>2. (pass + 1 + 1) * BlockSize = (pass + 1) * BlockSize + BlockSize
      BY <1>2, BlockSizeAssumption
    <3> QED BY <3>1, <3>2
  <2>2. r + Round < req.len
    BY <1>1, <1>2, <1>7, <1>9, <2>1, BlockSizeAssumption
  <2>3. relalen = Round
    BY <1>1, <1>2, <1>8, <2>2
  <2> QED BY <1>6, <1>7, <1>10, <2>3 DEF s
<1>11. CASE ~(pass + 1 < blocks)
  <2>1. pass + 1 = blocks
    BY <1>2, <1>11
  <2>2. r + Round >= req.len
    BY <1>1, <1>2, <1>7, <1>9, <2>1, BlockSizeAssumption
  <2>3. r + relalen = req.len
    BY <1>1, <1>2, <1>8, <2>2
  <2> QED BY <1>6, <1>11, <2>3
<1> QED BY <1>10, <1>11

\* The next pass starts where a block starts, or the request is done.
LEMMA NextStart ==
    ASSUME TypeOK, r < req.len, req \in Requests
    PROVE  /\ r + relalen \in 0 .. req.len
           /\ r + relalen >= r
           /\ r + relalen = req.len \/ (req.offset + (r + relalen)) % BlockSize = 0
<1>1. /\ relaoffset \in Nat
      /\ relaoffset \div BlockSize \in Nat
      /\ relaoffset % BlockSize \in 0 .. BlockSize - 1
      /\ relaoffset = BlockSize * (relaoffset \div BlockSize) + (relaoffset % BlockSize)
      /\ Round \in 1 .. BlockSize
      /\ relalen \in 1 .. Round
      /\ r + relalen <= req.len
  BY ChunkProperties
<1>2. r \in Nat /\ req.len \in Nat /\ req.offset \in Nat
  BY RequestsAssumption DEF TypeOK
<1>3. CASE relalen = Round
  <2>1. relaoffset \div BlockSize + 1 \in Nat
    BY <1>1
  <2>2. relaoffset + Round = BlockSize * (relaoffset \div BlockSize + 1)
    <3> DEFINE d == relaoffset \div BlockSize
    <3>1. BlockSize * (d + 1) = BlockSize * d + BlockSize
      BY <1>1, BlockSizeAssumption
    <3>2. Round = BlockSize - (relaoffset % BlockSize)
      BY DEF Round
    <3>3. BlockSize * d \in Int
      BY <1>1, BlockSizeAssumption
    <3> HIDE DEF d
    <3> QED BY <1>1, <3>1, <3>2, <3>3, BlockSizeAssumption DEF d
  <2>3. (relaoffset + Round) % BlockSize = 0
    BY <2>1, <2>2, BlockSizeAssumption
  <2>4. req.offset + (r + relalen) = relaoffset + Round
    <3>1. relaoffset = req.offset + r
      BY DEF relaoffset
    <3>2. Round \in Int
      BY <1>1, BlockSizeAssumption
    <3> QED BY <1>2, <1>3, <3>1, <3>2
  <2> QED BY <1>1, <1>2, <2>3, <2>4, BlockSizeAssumption
<1>4. CASE relalen # Round
  BY <1>1, <1>2, <1>4, BlockSizeAssumption DEF relalen
<1> QED BY <1>3, <1>4

\* The next pass of a push starts at the head again.
LEMMA NextChunkInv ==
    ASSUME IInv, InStore, NextChunk, list' \in Seq(Block), open' = open,
           size' \in Nat, heap' \in Nat,
           updateroot = 0 => list' # << >> /\ list'[1].blockid = list[1].blockid
    PROVE  TypeOK' /\ CallInv' /\ RootInv' /\ PassedInv' /\ AlignedInv' /\ PassInv'
          /\ ClosedInv'
<1>0. TypeOK /\ CallInv /\ RootInv /\ PassedInv /\ AlignedInv /\ PassInv
  BY DEF IInv
<1>1. r < req.len /\ req \in Requests /\ pc = "push" /\ r \in Nat /\ req.len \in Nat
      /\ req.offset \in Nat /\ pass < blocks
  BY <1>0, PassesLeft, RequestsAssumption DEF InStore, CallInv, TypeOK
<1>c. ClosedInv'
  BY <1>0, <1>1 DEF CallInv, ClosedInv
<1>2. CASE relalen = NomemCode
  BY <1>0, <1>2, <1>c, ReturnInv DEF NextChunk
<1>3. CASE relalen # NomemCode
  <2>1. /\ r' = r + relalen /\ pass' = pass + 1
        /\ leaf' = FirstLeaf(list')
        /\ pc' = pc /\ req' = req /\ data' = data /\ updateroot' = updateroot
    BY <1>3 DEF NextChunk
  <2>2. /\ r' \in 0 .. req.len
        /\ r' >= r
        /\ r' = req.len \/ (req.offset + r') % BlockSize = 0
    BY <1>0, <1>1, <2>1, NextStart
  <2>3. leaf' \in 0 .. Len(list') /\ leaf' <= 1
    BY <2>1 DEF FirstLeaf
  <2>a. leaf' = 0 => list' = << >>
    BY <2>1 DEF FirstLeaf
  <2>b. /\ pass' \in 0 .. blocks' /\ blocks' = blocks
        /\ PassInv'
    <3>1. blocks' = blocks
      BY <2>1 DEF blocks
    <3>2. /\ pass + 1 \in 0 .. blocks /\ pass \in 0 .. blocks
          /\ r + relalen = IF pass + 1 < blocks
                           THEN (pass + 1) * BlockSize - (req.offset % BlockSize)
                           ELSE req.len
      BY <1>0, <1>1, PassDone, BlocksCover
    <3> QED BY <2>1, <3>1, <3>2 DEF PassInv
  <2>4. TypeOK'
    BY <1>0, <2>1, <2>2, <2>3, <2>b DEF TypeOK, Buffers
  <2>5. CallInv'
    BY <1>0, <1>1, <2>1, <2>a DEF CallInv
  <2>6. RootInv'
    BY <1>1, <2>1, <2>3 DEF RootInv
  <2>7. AlignedInv'
    BY <2>1, <2>2 DEF AlignedInv, relaoffset
  <2>8. PassedInv'
    <3>1. CASE updateroot = 0
      <4>1. list # << >> /\ list[1].blockid * BlockSize <= relaoffset
        BY <1>0, <1>1, <3>1 DEF PassedInv
      <4>2. relaoffset \in Nat /\ relaoffset' \in Nat /\ relaoffset <= relaoffset'
        BY <1>1, <2>1, <2>2 DEF relaoffset
      <4>3. list[1].blockid \in Nat
        <5>1. list \in Seq(Block) /\ list # << >>
          BY <1>0, <4>1 DEF TypeOK
        <5>2. list[1] \in Block
          BY <5>1
        <5> QED BY <5>2, IdModAssumption DEF Block
      <4>4. list'[1].blockid * BlockSize <= relaoffset'
        <5> DEFINE x == list[1].blockid * BlockSize
        <5>1. x \in Nat
          BY <4>3, BlockSizeAssumption
        <5>2. x <= relaoffset
          BY <4>1
        <5>3. x <= relaoffset'
          <6> HIDE DEF x
          <6> QED BY <5>1, <5>2, <4>2
        <5> QED BY <5>3, <3>1
      <4> QED BY <2>1, <2>3, <3>1, <4>4 DEF PassedInv, TypeOK
    <3>2. CASE updateroot = 1
      BY <2>1, <2>3, <3>2 DEF PassedInv
    <3> QED BY <1>0, <3>1, <3>2 DEF TypeOK
  <2> QED BY <1>c, <2>4, <2>5, <2>6, <2>7, <2>8, <2>b
<1> QED BY <1>2, <1>3

\* Every element of the list is a block.
LEMMA ElementType ==
    ASSUME TypeOK, NEW i \in 1 .. Len(list)
    PROVE  list[i] \in Block /\ list[i].blockid \in Nat /\ list[i].data \in BlockData
<1>1. list[i] \in Block
  BY DEF TypeOK
<1> QED BY <1>1, IdModAssumption DEF Block

LEMMA OffsetType ==
    ASSUME TypeOK, CallInv
    PROVE  /\ req.offset \in Nat /\ req.len \in Nat /\ r \in Nat
           /\ relaoffset \in Nat
<1>1. req \in [offset : Nat, len : Nat]
  BY RequestsAssumption DEF TypeOK, NoRequest
<1> QED BY <1>1 DEF TypeOK, relaoffset

\* An emptied list, with no call running.
LEMMA EmptiedInv ==
    ASSUME TypeOK, CallInv, pc = "idle", open' \in BOOLEAN, list' = << >>, size' = 0,
           heap' \in Nat, UNCHANGED <<pc, req, data, pass, r, leaf, updateroot>>
    PROVE  IInv'
<1>1. req = NoRequest /\ data = NoBuffer /\ pass = 0 /\ r = 0 /\ leaf = 0 /\ updateroot = 0
  BY DEF CallInv
<1>2. list' \in Seq(Block) /\ Len(list') = 0
  OBVIOUS
<1>3. TypeOK'
  BY <1>1, <1>2 DEF TypeOK, Buffers, blocks
<1>4. CallInv' /\ RootInv' /\ PassedInv' /\ AlignedInv' /\ PassInv'
  BY <1>1 DEF CallInv, RootInv, PassedInv, AlignedInv, PassInv
<1>5. HeapInv' /\ ClosedInv' /\ StrictlySorted'
  BY <1>2 DEF HeapInv, ClosedInv, StrictlySorted
<1> QED BY <1>3, <1>4, <1>5 DEF IInv

LEMMA SearchStep ==
    ASSUME IInv, PushSearch \/ PullSearch
    PROVE  IInv'
<1>0. TypeOK /\ CallInv /\ RootInv /\ PassedInv /\ AlignedInv /\ PassInv /\ HeapInv /\ ClosedInv
      /\ StrictlySorted
  BY DEF IInv
<1>1. /\ leaf \in 1 .. Len(list) - 1 /\ leaf' = leaf + 1
      /\ list[leaf + 1].blockid * BlockSize <= relaoffset
      /\ UNCHANGED <<open, list, size, heap, pc, req, data, pass, r>>
      /\ updateroot' = 0 \/ (pc = "pull" /\ updateroot' = updateroot)
      /\ updateroot' \in {0, 1}
      /\ pc # "idle"
  BY <1>0 DEF PushSearch, PullSearch, Advances, TypeOK
<1>2. TypeOK' /\ PassInv'
  BY <1>0, <1>1 DEF TypeOK, Buffers, PassInv, blocks
<1>3. CallInv'
  BY <1>0, <1>1 DEF CallInv
<1>4. HeapInv' /\ ClosedInv' /\ StrictlySorted'
  BY <1>0, <1>1 DEF HeapInv, ClosedInv, StrictlySorted
<1>5. AlignedInv' /\ relaoffset' = relaoffset
  BY <1>0, <1>1 DEF AlignedInv, relaoffset
<1>6. RootInv'
  <2>1. CASE updateroot' = 0
    BY <2>1 DEF RootInv
  <2>2. CASE pc = "pull" /\ updateroot' = updateroot
    BY <1>0, <2>2 DEF RootInv
  <2> QED BY <1>1, <2>1, <2>2
<1>7. PassedInv'
  <2>1. list[1].blockid \in Nat /\ list[leaf + 1].blockid \in Nat /\ relaoffset \in Nat
    BY <1>0, <1>1, ElementType, OffsetType
  <2>2. list[1].blockid <= list[leaf + 1].blockid
    BY <1>0, <1>1, <2>1 DEF StrictlySorted
  <2>3. list[1].blockid * BlockSize <= relaoffset
    <3>1. list[leaf + 1].blockid <= relaoffset \div BlockSize
      BY <1>1, <2>1, BlockOrder
    <3>2. relaoffset \div BlockSize \in Nat
      BY <2>1, BlockSizeAssumption
    <3>3. list[1].blockid <= relaoffset \div BlockSize
      BY <2>1, <2>2, <3>1, <3>2
    <3> QED BY <2>1, <3>3, BlockOrder
  <2>4. list # << >>
    BY <1>0, <1>1 DEF TypeOK
  <2> QED BY <1>1, <1>5, <2>3, <2>4 DEF PassedInv
<1> QED BY <1>2, <1>3, <1>4, <1>5, <1>6, <1>7 DEF IInv

\* A push or a pull starts with its search pointer at the head.
LEMMA CallStep ==
    ASSUME IInv, NEW q \in Requests, NEW buffer \in Buffers(q.len),
           Write(q, buffer) \/ Read(q, buffer)
    PROVE  IInv'
<1>0. TypeOK /\ CallInv /\ RootInv /\ PassedInv /\ AlignedInv /\ PassInv /\ HeapInv /\ ClosedInv
      /\ StrictlySorted
  BY DEF IInv
<1>1. /\ open /\ pc = "idle" /\ req' = q /\ data' = buffer /\ pass' = 0 /\ r' = 0
      /\ leaf' = FirstLeaf(list)
      /\ UNCHANGED <<open, list, size, heap>>
      /\ \/ pc' = "push" /\ updateroot' = 1
         \/ pc' = "pull" /\ updateroot' = updateroot
  BY DEF Write, Read, Call
<1>2. leaf' \in 0 .. Len(list) /\ leaf' <= 1 /\ q.len \in Nat
  BY <1>0, <1>1, RequestsAssumption DEF FirstLeaf, TypeOK
<1>3. updateroot = 0
  BY <1>0, <1>1 DEF CallInv
<1>b. blocks' \in Nat
  <2>1. blocks' = ((q.offset % BlockSize) + q.len + BlockSize - 1) \div BlockSize
    BY <1>1 DEF blocks
  <2>2. q.offset \in Nat
    BY RequestsAssumption
  <2>3. q.offset % BlockSize \in Nat
    BY <2>2, ModRange, BlockSizeAssumption
  <2>4. (q.offset % BlockSize) + q.len + BlockSize - 1 \in Nat
    BY <1>2, <2>3, BlockSizeAssumption
  <2> QED BY <2>1, <2>4, ModRange, BlockSizeAssumption
<1>4. TypeOK'
  BY <1>0, <1>1, <1>2, <1>b DEF TypeOK, Buffers
<1>5. CallInv' /\ AlignedInv' /\ PassInv'
  BY <1>1 DEF CallInv, AlignedInv, PassInv, FirstLeaf
<1>6. RootInv' /\ PassedInv'
  BY <1>1, <1>2, <1>3 DEF RootInv, PassedInv
<1>7. HeapInv' /\ ClosedInv' /\ StrictlySorted'
  BY <1>0, <1>1 DEF HeapInv, ClosedInv, StrictlySorted
<1> QED BY <1>4, <1>5, <1>6, <1>7 DEF IInv

\* One chunk over a block that is there: no block number changes.
LEMMA OverwriteStep ==
    ASSUME IInv, NEW tailBlank \in BOOLEAN, PushOverwrite(tailBlank)
    PROVE  IInv'
<1>0. TypeOK /\ CallInv /\ RootInv /\ PassedInv /\ AlignedInv /\ PassInv /\ HeapInv /\ ClosedInv
      /\ StrictlySorted
  BY DEF IInv
<1>1. /\ InStore /\ leaf \in 1 .. Len(list) /\ list[leaf].blockid = blockid
      /\ list' = [list EXCEPT ![leaf] = BlockOver(list[leaf].data)]
      /\ NextChunk /\ UNCHANGED <<open, size, heap>>
  BY <1>0 DEF PushOverwrite, FoundBlock, TypeOK
<1>2. r < req.len /\ req \in Requests
  BY <1>0, <1>1, PassesLeft, InProgress DEF InStore
<1>3. BlockOver(list[leaf].data) \in Block
  BY <1>0, <1>1, <1>2, ElementType, BlockOverType
<1>4. list' \in Seq(Block) /\ Len(list') = Len(list)
  BY <1>0, <1>1, <1>3 DEF TypeOK
<1>5. \A i \in 1 .. Len(list) : list'[i].blockid = list[i].blockid
  BY <1>0, <1>1 DEF TypeOK, BlockOver
<1>6. updateroot = 0 => list' # << >> /\ list'[1].blockid = list[1].blockid
  BY <1>0, <1>1, <1>4, <1>5 DEF TypeOK
<1>7. TypeOK' /\ CallInv' /\ RootInv' /\ PassedInv' /\ AlignedInv' /\ PassInv'
          /\ ClosedInv'
  BY <1>0, <1>1, <1>4, <1>6, NextChunkInv DEF TypeOK
<1>8. HeapInv'
  BY <1>0, <1>1, <1>4 DEF HeapInv
<1>9. StrictlySorted'
  BY <1>0, <1>4, <1>5 DEF StrictlySorted
<1> QED BY <1>7, <1>8, <1>9 DEF IInv

\* Where PushInsert puts the block keeps the order: behind the leaf it lies
\* before the next block, because the search stopped there; before the head
\* it can only go when the search never moved.
LEMMA InsertStep ==
    ASSUME IInv, NEW tailBlank \in BOOLEAN, PushInsert(tailBlank)
    PROVE  IInv'
<1>0. TypeOK /\ CallInv /\ RootInv /\ PassedInv /\ AlignedInv /\ PassInv /\ HeapInv /\ ClosedInv
      /\ StrictlySorted
  BY DEF IInv
<1>1. /\ InStore /\ ~FoundBlock /\ NextChunk /\ heap' = heap + 1
      /\ UNCHANGED <<open, size>>
  BY DEF PushInsert
<1>2. r < req.len /\ req \in Requests
  BY <1>0, <1>1, PassesLeft, InProgress DEF InStore
<1>3. NewBlock \in Block /\ NewBlock.blockid = blockid /\ blockid \in Nat
  BY <1>0, <1>2, NewBlockType, ChunkProperties, IdModAssumption DEF NewBlock, BlockOver
<1>4. CASE leaf # 0 /\ blockid > list[leaf].blockid
  <2>1. list' = Inserted(leaf + 1, NewBlock)
    BY <1>4 DEF PushInsert
  <2>2. leaf \in 1 .. Len(list) /\ leaf + 1 \in 1 .. Len(list) + 1
        /\ list \in Seq(Block) /\ Len(list) \in Nat
    BY <1>0, <1>4 DEF TypeOK
  <2>3. /\ list' \in Seq(Block)
        /\ Len(list') = Len(list) + 1
        /\ \A i \in 1 .. Len(list) + 1 :
              list'[i] = IF i < leaf + 1 THEN list[i]
                         ELSE IF i = leaf + 1 THEN NewBlock ELSE list[i - 1]
    <3>1. leaf + 1 \in 1 .. Len(list) + 1
      BY <2>2
    <3>2. \A p \in 1 .. Len(list) + 1, e \in Block :
             /\ Inserted(p, e) \in Seq(Block)
             /\ Len(Inserted(p, e)) = Len(list) + 1
             /\ \A i \in 1 .. Len(list) + 1 :
                   Inserted(p, e)[i] = IF i < p THEN list[i]
                                       ELSE IF i = p THEN e ELSE list[i - 1]
      BY <2>2, InsertedProperties
    <3> QED BY <1>3, <2>1, <3>1, <3>2
  <2>4. \A i \in 1 .. Len(list) : list[i].blockid \in Nat
    BY <1>0, ElementType
  <2>5. leaf < Len(list) => blockid < list[leaf + 1].blockid
    <3> SUFFICES ASSUME leaf < Len(list) PROVE blockid < list[leaf + 1].blockid
      OBVIOUS
    <3>1. ~(list[leaf + 1].blockid * BlockSize <= relaoffset)
      BY <1>1, <1>4 DEF InStore, Advances
    <3>a. relaoffset \in Nat /\ relaoffset \div BlockSize \in Nat
      BY <1>0, <1>2, ChunkProperties
    <3>b. leaf + 1 \in 1 .. Len(list) /\ list[leaf + 1].blockid \in Nat
      BY <2>2, <2>4
    <3>2. relaoffset \div BlockSize < list[leaf + 1].blockid
      BY <3>1, <3>a, <3>b, BlockOrder
    <3>3. blockid <= relaoffset \div BlockSize
      BY <3>a, IdModAssumption DEF blockid
    <3> QED BY <3>2, <3>3, <3>a, <3>b, <1>3
  <2>6. StrictlySorted'
    <3> SUFFICES ASSUME NEW i \in 1 .. Len(list) + 1, NEW j \in 1 .. Len(list) + 1, i < j
                 PROVE  list'[i].blockid < list'[j].blockid
      BY <2>3 DEF StrictlySorted
    <3>1. CASE j < leaf + 1
      <4>1. list'[i] = list[i] /\ list'[j] = list[j]
        BY <2>2, <2>3, <3>1
      <4>2. i - 1 \in Int /\ j - 1 \in Int
        OBVIOUS
      <4> QED BY <1>0, <2>2, <4>1, <4>2, <3>1 DEF StrictlySorted
    <3>2. CASE j = leaf + 1
      <4>1. list'[j].blockid = blockid /\ list'[i] = list[i] /\ i <= leaf
        BY <1>3, <2>2, <2>3, <3>2
      <4>2. list[i].blockid <= list[leaf].blockid
        BY <1>0, <2>2, <2>4, <4>1 DEF StrictlySorted
      <4> QED BY <1>3, <1>4, <2>2, <2>4, <4>1, <4>2
    <3>3. CASE j > leaf + 1 /\ i < leaf + 1
      <4>1. list'[i] = list[i] /\ list'[j] = list[j - 1]
        BY <2>2, <2>3, <3>3
      <4>2. i - 1 \in Int /\ j - 1 \in Int
        OBVIOUS
      <4> QED BY <1>0, <2>2, <4>1, <4>2, <3>3 DEF StrictlySorted
    <3>4. CASE j > leaf + 1 /\ i = leaf + 1
      <4>1. list'[i].blockid = blockid /\ list'[j] = list[j - 1] /\ leaf + 1 <= j - 1
            /\ j - 1 \in 1 .. Len(list)
        BY <1>3, <2>2, <2>3, <3>4
      <4>2. list[leaf + 1].blockid <= list[j - 1].blockid
        BY <1>0, <2>2, <2>4, <4>1 DEF StrictlySorted
      <4> QED BY <1>3, <2>2, <2>4, <2>5, <4>1, <4>2
    <3>5. CASE i > leaf + 1
      <4>1. list'[i] = list[i - 1] /\ list'[j] = list[j - 1]
        BY <2>2, <2>3, <3>5
      <4>2. i - 1 \in 1 .. Len(list) /\ j - 1 \in 1 .. Len(list) /\ i - 1 < j - 1
        BY <2>2, <3>5
      <4>3. list[i - 1].blockid < list[j - 1].blockid
        BY <1>0, <4>2 DEF StrictlySorted
      <4> QED BY <4>1, <4>3
    <3> QED BY <2>2, <3>1, <3>2, <3>3, <3>4, <3>5
  <2>7. list' # << >> /\ list'[1].blockid = list[1].blockid
    BY <2>2, <2>3
  <2>8. HeapInv'
    BY <1>0, <1>1, <2>2, <2>3 DEF HeapInv, TypeOK
  <2>9. TypeOK' /\ CallInv' /\ RootInv' /\ PassedInv' /\ AlignedInv' /\ PassInv'
          /\ ClosedInv'
    BY <1>0, <1>1, <2>3, <2>7, NextChunkInv DEF TypeOK
  <2> QED BY <2>6, <2>8, <2>9 DEF IInv
<1>5. CASE ~(leaf # 0 /\ blockid > list[leaf].blockid) /\ updateroot = 1 /\ relalen # NomemCode
  <2>1. list' = Inserted(1, NewBlock)
    BY <1>5 DEF PushInsert
  <2>2. list \in Seq(Block) /\ Len(list) \in Nat /\ leaf \in 0 .. Len(list) /\ leaf <= 1
    BY <1>0, <1>5 DEF TypeOK, RootInv
  <2>3. /\ list' \in Seq(Block)
        /\ Len(list') = Len(list) + 1
        /\ \A i \in 1 .. Len(list) + 1 :
              list'[i] = IF i = 1 THEN NewBlock ELSE list[i - 1]
    BY <1>3, <2>1, <2>2, InsertedProperties
  <2>4. \A i \in 1 .. Len(list) : list[i].blockid \in Nat
    BY <1>0, ElementType
  <2>5. Len(list) > 0 => leaf = 1 /\ blockid < list[1].blockid
    <3> SUFFICES ASSUME Len(list) > 0 PROVE leaf = 1 /\ blockid < list[1].blockid
      OBVIOUS
    <3>1. leaf = 1
      BY <1>0, <1>1, <2>2 DEF CallInv, InStore
    <3>2. list[1].blockid # blockid /\ ~(blockid > list[1].blockid)
      BY <1>1, <1>5, <3>1 DEF FoundBlock
    <3> QED BY <1>3, <2>2, <2>4, <3>1, <3>2
  <2>6. StrictlySorted'
    <3> SUFFICES ASSUME NEW i \in 1 .. Len(list) + 1, NEW j \in 1 .. Len(list) + 1, i < j
                 PROVE  list'[i].blockid < list'[j].blockid
      BY <2>3 DEF StrictlySorted
    <3>1. CASE i > 1
      <4>1. list'[i] = list[i - 1] /\ list'[j] = list[j - 1]
        BY <2>2, <2>3, <3>1
      <4>2. i - 1 \in 1 .. Len(list) /\ j - 1 \in 1 .. Len(list) /\ i - 1 < j - 1
        BY <2>2, <3>1
      <4>3. list[i - 1].blockid < list[j - 1].blockid
        BY <1>0, <4>2 DEF StrictlySorted
      <4> QED BY <4>1, <4>3
    <3>2. CASE i = 1
      <4>1. list'[i].blockid = blockid /\ list'[j] = list[j - 1] /\ j - 1 \in 1 .. Len(list)
        BY <1>3, <2>2, <2>3, <3>2
      <4>2. list[1].blockid <= list[j - 1].blockid
        BY <1>0, <2>2, <2>4, <4>1 DEF StrictlySorted
      <4> QED BY <1>3, <2>2, <2>4, <2>5, <4>1, <4>2
    <3> QED BY <3>1, <3>2
  <2>7. HeapInv'
    BY <1>0, <1>1, <2>2, <2>3 DEF HeapInv, TypeOK
  <2>8. TypeOK' /\ CallInv' /\ RootInv' /\ PassedInv' /\ AlignedInv' /\ PassInv'
          /\ ClosedInv'
    BY <1>0, <1>1, <1>5, <2>3, NextChunkInv DEF TypeOK
  <2> QED BY <2>6, <2>7, <2>8 DEF IInv
<1>6. CASE ~(leaf # 0 /\ blockid > list[leaf].blockid) /\ ~(updateroot = 1 /\ relalen # NomemCode)
  <2>1. list' = list
    BY <1>6 DEF PushInsert
  <2>2. updateroot = 0 => list # << >>
    BY <1>0, <1>1 DEF PassedInv, InStore
  <2>3. TypeOK' /\ CallInv' /\ RootInv' /\ PassedInv' /\ AlignedInv' /\ PassInv'
          /\ ClosedInv'
    BY <1>0, <1>1, <2>1, <2>2, NextChunkInv DEF TypeOK
  <2>4. HeapInv' /\ StrictlySorted'
    BY <1>0, <1>1, <2>1 DEF HeapInv, StrictlySorted, TypeOK
  <2> QED BY <2>3, <2>4 DEF IInv
<1> QED BY <1>4, <1>5, <1>6

LEMMA PullRoundStep ==
    ASSUME IInv, PullRound
    PROVE  IInv'
<1>0. TypeOK /\ CallInv /\ RootInv /\ PassedInv /\ AlignedInv /\ PassInv /\ HeapInv /\ ClosedInv
      /\ StrictlySorted
  BY DEF IInv
<1>1. /\ pc = "pull" /\ pass < blocks /\ r' = r + relalen /\ leaf' = FirstLeaf(list)
      /\ pass' = pass + 1 /\ r < req.len
      /\ UNCHANGED <<open, list, size, heap, pc, req, updateroot>>
  BY <1>0, PassesLeft DEF PullRound
<1>2. req \in Requests
  BY <1>0, <1>1, InProgress
<1>3. /\ r' \in 0 .. req.len
      /\ leaf' \in 0 .. Len(list) /\ leaf' <= 1 /\ (leaf' = 0 => list = << >>)
  <2>1. r' \in 0 .. req.len
    BY <1>0, <1>1, <1>2, NextStart
  <2>2. leaf' \in 0 .. Len(list) /\ leaf' <= 1 /\ (leaf' = 0 => list = << >>)
    BY <1>0, <1>1 DEF FirstLeaf, TypeOK
  <2> QED BY <2>1, <2>2
<1>4. data' \in Buffers(req.len)
  <2>1. CASE Covers
    <3>1. leaf \in 1 .. Len(list)
      BY <1>0, <2>1 DEF Covers, TypeOK
    <3>2. list[leaf].data \in BlockData
      BY <1>0, <3>1, ElementType
    <3>3. \A k \in 0 .. req.len - 1 : (req.offset + k) % BlockSize \in 0 .. BlockSize - 1
      <4> SUFFICES ASSUME NEW k \in 0 .. req.len - 1
                   PROVE  (req.offset + k) % BlockSize \in 0 .. BlockSize - 1
        OBVIOUS
      <4>1. req.offset + k \in Nat
        BY <1>0, OffsetType
      <4> QED BY <4>1, ModRange, BlockSizeAssumption
    <3>4. \A k \in 0 .. req.len - 1 : list[leaf].data[(req.offset + k) % BlockSize] \in Byte
      BY <3>2, <3>3 DEF BlockData
    <3>5. \A k \in 0 .. req.len - 1 : data[k] \in Byte
      BY <1>0 DEF TypeOK, Buffers
    <3> QED BY <2>1, <3>4, <3>5 DEF PullRound, Buffers
  <2>2. CASE ~Covers
    BY <1>0, <2>2 DEF PullRound, TypeOK
  <2> QED BY <2>1, <2>2
<1>b. pass' \in 0 .. blocks' /\ PassInv'
  <2>1. blocks' = blocks
    BY <1>1 DEF blocks
  <2>2. /\ pass + 1 \in 0 .. blocks /\ pass \in 0 .. blocks
        /\ r + relalen = IF pass + 1 < blocks
                         THEN (pass + 1) * BlockSize - (req.offset % BlockSize)
                         ELSE req.len
    BY <1>0, <1>1, PassDone, BlocksCover
  <2> QED BY <1>1, <2>1, <2>2 DEF PassInv
<1>5. TypeOK'
  BY <1>0, <1>1, <1>3, <1>4, <1>b DEF TypeOK, Buffers
<1>6. CallInv'
  BY <1>0, <1>1, <1>3 DEF CallInv
<1>7. RootInv' /\ PassedInv'
  BY <1>0, <1>1, <1>3 DEF RootInv, PassedInv
<1>8. AlignedInv'
  BY <1>0, <1>1, <1>2, NextStart DEF AlignedInv, relaoffset
<1>9. HeapInv' /\ ClosedInv' /\ StrictlySorted'
  BY <1>0, <1>1 DEF HeapInv, ClosedInv, StrictlySorted
<1> QED BY <1>5, <1>6, <1>7, <1>8, <1>9, <1>b DEF IInv

\* The invariant of the list holds in every state.
THEOREM Invariance == Spec => []IInv
<1>1. Init => IInv
  <2> SUFFICES ASSUME Init PROVE IInv
    OBVIOUS
  <2>1. TypeOK
    <3>1. open \in BOOLEAN
      BY DEF Init
    <3>2. NoBuffer \in Buffers(NoRequest.len)
      BY DEF NoBuffer, NoRequest, Buffers
    <3>3. blocks \in Nat
      <4>1. (0 % BlockSize) + 0 + BlockSize - 1 = BlockSize - 1
        BY BlockSizeAssumption
      <4>2. blocks = (BlockSize - 1) \div BlockSize
        BY <4>1 DEF Init, NoRequest, blocks
      <4> QED BY <4>2, BlockSizeAssumption
    <3> QED BY <3>1, <3>2, <3>3 DEF Init, TypeOK, NoRequest
  <2>2. CallInv /\ RootInv /\ PassedInv /\ AlignedInv /\ PassInv
    BY DEF Init, CallInv, RootInv, PassedInv, AlignedInv, PassInv
  <2>3. HeapInv /\ ClosedInv /\ StrictlySorted
    BY DEF Init, HeapInv, ClosedInv, StrictlySorted
  <2> QED BY <2>1, <2>2, <2>3 DEF IInv
<1>2. IInv /\ [Next]_vars => IInv'
  <2> SUFFICES ASSUME IInv, [Next]_vars PROVE IInv'
    OBVIOUS
  <2>0. TypeOK /\ CallInv /\ RootInv /\ PassedInv /\ AlignedInv /\ PassInv /\ HeapInv /\ ClosedInv
      /\ StrictlySorted
    BY DEF IInv
  <2>1. CASE Open
    <3>1. open' \in BOOLEAN /\ list' = << >> /\ size' = 0
          /\ UNCHANGED <<heap, pc, req, data, pass, r, leaf, updateroot>>
      BY <2>1 DEF Open, locals
    <3>2. pc = "idle"
      BY <2>0, <2>1 DEF Open, CallInv
    <3>4. heap' \in Nat
      BY <2>0, <3>1 DEF TypeOK
    <3> QED BY <2>0, <3>1, <3>2, <3>4, EmptiedInv
  <2>2. CASE Close
    <3>1. open' \in BOOLEAN /\ list' = << >> /\ size' = 0 /\ heap' = heap - Len(list)
          /\ UNCHANGED <<pc, req, data, pass, r, leaf, updateroot>> /\ pc = "idle"
      BY <2>2 DEF Close, locals
    <3>2. heap' \in Nat
      BY <2>0, <3>1 DEF HeapInv, TypeOK
    <3> QED BY <2>0, <3>1, <3>2, EmptiedInv
  <2>3. ASSUME NEW q \in Requests, NEW buffer \in Buffers(q.len),
               Write(q, buffer) \/ Read(q, buffer)
        PROVE  IInv'
    BY <2>3, CallStep
  <2>4. CASE PushSearch \/ PullSearch
    BY <2>4, SearchStep
  <2>5. ASSUME NEW tailBlank \in BOOLEAN, PushBlank(tailBlank)
        PROVE  IInv'
    <3>1. InStore /\ NextChunk /\ UNCHANGED <<open, list, size, heap>>
      BY <2>5 DEF PushBlank
    <3>2. updateroot = 0 => list # << >>
      BY <2>0, <3>1 DEF PassedInv, InStore
    <3>3. TypeOK' /\ CallInv' /\ RootInv' /\ PassedInv' /\ AlignedInv' /\ PassInv'
          /\ ClosedInv'
      BY <2>0, <3>1, <3>2, NextChunkInv DEF TypeOK
    <3> QED BY <2>0, <3>1, <3>3 DEF IInv, HeapInv, StrictlySorted, ClosedInv
  <2>6. ASSUME NEW tailBlank \in BOOLEAN, PushOverwrite(tailBlank)
        PROVE  IInv'
    BY <2>6, OverwriteStep
  <2>7. ASSUME NEW tailBlank \in BOOLEAN, PushInsert(tailBlank)
        PROVE  IInv'
    BY <2>7, InsertStep
  <2>8. ASSUME Return, UNCHANGED <<open, list, heap>>, size' \in Nat
        PROVE  IInv'
    <3>1. TypeOK' /\ CallInv' /\ RootInv' /\ PassedInv' /\ AlignedInv' /\ PassInv'
          /\ ClosedInv'
      BY <2>0, <2>8, ReturnInv DEF TypeOK, ClosedInv
    <3> QED BY <2>0, <2>8, <3>1 DEF IInv, HeapInv, StrictlySorted, ClosedInv
  <2>9. ASSUME NEW tailBlank \in BOOLEAN, PushNomem(tailBlank)
        PROVE  IInv'
    BY <2>0, <2>8, <2>9 DEF PushNomem, TypeOK
  <2>10. CASE PushEnd
    BY <2>0, <2>8, <2>10, OffsetType DEF PushEnd, TypeOK
  <2>11. CASE PullRound
    BY <2>11, PullRoundStep
  <2>12. CASE PullEnd
    BY <2>0, <2>8, <2>12 DEF PullEnd, TypeOK
  <2>13. CASE UNCHANGED vars
    BY <2>0, <2>13
       DEF vars, IInv, TypeOK, CallInv, RootInv, PassedInv, AlignedInv, PassInv, HeapInv,
           ClosedInv, StrictlySorted, Buffers, relaoffset, blocks
  <2> QED
    BY <2>1, <2>2, <2>3, <2>4, <2>5, <2>6, <2>7, <2>9, <2>10, <2>11, <2>12, <2>13
       DEF Next, Step
<1> QED BY <1>1, <1>2, PTL DEF Spec

\* Every variable keeps its type, and the search pointer stays in the list.
THEOREM TypeCorrect == Spec => []TypeOK
BY Invariance, PTL DEF IInv

\* The list stays in order, each block number once, in whatever order the
\* offsets are written, and even where blockid wraps, sqlite3_malloc fails or
\* a length is taken for SQLITE_NOMEM.
THEOREM Sorted == Spec => []StrictlySorted
BY Invariance, PTL DEF IInv

\* Below the wrap the block number stored is the one compared.
LEMMA BlockidExact ==
    ASSUME TypeOK, CallInv, NoWrap, r < req.len, req \in Requests
    PROVE  blockid = relaoffset \div BlockSize
<1>1. /\ relaoffset \in Nat /\ relaoffset \div BlockSize \in Nat
      /\ req.offset \in Nat /\ req.len \in Nat /\ r \in Nat
  BY ChunkProperties, OffsetType
<1>2. relaoffset < IdMod * BlockSize
  <2>1. relaoffset < req.offset + req.len
    BY <1>1 DEF relaoffset
  <2>2. IdMod * BlockSize \in Nat
    BY IdModAssumption, BlockSizeAssumption
  <2> QED BY <1>1, <2>1, <2>2 DEF NoWrap
<1>3. ~(IdMod <= relaoffset \div BlockSize)
  BY <1>1, <1>2, BlockOrder, IdModAssumption, BlockSizeAssumption
<1> QED BY <1>1, <1>3, IdModAssumption DEF blockid

LEMMA NotNomem ==
    ASSUME TypeOK, CallInv, AlignedInv, NoNomemLength, r < req.len, req \in Requests
    PROVE  relalen # NomemCode
<1>1. req.offset \in Nat /\ req.len \in Nat /\ r \in Nat
  BY OffsetType
<1>2. r = 0 \/ (req.offset + r) % BlockSize = 0
  BY <1>1 DEF AlignedInv, relaoffset
<1>3. r \in 0 .. req.len - 1
  BY <1>1
<1> QED BY <1>2, <1>3 DEF NoNomemLength, relalen, Round, relaoffset

\* A block that is not in the list yet can always be linked: when it goes in
\* front of the leaf, the leaf is the head and updateroot is still set.
LEMMA Linked ==
    ASSUME IInv, NoWrap, InStore, ~FoundBlock
    PROVE  (leaf # 0 /\ blockid > list[leaf].blockid) \/ updateroot = 1
<1>0. TypeOK /\ CallInv /\ RootInv /\ PassedInv /\ AlignedInv /\ PassInv
  BY DEF IInv
<1>1. r < req.len /\ req \in Requests /\ pc = "push"
  BY <1>0, PassesLeft, InProgress DEF InStore
<1>2. relaoffset \in Nat /\ relaoffset \div BlockSize \in Nat
  BY <1>0, <1>1, ChunkProperties
<1>3. blockid = relaoffset \div BlockSize
  BY <1>0, <1>1, BlockidExact
<1>4. ASSUME updateroot = 0
      PROVE  leaf # 0 /\ blockid > list[leaf].blockid
  <2>1. list # << >> /\ list[1].blockid * BlockSize <= relaoffset
    BY <1>0, <1>1, <1>4 DEF PassedInv
  <2>2. leaf \in 1 .. Len(list)
    BY <1>0, <1>1, <2>1 DEF CallInv, TypeOK
  <2>3. list[leaf].blockid * BlockSize <= relaoffset
    BY <1>0, <2>1, <2>2 DEF PassedInv
  <2>4. list[leaf].blockid \in Nat
    BY <1>0, <2>2, ElementType
  <2>5. list[leaf].blockid <= blockid
    BY <1>2, <1>3, <2>3, <2>4, BlockOrder
  <2>6. list[leaf].blockid # blockid
    BY <2>2 DEF FoundBlock
  <2> QED BY <1>2, <1>3, <2>2, <2>4, <2>5, <2>6
<1> QED BY <1>0, <1>4 DEF TypeOK

\* No block is lost: filecache_free reaches every block ever allocated, if no
\* request reaches the offset where blockid wraps and none has a chunk of
\* length SQLITE_NOMEM.
THEOREM NothingLost ==
    ASSUME NoWrap, NoNomemLength
    PROVE  Spec => []NoOrphan
<1>1. Init => NoOrphan
  BY DEF Init, NoOrphan
<1>2. IInv /\ NoOrphan /\ [Next]_vars => NoOrphan'
  <2> SUFFICES ASSUME IInv, NoOrphan, [Next]_vars PROVE NoOrphan'
    OBVIOUS
  <2>0. TypeOK /\ Len(list) \in Nat
    BY DEF IInv, TypeOK
  <2>1. CASE UNCHANGED <<list, heap>>
    BY <2>1 DEF NoOrphan
  <2>2. CASE Open
    BY <2>0, <2>2 DEF Open, NoOrphan, IInv, ClosedInv
  <2>3. CASE Close
    BY <2>0, <2>3 DEF Close, NoOrphan
  <2>4. ASSUME NEW tailBlank \in BOOLEAN, PushOverwrite(tailBlank)
        PROVE  NoOrphan'
    <3>1. Len(list') = Len(list) /\ heap' = heap
      BY <2>0, <2>4 DEF PushOverwrite, TypeOK
    <3> QED BY <3>1 DEF NoOrphan
  <2>5. ASSUME NEW tailBlank \in BOOLEAN, PushInsert(tailBlank)
        PROVE  NoOrphan'
    <3>1. InStore /\ ~FoundBlock /\ heap' = heap + 1
      BY <2>5 DEF PushInsert
    <3>a. r < req.len /\ req \in Requests
      BY <2>0, <3>1, PassesLeft, InProgress DEF InStore, IInv
    <3>2. NewBlock \in Block /\ list \in Seq(Block) /\ leaf \in 0 .. Len(list)
      BY <2>0, <3>a, NewBlockType DEF TypeOK
    <3>3. Len(list') = Len(list) + 1
      <4>1. CASE leaf # 0 /\ blockid > list[leaf].blockid
        <5>1. list' = Inserted(leaf + 1, NewBlock) /\ leaf + 1 \in 1 .. Len(list) + 1
          BY <2>0, <2>5, <3>2, <4>1 DEF PushInsert
        <5> QED BY <3>2, <5>1, InsertedProperties
      <4>2. CASE ~(leaf # 0 /\ blockid > list[leaf].blockid)
        <5>1. updateroot = 1 /\ relalen # NomemCode
          <6> QED BY <3>1, <3>a, <4>2, Linked, NotNomem DEF IInv
        <5>2. list' = Inserted(1, NewBlock) /\ 1 \in 1 .. Len(list) + 1
          BY <2>0, <2>5, <4>2, <5>1 DEF PushInsert
        <5> QED BY <3>2, <5>2, InsertedProperties
      <4> QED BY <4>1, <4>2
    <3> QED BY <3>1, <3>3 DEF NoOrphan
  <2> QED
    BY <2>1, <2>2, <2>3, <2>4, <2>5
       DEF Next, Step, Write, Read, Call, PushSearch, PullSearch, PushBlank, PushNomem,
           PushEnd, PullRound, PullEnd, vars
<1> QED BY <1>1, <1>2, Invariance, PTL DEF Spec
==============================================================================
