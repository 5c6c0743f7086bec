---------------------- MODULE FilecacheRefinementProofs ----------------------
(****************************************************************************)
(* Proof that the linked list implements the array of MemFile, for every    *)
(* block size, every budget of blocks and every set of requests that does   *)
(* not reach the wrap of blockid.                                           *)
(****************************************************************************)
EXTENDS FilecacheRefinement, FilecacheProofs

\* The bytes a list stands for, and a list in the order of its offsets
Contents(chain) ==
    [o \in Offset |->
        IF \E i \in 1 .. Len(chain) : chain[i].blockid = o \div BlockSize
        THEN LET i == CHOOSE i \in 1 .. Len(chain) :
                        chain[i].blockid = o \div BlockSize
             IN chain[i].data[o % BlockSize]
        ELSE 0]
Ordered(chain) ==
    \A i, j \in 1 .. Len(chain) : i < j => chain[i].blockid < chain[j].blockid

LEMMA ListContents ==
    Bytes(Offset) = Contents(list) /\ Bytes(Offset)' = Contents(list')
BY DEF Bytes, Contents

\* The block of an offset holds its byte, and without one it is zero.
LEMMA ByteOf ==
    ASSUME NEW chain \in Seq(Block), Ordered(chain), NEW o \in Offset
    PROVE  /\ \A i \in 1 .. Len(chain) : chain[i].blockid = o \div BlockSize =>
                 Contents(chain)[o] = chain[i].data[o % BlockSize]
           /\ (\A i \in 1 .. Len(chain) : chain[i].blockid # o \div BlockSize) =>
                 Contents(chain)[o] = 0
<1>1. ASSUME NEW i \in 1 .. Len(chain), chain[i].blockid = o \div BlockSize
      PROVE  Contents(chain)[o] = chain[i].data[o % BlockSize]
  <2> DEFINE found == CHOOSE j \in 1 .. Len(chain) : chain[j].blockid = o \div BlockSize
  <2>1. found \in 1 .. Len(chain) /\ chain[found].blockid = o \div BlockSize
    BY <1>1
  <2>2. Contents(chain)[o] = chain[found].data[o % BlockSize]
    BY <1>1 DEF Contents
  <2>3. \A j \in 1 .. Len(chain) : chain[j].blockid \in Int
    <3>1. \A j \in 1 .. Len(chain) : chain[j] \in Block
      OBVIOUS
    <3> QED BY <3>1, IdModAssumption DEF Block
  <2> HIDE DEF found
  <2>4. found = i
    BY <1>1, <2>1, <2>3 DEF Ordered
  <2> QED BY <2>2, <2>4
<1>2. (\A i \in 1 .. Len(chain) : chain[i].blockid # o \div BlockSize) =>
         Contents(chain)[o] = 0
  BY DEF Contents
<1> QED BY <1>1, <1>2

\* Storing a block, over the one of its number or as a new one, changes the
\* bytes of its range only.
LEMMA BlockStored ==
    ASSUME NEW old \in Seq(Block), Ordered(old), NEW new \in Seq(Block), Ordered(new),
           NEW e \in Block,
           \E j \in 1 .. Len(new) : new[j] = e,
           \A i \in 1 .. Len(old) : old[i].blockid # e.blockid =>
              \E j \in 1 .. Len(new) : new[j] = old[i],
           \A j \in 1 .. Len(new) : new[j].blockid # e.blockid =>
              \E i \in 1 .. Len(old) : old[i] = new[j],
           NEW o \in Offset
    PROVE  Contents(new)[o] = IF o \div BlockSize = e.blockid
                              THEN e.data[o % BlockSize] ELSE Contents(old)[o]
<1>1. CASE o \div BlockSize = e.blockid
  <2>1. PICK j \in 1 .. Len(new) : new[j] = e
    OBVIOUS
  <2> QED BY <1>1, <2>1, ByteOf
<1>2. CASE o \div BlockSize # e.blockid
  <2>1. CASE \E i \in 1 .. Len(old) : old[i].blockid = o \div BlockSize
    <3>1. PICK i \in 1 .. Len(old) : old[i].blockid = o \div BlockSize
      BY <2>1
    <3>2. PICK j \in 1 .. Len(new) : new[j] = old[i]
      BY <1>2, <3>1
    <3>3. Contents(old)[o] = old[i].data[o % BlockSize]
      BY <3>1, ByteOf
    <3>4. new[j].blockid = o \div BlockSize
      BY <3>1, <3>2
    <3>5. Contents(new)[o] = new[j].data[o % BlockSize]
      BY <3>4, ByteOf
    <3> QED BY <1>2, <3>2, <3>3, <3>5
  <2>2. CASE \A i \in 1 .. Len(old) : old[i].blockid # o \div BlockSize
    <3>1. \A j \in 1 .. Len(new) : new[j].blockid # o \div BlockSize
      BY <1>2, <2>2
    <3> QED BY <1>2, <2>2, <3>1, ByteOf
  <2> QED BY <2>1, <2>2
<1> QED BY <1>1, <1>2

------------------------------------------------------------------------------
(* The chunk and the block it falls in.                                     *)

\* The actions of MemFile see the chunk of Filecache.
LEMMA ChunkView ==
    /\ MF!ChunkLen = relalen /\ MF!Chunk = Chunk
    /\ MF!Written = [o \in Offset |-> IF o - req.offset \in Chunk
                                      THEN data[o - req.offset] ELSE Bytes(Offset)[o]]
    /\ MF!Loaded = [k \in 0 .. req.len - 1 |->
                       IF k \in Chunk THEN Bytes(Offset)[req.offset + k] ELSE data[k]]
<1>1. MF!ChunkLen = relalen
  BY DEF MF!ChunkLen, relalen, Round, relaoffset
<1>2. MF!Chunk = Chunk
  BY <1>1 DEF MF!Chunk, Chunk
<1> QED BY <1>1, <1>2 DEF MF!Written, MF!Loaded

LEMMA OffsetsNatural == Offset \subseteq Nat
BY RequestsAssumption DEF Offset

\* The chunk is the part of the request that lies in the block of relaoffset.
LEMMA ChunkInBlock ==
    ASSUME TypeOK, CallInv, r < req.len, req \in Requests, NEW o \in Nat
    PROVE  /\ o - req.offset \in Chunk => o \div BlockSize = relaoffset \div BlockSize
           /\ o \div BlockSize = relaoffset \div BlockSize =>
                 o - req.offset = r + ((o % BlockSize) - (relaoffset % BlockSize))
<1> DEFINE d == relaoffset \div BlockSize
           m == relaoffset % BlockSize
           e == o \div BlockSize
           n == o % BlockSize
<1>1. /\ d \in Nat /\ m \in 0 .. BlockSize - 1 /\ relaoffset = BlockSize * d + m
      /\ Round \in 1 .. BlockSize /\ relalen \in 1 .. Round /\ Round = BlockSize - m
      /\ req.offset \in Nat /\ req.len \in Nat /\ r \in Nat
      /\ relaoffset = req.offset + r /\ BlockSize \in Nat \ {0}
  BY ChunkProperties, OffsetType, BlockSizeAssumption DEF Round, relaoffset
<1>2. e \in Nat /\ n \in 0 .. BlockSize - 1 /\ o = BlockSize * e + n
  BY ModRange, BlockSizeAssumption
<1> HIDE DEF d, m, e, n
<1>3. ASSUME o - req.offset \in Chunk PROVE e = d
  <2>1. o >= relaoffset /\ o < relaoffset + relalen
    BY <1>1, <1>3 DEF Chunk
  <2>2. o < BlockSize * d + BlockSize /\ o >= BlockSize * d
    <3>1. BlockSize * d \in Nat
      BY <1>1
    <3> QED BY <1>1, <2>1, <3>1
  <2> QED BY <1>1, <1>2, <2>2
<1>4. ASSUME e = d PROVE o - req.offset = r + (n - m)
  <2>1. BlockSize * d \in Nat
    BY <1>1
  <2> QED BY <1>1, <1>2, <1>4, <2>1
<1> QED BY <1>3, <1>4 DEF d, m, e, n

\* Where the search ends without the block, the list does not have it.
LEMMA SearchEnd ==
    ASSUME IInv, pc # "idle", r < req.len, ~Advances,
           ~(leaf # 0 /\ list[leaf].blockid = relaoffset \div BlockSize),
           NEW i \in 1 .. Len(list)
    PROVE  list[i].blockid # relaoffset \div BlockSize
<1>0. TypeOK /\ CallInv /\ PassedInv /\ StrictlySorted
  BY DEF IInv
<1>1. req \in Requests /\ leaf \in 1 .. Len(list)
  BY <1>0, InProgress DEF CallInv, TypeOK
<1>2. relaoffset \in Nat /\ relaoffset \div BlockSize \in Nat
  BY <1>0, <1>1, ChunkProperties
<1>3. list[i].blockid \in Nat /\ list[leaf].blockid \in Nat
  BY <1>0, <1>1, ElementType
<1>4. CASE i < leaf
  <2>1. list[leaf].blockid * BlockSize <= relaoffset
    <3>1. leaf > 1
      BY <1>0, <1>4 DEF TypeOK
    <3> QED BY <1>0, <3>1 DEF PassedInv
  <2>2. list[leaf].blockid <= relaoffset \div BlockSize
    BY <1>2, <1>3, <2>1, BlockOrder
  <2>3. list[i].blockid < list[leaf].blockid
    BY <1>0, <1>1, <1>4 DEF StrictlySorted
  <2> QED BY <1>2, <1>3, <2>2, <2>3
<1>5. CASE i > leaf
  <2>1. leaf < Len(list) /\ leaf + 1 \in 1 .. Len(list) /\ leaf + 1 <= i
    BY <1>0, <1>1, <1>5 DEF TypeOK
  <2>2. list[leaf + 1].blockid \in Nat
    BY <1>0, <2>1, ElementType
  <2>3. ~(list[leaf + 1].blockid * BlockSize <= relaoffset)
    BY <1>1, <2>1 DEF Advances
  <2>4. ~(list[leaf + 1].blockid <= relaoffset \div BlockSize)
    BY <1>2, <2>2, <2>3, BlockOrder
  <2>5. list[leaf + 1].blockid <= list[i].blockid
    <3>1. leaf + 1 < i => list[leaf + 1].blockid < list[i].blockid
      BY <1>0, <2>1 DEF StrictlySorted
    <3>2. leaf + 1 = i \/ leaf + 1 < i
      BY <1>0, <2>1 DEF TypeOK
    <3> QED BY <1>3, <2>2, <3>1, <3>2
  <2> QED BY <1>2, <1>3, <2>2, <2>4, <2>5
<1>6. CASE i = leaf
  BY <1>1, <1>6
<1> QED BY <1>1, <1>4, <1>5, <1>6

\* Storing the chunk's block is the write of the chunk.
LEMMA ChunkStored ==
    ASSUME TypeOK, CallInv, NoWrap, StrictlySorted, StrictlySorted', list' \in Seq(Block),
           r < req.len, req \in Requests, NEW before \in BlockData,
           \A o \in Offset : o \div BlockSize = blockid =>
              Bytes(Offset)[o] = before[o % BlockSize],
           \E j \in 1 .. Len(list') : list'[j] = BlockOver(before),
           \A i \in 1 .. Len(list) : list[i].blockid # blockid =>
              \E j \in 1 .. Len(list') : list'[j] = list[i],
           \A j \in 1 .. Len(list') : list'[j].blockid # blockid =>
              \E i \in 1 .. Len(list) : list[i] = list'[j]
    PROVE  Bytes(Offset)' = MF!Written
<1> DEFINE e == BlockOver(before)
           new == list'
<1>1. e \in Block /\ e.blockid = blockid /\ e.data = Copied(before)
  BY BlockOverType DEF BlockOver
<1>2. list \in Seq(Block) /\ Ordered(list) /\ new \in Seq(Block) /\ Ordered(new)
  BY DEF TypeOK, StrictlySorted, Ordered
<1>3. blockid = relaoffset \div BlockSize
  BY BlockidExact
<1>4. ASSUME NEW o \in Offset
      PROVE  Contents(new)[o] = IF o - req.offset \in Chunk
                                THEN data[o - req.offset] ELSE Bytes(Offset)[o]
  <2>1. Contents(new)[o] = IF o \div BlockSize = blockid
                           THEN Copied(before)[o % BlockSize] ELSE Bytes(Offset)[o]
    <3> HIDE DEF e, new
    <3>1. Contents(new)[o] = IF o \div BlockSize = e.blockid
                             THEN e.data[o % BlockSize] ELSE Contents(list)[o]
      BY <1>1, <1>2, BlockStored DEF e, new
    <3> QED BY <1>1, <3>1, ListContents
  <2>2. o \in Nat /\ o % BlockSize \in 0 .. BlockSize - 1
    BY OffsetsNatural, ModRange, BlockSizeAssumption
  <2>3. CASE o \div BlockSize = blockid
    <3>1. o - req.offset = r + ((o % BlockSize) - (relaoffset % BlockSize))
      BY <1>3, <2>2, <2>3, ChunkInBlock
    <3>2. Copied(before)[o % BlockSize] = IF o - req.offset \in Chunk
                                          THEN data[o - req.offset]
                                          ELSE before[o % BlockSize]
      BY <2>2, <3>1 DEF Copied
    <3> QED BY <2>1, <2>3, <3>2
  <2>4. CASE o \div BlockSize # blockid
    <3>1. o - req.offset \notin Chunk
      BY <1>3, <2>2, <2>4, ChunkInBlock
    <3> QED BY <2>1, <2>4, <3>1
  <2> QED BY <2>3, <2>4
<1>5. Bytes(Offset)' = Contents(new)
  BY ListContents
<1>6. Contents(new) = [o \in Offset |-> Contents(new)[o]]
  BY DEF Contents
<1> HIDE DEF new
<1> QED BY <1>4, <1>5, <1>6, ChunkView

------------------------------------------------------------------------------
(* The refinement, action by action.                                        *)

LEMMA InitRefines == Init => MF!Init
<1> SUFFICES ASSUME Init PROVE MF!Init
  OBVIOUS
<1>1. Bytes(Offset) = [o \in Offset |-> 0]
  BY DEF Init, Bytes
<1> QED BY <1>1 DEF Init, MF!Init, NoRequest, NoBuffer, MF!NoRequest, MF!NoBuffer

\* A file without blocks is all zero.
LEMMA EmptyRefines ==
    ASSUME list' = <<>>, size' = 0, UNCHANGED <<pc, req, data, r>>
    PROVE  MF!Empty(open')
<1>1. Bytes(Offset)' = [o \in Offset |-> 0]
  BY DEF Bytes
<1> QED BY <1>1 DEF MF!Empty

LEMMA OpenRefines == Open => MF!Open
<1> SUFFICES ASSUME Open PROVE MF!Open
  OBVIOUS
<1>1. open' = TRUE /\ ~open /\ MF!Empty(open')
  BY EmptyRefines DEF Open, locals
<1> QED BY <1>1 DEF MF!Open

LEMMA CloseRefines == Close => MF!Close
<1> SUFFICES ASSUME Close PROVE MF!Close
  OBVIOUS
<1>1. open' = FALSE /\ open /\ pc = "idle" /\ MF!Empty(open')
  BY EmptyRefines DEF Close, locals
<1> QED BY <1>1 DEF MF!Close

LEMMA CallRefines ==
    ASSUME NEW function, NEW q \in Requests, NEW buffer \in Buffers(q.len),
           Call(function, q, buffer)
    PROVE  MF!Call(function)
<1>1. Bytes(Offset)' = Bytes(Offset)
  BY DEF Call, Bytes
<1> QED BY <1>1 DEF Call, Buffers, MF!Call

LEMMA ReturnRefines == Return => MF!Return
BY DEF Return, MF!Return, NoRequest, NoBuffer, MF!NoRequest, MF!NoBuffer

\* The end of a pass of a push: the write goes on, or stops at a length of
\* SQLITE_NOMEM.
LEMMA NextChunkRefines ==
    ASSUME IInv, InStore, NextChunk, UNCHANGED <<open, size>>,
           \/ Bytes(Offset)' = MF!Written
           \/ /\ Bytes(Offset)' = Bytes(Offset)
              /\ MF!ZeroInBuffer \/ relalen = NomemCode
    PROVE  MF!PushChunk \/ MF!PushStop
<1>1. pc = "push" /\ r < req.len
  BY PassesLeft DEF InStore, IInv
<1>2. CASE relalen = NomemCode
  BY <1>1, <1>2, ReturnRefines DEF NextChunk, MF!PushStop
<1>3. CASE relalen # NomemCode
  BY <1>1, <1>3, ChunkView DEF NextChunk, MF!PushChunk
<1> QED BY <1>2, <1>3

LEMMA BlankRefines ==
    ASSUME IInv, NEW tailBlank \in BOOLEAN, PushBlank(tailBlank)
    PROVE  MF!PushChunk \/ MF!PushStop
<1>1. InStore /\ NextChunk /\ UNCHANGED <<open, list, size>> /\ Blank(tailBlank)
  BY DEF PushBlank
<1>2. TypeOK /\ CallInv /\ r < req.len /\ req \in Requests
  BY <1>1, PassesLeft, InProgress DEF IInv, InStore
<1>3. MF!ZeroInBuffer
  <2>1. /\ r \in Nat /\ relalen \in 1 .. Round /\ Round \in 1 .. BlockSize
        /\ BlockSize \in Nat /\ Chunk \subseteq 0 .. req.len - 1 /\ req.len \in Nat
    BY <1>2, ChunkProperties, OffsetType, BlockSizeAssumption
  <2>2. \A k \in Chunk : k \in r .. r + BlockSize - 1 /\ k < req.len
    BY <2>1 DEF Chunk
  <2>3. \A k \in Chunk : data[k] = 0
    BY <1>1, <2>2 DEF Blank
  <2> QED BY <2>3, ChunkView DEF MF!ZeroInBuffer
<1>4. Bytes(Offset)' = Bytes(Offset)
  BY <1>1 DEF Bytes
<1> QED BY <1>1, <1>3, <1>4, NextChunkRefines

LEMMA OverwriteRefines ==
    ASSUME IInv, IInv', NoWrap, NEW tailBlank \in BOOLEAN, PushOverwrite(tailBlank)
    PROVE  MF!PushChunk \/ MF!PushStop
<1>1. InStore /\ NextChunk /\ UNCHANGED <<open, size>> /\ FoundBlock
      /\ list' = [list EXCEPT ![leaf] = BlockOver(list[leaf].data)]
  BY DEF PushOverwrite
<1>2. /\ TypeOK /\ CallInv /\ StrictlySorted /\ StrictlySorted' /\ list' \in Seq(Block)
      /\ r < req.len /\ req \in Requests
  BY <1>1, PassesLeft, InProgress DEF IInv, InStore, TypeOK
<1>3. leaf \in 1 .. Len(list) /\ list[leaf].blockid = blockid
      /\ list \in Seq(Block)
  BY <1>1, <1>2 DEF FoundBlock, TypeOK
<1> DEFINE before == list[leaf].data
<1>4. before \in BlockData
  BY <1>2, <1>3, ElementType
<1>5. \A o \in Offset : o \div BlockSize = blockid => Bytes(Offset)[o] = before[o % BlockSize]
  <2>1. Ordered(list)
    BY <1>2 DEF Ordered, StrictlySorted
  <2> QED BY <1>3, <2>1, ByteOf, ListContents
<1>6. BlockOver(before) \in Block
  BY <1>2, <1>4, BlockOverType
<1> HIDE DEF before
<1>7. list' = [list EXCEPT ![leaf] = BlockOver(before)]
  BY <1>1 DEF before
<1>8. /\ Len(list') = Len(list) /\ list'[leaf] = BlockOver(before)
      /\ \A i \in 1 .. Len(list) : i # leaf => list'[i] = list[i]
  BY <1>3, <1>6, <1>7
<1>9. /\ \E j \in 1 .. Len(list') : list'[j] = BlockOver(before)
      /\ \A i \in 1 .. Len(list) : list[i].blockid # blockid =>
            \E j \in 1 .. Len(list') : list'[j] = list[i]
  BY <1>3, <1>8
<1>10. \A j \in 1 .. Len(list') : list'[j].blockid # blockid =>
          \E i \in 1 .. Len(list) : list[i] = list'[j]
  <2>1. list'[leaf].blockid = blockid
    BY <1>8 DEF BlockOver
  <2> QED BY <1>8, <2>1
<1>11. Bytes(Offset)' = MF!Written
  BY <1>2, <1>4, <1>5, <1>9, <1>10, ChunkStored
<1> QED BY <1>1, <1>11, NextChunkRefines

LEMMA InsertRefines ==
    ASSUME IInv, IInv', NoWrap, NEW tailBlank \in BOOLEAN, PushInsert(tailBlank)
    PROVE  MF!PushChunk \/ MF!PushStop
<1>1. InStore /\ NextChunk /\ UNCHANGED <<open, size>> /\ ~FoundBlock
  BY DEF PushInsert
<1>2. /\ TypeOK /\ CallInv /\ StrictlySorted /\ StrictlySorted' /\ list' \in Seq(Block)
      /\ r < req.len /\ req \in Requests /\ pc = "push" /\ ~Advances
  BY <1>1, PassesLeft, InProgress DEF IInv, InStore, TypeOK
<1>3. list \in Seq(Block) /\ leaf \in 0 .. Len(list) /\ NewBlock \in Block
  BY <1>2, NewBlockType DEF TypeOK
<1>4. CASE list' = list
  <2>1. Bytes(Offset)' = Bytes(Offset)
    BY <1>4 DEF Bytes
  <2>2. CASE relalen = NomemCode
    BY <1>1, <2>1, <2>2, NextChunkRefines
  <2>3. CASE relalen # NomemCode
    <3>1. \E p \in 1 .. Len(list) + 1 : list' = Inserted(p, NewBlock)
      <4>1. CASE leaf # 0 /\ blockid > list[leaf].blockid
        <5>1. leaf + 1 \in 1 .. Len(list) + 1
          BY <1>3
        <5> QED BY <4>1, <5>1 DEF PushInsert
      <4>2. CASE ~(leaf # 0 /\ blockid > list[leaf].blockid)
        <5>1. 1 \in 1 .. Len(list) + 1 /\ updateroot = 1
          BY <1>1, <1>3, <4>2, Linked
        <5> QED BY <2>3, <4>2, <5>1 DEF PushInsert
      <4> QED BY <4>1, <4>2
    <3>2. Len(list') = Len(list) + 1
      BY <1>3, <3>1, InsertedProperties
    <3> QED BY <1>3, <1>4, <3>2
  <2> QED BY <2>2, <2>3
<1>5. CASE \E p \in 1 .. Len(list) + 1 : list' = Inserted(p, NewBlock)
  <2>1. PICK p \in 1 .. Len(list) + 1 : list' = Inserted(p, NewBlock)
    BY <1>5
  <2>2. /\ Len(list') = Len(list) + 1
        /\ \A i \in 1 .. Len(list) + 1 :
              list'[i] = IF i < p THEN list[i] ELSE IF i = p THEN NewBlock ELSE list[i - 1]
    BY <1>3, <2>1, InsertedProperties
  <2> DEFINE before == [b \in 0 .. BlockSize - 1 |-> 0]
  <2>3. before \in BlockData /\ NewBlock = BlockOver(before)
    BY ByteAssumption DEF BlockData, NewBlock
  <2>4. blockid = relaoffset \div BlockSize
    BY <1>2, BlockidExact
  <2>5. \A i \in 1 .. Len(list) : list[i].blockid # relaoffset \div BlockSize
    BY <1>1, <1>2, <2>4, SearchEnd DEF FoundBlock
  <2>6. \A o \in Offset : o \div BlockSize = blockid => Bytes(Offset)[o] = before[o % BlockSize]
    <3> SUFFICES ASSUME NEW o \in Offset, o \div BlockSize = blockid
                 PROVE  Bytes(Offset)[o] = before[o % BlockSize]
      OBVIOUS
    <3>1. Ordered(list)
      BY <1>2 DEF Ordered, StrictlySorted
    <3>2. Bytes(Offset)[o] = 0
      BY <1>3, <2>4, <2>5, <3>1, ByteOf, ListContents
    <3>3. o % BlockSize \in 0 .. BlockSize - 1
      BY OffsetsNatural, ModRange, BlockSizeAssumption
    <3> QED BY <3>2, <3>3
  <2> HIDE DEF before
  <2>7. \E j \in 1 .. Len(list') : list'[j] = BlockOver(before)
    <3>1. p \in 1 .. Len(list') /\ list'[p] = NewBlock
      BY <1>3, <2>2
    <3> QED BY <2>3, <3>1
  <2>8. ASSUME NEW i \in 1 .. Len(list)
        PROVE  \E j \in 1 .. Len(list') : list'[j] = list[i]
    <3>1. CASE i < p
      <4>1. i \in 1 .. Len(list') /\ list'[i] = list[i]
        BY <1>3, <2>2, <3>1
      <4> QED BY <4>1
    <3>2. CASE i >= p
      <4>1. i + 1 \in 1 .. Len(list') /\ list'[i + 1] = list[i]
        <5>1. i + 1 \in 1 .. Len(list) + 1 /\ ~(i + 1 < p) /\ i + 1 # p /\ (i + 1) - 1 = i
          BY <1>3, <3>2
        <5> QED BY <2>2, <5>1
      <4> QED BY <4>1
    <3> QED BY <1>3, <3>1, <3>2
  <2>9. ASSUME NEW j \in 1 .. Len(list'), list'[j].blockid # blockid
        PROVE  \E i \in 1 .. Len(list) : list[i] = list'[j]
    <3>1. j # p
      BY <2>2, <2>3, <2>9 DEF BlockOver
    <3>2. CASE j < p
      <4>1. j \in 1 .. Len(list) /\ list'[j] = list[j]
        BY <1>3, <2>2, <3>2
      <4> QED BY <4>1
    <3>3. CASE j > p
      <4>1. j - 1 \in 1 .. Len(list) /\ list'[j] = list[j - 1]
        BY <1>3, <2>2, <3>3
      <4> QED BY <4>1
    <3> QED BY <1>3, <2>2, <3>1, <3>2, <3>3
  <2>10. Bytes(Offset)' = MF!Written
    BY <1>2, <2>3, <2>6, <2>7, <2>8, <2>9, ChunkStored
  <2> QED BY <1>1, <2>10, NextChunkRefines
<1>6. list' = list \/ \E p \in 1 .. Len(list) + 1 : list' = Inserted(p, NewBlock)
  <2>1. 1 \in 1 .. Len(list) + 1 /\ leaf + 1 \in 1 .. Len(list) + 1
    BY <1>3
  <2> QED BY <2>1 DEF PushInsert
<1> QED BY <1>4, <1>5, <1>6

LEMMA NomemRefines ==
    ASSUME IInv, NEW tailBlank \in BOOLEAN, PushNomem(tailBlank)
    PROVE  MF!PushStop
<1>1. Bytes(Offset)' = Bytes(Offset)
  BY DEF PushNomem, Bytes
<1>2. r < req.len
  BY PassesLeft DEF PushNomem, InStore, IInv
<1> QED BY <1>1, <1>2, ReturnRefines DEF PushNomem, InStore, MF!PushStop

LEMMA EndRefines == IInv /\ (PushEnd \/ PullEnd) => MF!PushEnd \/ MF!PullEnd
<1> SUFFICES ASSUME IInv, PushEnd \/ PullEnd PROVE MF!PushEnd \/ MF!PullEnd
  OBVIOUS
<1>1. pass >= blocks => r = req.len
  <2> SUFFICES ASSUME pass >= blocks PROVE r = req.len
    OBVIOUS
  <2>1. blocks \in Nat /\ pass \in 0 .. blocks /\ r \in Nat /\ req.len \in Nat
    BY BlocksCover DEF IInv
  <2>2. ~(r < req.len)
    BY <2>1, PassesLeft DEF IInv, PushEnd, PullEnd
  <2>3. r \in 0 .. req.len
    BY DEF IInv, TypeOK
  <2> QED BY <2>1, <2>2, <2>3
<1>3. list = << >> => MF!NothingThere
  BY DEF Bytes, MF!NothingThere
<1>2. Bytes(Offset)' = Bytes(Offset)
  BY DEF PushEnd, PullEnd, Bytes
<1> QED BY <1>1, <1>2, <1>3, ReturnRefines DEF PushEnd, PullEnd, MF!PushEnd, MF!PullEnd

\* A chunk is read from the block that covers it; without one it is zero, and
\* the buffer stays as it was.
LEMMA PullRefines == IInv /\ PullRound => MF!PullChunk
<1> SUFFICES ASSUME IInv, PullRound PROVE MF!PullChunk
  OBVIOUS
<1>1. /\ pc = "pull" /\ r < req.len /\ ~Advances /\ r' = r + relalen
      /\ UNCHANGED <<open, list, size, pc, req>>
  BY PassesLeft DEF PullRound, IInv
<1>2. TypeOK /\ CallInv /\ StrictlySorted /\ req \in Requests
  BY <1>1, InProgress DEF IInv
<1>3. Bytes(Offset)' = Bytes(Offset)
  BY <1>1 DEF Bytes
<1>4. list \in Seq(Block) /\ Ordered(list) /\ leaf \in 0 .. Len(list)
  BY <1>2 DEF TypeOK, StrictlySorted, Ordered
<1>5. ASSUME NEW k \in Chunk
      PROVE  /\ k \in 0 .. req.len - 1 /\ req.offset + k \in Offset
             /\ (req.offset + k) \div BlockSize = relaoffset \div BlockSize
  <2>1. /\ k \in 0 .. req.len - 1 /\ req.offset \in Nat /\ req.len \in Nat
    BY <1>1, <1>2, ChunkProperties, OffsetType
  <2>2. req.offset + k \in req.offset .. req.offset + req.len - 1 /\ req.offset + k \in Nat
        /\ (req.offset + k) - req.offset = k
    BY <2>1
  <2>3. req.offset + k \in Offset
    BY <1>2, <2>2 DEF Offset
  <2> QED BY <1>1, <1>2, <2>1, <2>2, <2>3, ChunkInBlock
<1>6. data' = MF!Loaded \/ (MF!ZeroInFile /\ data' = data)
  <2>1. CASE Covers
    <3>1. leaf \in 1 .. Len(list) /\ list[leaf].blockid = relaoffset \div BlockSize
      BY <1>4, <2>1 DEF Covers
    <3>2. \A k \in Chunk : list[leaf].data[(req.offset + k) % BlockSize]
                              = Bytes(Offset)[req.offset + k]
      BY <1>4, <1>5, <3>1, ByteOf, ListContents
    <3>3. data' = [k \in 0 .. req.len - 1 |->
                      IF k \in Chunk THEN list[leaf].data[(req.offset + k) % BlockSize]
                      ELSE data[k]]
      BY <2>1 DEF PullRound
    <3> QED BY <3>2, <3>3, ChunkView
  <2>2. CASE ~Covers
    <3>1. \A i \in 1 .. Len(list) : list[i].blockid # relaoffset \div BlockSize
      BY <1>1, <2>2, SearchEnd DEF Covers
    <3>2. \A k \in Chunk : Bytes(Offset)[req.offset + k] = 0
      BY <1>4, <1>5, <3>1, ByteOf, ListContents
    <3> QED BY <2>2, <3>2, ChunkView DEF PullRound, MF!ZeroInFile
  <2> QED BY <2>1, <2>2
<1> QED BY <1>1, <1>3, <1>6, ChunkView DEF MF!PullChunk

\* The array does not see where a search has come.
LEMMA SearchRefines ==
    PushSearch \/ PullSearch \/ UNCHANGED vars => UNCHANGED MF!vars
BY DEF PushSearch, PullSearch, vars, MF!vars, Bytes

LEMMA NextRefines ==
    ASSUME NoWrap
    PROVE  IInv /\ IInv' /\ [Next]_vars => [MF!Next]_(MF!vars)
<1> SUFFICES ASSUME IInv, IInv', [Next]_vars PROVE MF!Next \/ UNCHANGED MF!vars
  OBVIOUS
<1>1. CASE Open \/ Close
  BY <1>1, OpenRefines, CloseRefines DEF MF!Next
<1>2. ASSUME NEW q \in Requests, NEW buffer \in Buffers(q.len),
             Write(q, buffer) \/ Read(q, buffer)
      PROVE  MF!Next
  <2>1. Call("push", q, buffer) \/ Call("pull", q, buffer)
    BY <1>2 DEF Write, Read
  <2> QED BY <2>1, CallRefines DEF MF!Next
<1>3. CASE PushSearch \/ PullSearch \/ UNCHANGED vars
  BY <1>3, SearchRefines
<1>4. ASSUME NEW tailBlank \in BOOLEAN,
             \/ PushBlank(tailBlank) \/ PushOverwrite(tailBlank)
             \/ PushInsert(tailBlank) \/ PushNomem(tailBlank)
      PROVE  MF!Next
  BY <1>4, BlankRefines, OverwriteRefines, InsertRefines, NomemRefines DEF MF!Next
<1>5. CASE PushEnd \/ PullEnd
  BY <1>5, EndRefines DEF MF!Next
<1>6. CASE PullRound
  BY <1>6, PullRefines DEF MF!Next
<1> QED BY <1>1, <1>2, <1>3, <1>4, <1>5, <1>6 DEF Next, Step

\* The list is the array: a write changes the bytes of its chunk and no others,
\* a read finds them, wherever the search loops have come and in whatever order
\* the blocks were written, if no request reaches the wrap of blockid.  Neither
\* failing allocations nor a length taken for SQLITE_NOMEM matter: the array,
\* too, may stop at any chunk.
THEOREM ListImplementsFile ==
    ASSUME NoWrap
    PROVE  Spec => ImplementsMemFile
<1>1. IInv /\ IInv' /\ [Next]_vars => [MF!Next]_(MF!vars)
  BY NextRefines
<1> QED BY <1>1, InitRefines, Invariance, PTL DEF Spec, ImplementsMemFile, MF!Spec

=============================================================================
