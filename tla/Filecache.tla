------------------------------ MODULE Filecache ------------------------------
(****************************************************************************)
(* The RAM file of esp8266.cpp: the sorted linked list of fixed-size blocks *)
(* behind every file the VFS opens with SQLITE_OPEN_MAIN_JOURNAL, that is,  *)
(* SQLite's rollback journal.                                               *)
(*                                                                          *)
(* filecache_push and filecache_pull walk the list once per chunk (the part *)
(* of a request that falls in one block), in a loop whose passes are        *)
(* counted beforehand.  Each pass of a loop body is one step here, so that  *)
(* what holds between the passes can be stated and proved by induction over *)
(* the steps: PushSearch/PullSearch advance the leaf pointer, the Push* and *)
(* PullRound steps do what follows the search, PushEnd/PullEnd return to    *)
(* the caller.  The program is single threaded: between Write and PushEnd   *)
(* nobody else runs.                                                        *)
(*                                                                          *)
(* The list is a sequence in list order, an unlinked ("orphan") block is    *)
(* only counted in heap.  A unit of offset and length is one byte of the    *)
(* code; a model may let it stand for a word when every request it makes is *)
(* word aligned, as the pager's are.                                        *)
(****************************************************************************)
EXTENDS Integers, Sequences

CONSTANTS
    Byte,        \* the contents of one unit; 0 is a zero byte
    BlockSize,   \* CACHEBLOCKSZ
    IdMod,       \* number of values of blockid (uint16_t: 2^16)
    NomemCode,   \* SQLITE_NOMEM, which linkedlist_store also returns as a length
    Requests,    \* the [offset, len] requests xWrite and xRead are called with
    MaxBlocks    \* bound: blocks sqlite3_malloc can hand out at one time

ASSUME ByteAssumption == 0 \in Byte
ASSUME BlockSizeAssumption == BlockSize \in Nat \ {0}
ASSUME IdModAssumption == IdMod \in Nat \ {0}
ASSUME NomemCodeAssumption == NomemCode \in Nat
ASSUME RequestsAssumption == Requests \subseteq [offset : Nat, len : Nat \ {0}]
ASSUME MaxBlocksAssumption == MaxBlocks \in Nat

VARIABLES
    open,        \* the esp8266_file holds a filecache_t
    list,        \* cache->list, in list order
    size,        \* cache->size
    heap,        \* linkedlist_t blocks allocated and not freed
    pc,          \* "idle", or the function that is running
    req,         \* offset and len of the running push or pull
    data,        \* the caller's buffer
    pass,        \* i of the loops over the chunks: passes done
    r,           \* bytes done
    leaf,        \* position of the leaf pointer in list, 0 for NULL
    updateroot   \* updateroot of filecache_push

vars == <<open, list, size, heap, pc, req, data, pass, r, leaf, updateroot>>
locals == <<pc, req, data, pass, r, leaf, updateroot>>

BlockData == [0 .. BlockSize - 1 -> Byte]
Block == [blockid : 0 .. IdMod - 1, data : BlockData]
NoRequest == [offset |-> 0, len |-> 0]
NoBuffer == [k \in 0 .. -1 |-> 0]
Buffers(len) == [0 .. len - 1 -> Byte]

\* Mutant: no check for the empty list.
MutFirstLeaf(l) == 1
FirstLeaf(l) == IF l = << >> THEN 0 ELSE 1

\* The number of passes, counted in floating point before the first one: the
\* blocks the request touches, a part of one counting as one.
blocks == ((req.offset % BlockSize) + req.len + BlockSize - 1) \div BlockSize

(****************************************************************************)
(* The chunk of this pass: where it starts, how long it is, which block it  *)
(* falls in.  blockid is cut to 16 bits where it is stored, not where       *)
(* filecache_pull compares it.                                              *)
(****************************************************************************)
relaoffset == req.offset + r

Round == BlockSize - (relaoffset % BlockSize)

relalen == IF req.len - r > Round THEN Round ELSE req.len - r
blockid == (relaoffset \div BlockSize) % IdMod
Chunk == r .. r + relalen - 1

\* Mutant: < for <=, so that the search stops before the block it looks for.
MutAdvances == /\ leaf # 0
               /\ leaf < Len(list)
               /\ list[leaf + 1].blockid * BlockSize < relaoffset
\* The search loop goes on while the next block does not start beyond relaoffset.
Advances == /\ leaf # 0
            /\ leaf < Len(list)
            /\ list[leaf + 1].blockid * BlockSize <= relaoffset

\* memcmp(data, blank, CACHEBLOCKSZ) reads a whole block from the caller's
\* buffer, however short the chunk is.  What lies behind the buffer is not
\* the caller's: tailBlank says whether it happens to be zero.
Blank(tailBlank) ==
    /\ \A k \in r .. r + BlockSize - 1 : k < req.len => data[k] = 0
    /\ r + BlockSize > req.len => tailBlank

\* memcpy(block->data + offset % CACHEBLOCKSZ, data, len)
Copied(old) ==
    [b \in 0 .. BlockSize - 1 |->
        LET k == r + (b - (relaoffset % BlockSize)) IN
        IF k \in Chunk THEN data[k] ELSE old[b]]

\* The block of the chunk, over the contents old.
BlockOver(old) == [blockid |-> blockid, data |-> Copied(old)]
NewBlock == BlockOver([b \in 0 .. BlockSize - 1 |-> 0])

\* list with e as its element number p
Inserted(p, e) ==
    [i \in 1 .. Len(list) + 1 |->
        IF i < p THEN list[i] ELSE IF i = p THEN e ELSE list[i - 1]]

FoundBlock == leaf # 0 /\ list[leaf].blockid = blockid

------------------------------------------------------------------------------
Init ==
    /\ open = FALSE
    /\ list = << >>
    /\ size = 0
    /\ heap = 0
    /\ pc = "idle"
    /\ req = NoRequest
    /\ data = NoBuffer
    /\ pass = 0
    /\ r = 0
    /\ leaf = 0
    /\ updateroot = 0

\* The journal branch of esp8266_Open: a new, empty cache, whatever the
\* file system holds under that name.
Open ==
    /\ ~open
    /\ open' = TRUE
    /\ list' = << >>
    /\ size' = 0
    /\ UNCHANGED <<heap, locals>>

\* esp8266mem_Close: filecache_free frees the blocks the list reaches.
Close ==
    /\ open
    /\ pc = "idle"
    /\ open' = FALSE
    /\ list' = << >>
    /\ size' = 0
    /\ heap' = heap - Len(list)
    /\ UNCHANGED locals

Return ==
    /\ pc' = "idle"
    /\ req' = NoRequest
    /\ data' = NoBuffer
    /\ pass' = 0
    /\ r' = 0
    /\ leaf' = 0
    /\ updateroot' = 0

Call(function, request, buffer) ==
    /\ open
    /\ pc = "idle"
    /\ pc' = function
    /\ req' = request
    /\ data' = buffer
    /\ pass' = 0
    /\ r' = 0
    /\ leaf' = FirstLeaf(list)
    /\ UNCHANGED <<open, list, size, heap>>

\* Mutant: updateroot starts cleared.
MutWrite(request, buffer) ==
    /\ Call("push", request, buffer)
    /\ updateroot' = 0
\* esp8266mem_Write calls filecache_push with the pager's buffer.
Write(request, buffer) ==
    /\ Call("push", request, buffer)
    /\ updateroot' = 1

\* esp8266mem_Read calls filecache_pull with a buffer that holds what the
\* pager left in it.
Read(request, buffer) ==
    /\ Call("pull", request, buffer)
    /\ UNCHANGED updateroot

PushSearch ==
    /\ pc = "push"
    /\ pass < blocks
    /\ Advances
    /\ leaf' = leaf + 1
    /\ updateroot' = 0
    /\ UNCHANGED <<open, list, size, heap, pc, req, data, pass, r>>

InStore == pc = "push" /\ pass < blocks /\ ~Advances

\* After linkedlist_store: a length equal to SQLITE_NOMEM ends the push, any
\* other one goes on with the next chunk.
NextChunk ==
    IF relalen = NomemCode
    THEN Return
    ELSE /\ pass' = pass + 1
         /\ r' = r + relalen
         /\ leaf' = FirstLeaf(list')
         /\ UNCHANGED <<pc, req, data, updateroot>>

\* The chunk and what memcmp reads behind it are zero: nothing is stored,
\* not even over a block that has contents.
PushBlank(tailBlank) ==
    /\ InStore
    /\ Blank(tailBlank)
    /\ UNCHANGED <<open, list, size, heap>>
    /\ NextChunk

PushOverwrite(tailBlank) ==
    /\ InStore
    /\ ~Blank(tailBlank)
    /\ FoundBlock
    /\ list' = [list EXCEPT ![leaf] = BlockOver(list[leaf].data)]
    /\ NextChunk
    /\ UNCHANGED <<open, size, heap>>

\* The new block goes behind the leaf, or in front of it.  In front of it,
\* only filecache_push's cache->list = leaf links it, and only when
\* updateroot is still set and linkedlist_store's result was not taken for
\* an error: otherwise the block is an orphan.
PushInsert(tailBlank) ==
    /\ InStore
    /\ ~Blank(tailBlank)
    /\ ~FoundBlock
    /\ heap < MaxBlocks
    /\ heap' = heap + 1
    /\ list' = IF leaf # 0 /\ blockid > list[leaf].blockid
               THEN Inserted(leaf + 1, NewBlock)
               ELSE IF updateroot = 1 /\ relalen # NomemCode
                    THEN Inserted(1, NewBlock)
                    ELSE list
    /\ NextChunk
    /\ UNCHANGED <<open, size>>

\* sqlite3_malloc fails: filecache_push returns SQLITE_NOMEM, which
\* esp8266mem_Write drops.
PushNomem(tailBlank) ==
    /\ InStore
    /\ ~Blank(tailBlank)
    /\ ~FoundBlock
    /\ Return
    /\ UNCHANGED <<open, list, size, heap>>

PushEnd ==
    /\ pc = "push"
    /\ pass >= blocks
    /\ size' = IF req.offset + req.len > size THEN req.offset + req.len ELSE size
    /\ Return
    /\ UNCHANGED <<open, list, heap>>

PullSearch ==
    /\ pc = "pull"
    /\ pass < blocks
    /\ Advances
    /\ leaf' = leaf + 1
    /\ UNCHANGED <<open, list, size, heap, pc, req, data, pass, r, updateroot>>

\* Mutant: any block the search ends at is read.
MutCovers == leaf # 0

\* 0 <= relaoffset / CACHEBLOCKSZ - leaf->blockid < 1
Covers == leaf # 0 /\ list[leaf].blockid = relaoffset \div BlockSize

\* The chunk is copied out of its block, or left as the caller's buffer has
\* it when no block covers it.
PullRound ==
    /\ pc = "pull"
    /\ list # << >>
    /\ pass < blocks
    /\ ~Advances
    /\ data' = IF Covers
               THEN [k \in 0 .. req.len - 1 |->
                        IF k \in Chunk
                        THEN list[leaf].data[(req.offset + k) % BlockSize]
                        ELSE data[k]]
               ELSE data
    /\ pass' = pass + 1
    /\ r' = r + relalen
    /\ leaf' = FirstLeaf(list)
    /\ UNCHANGED <<open, list, size, heap, pc, req, updateroot>>

\* After the last pass, and before the first one if the list is empty
PullEnd ==
    /\ pc = "pull"
    /\ list = << >> \/ pass >= blocks
    /\ Return
    /\ UNCHANGED <<open, list, size, heap>>

\* The steps of the function that is running: push or pull.
Step ==
    \/ PushSearch
    \/ \E tailBlank \in BOOLEAN :
          \/ PushBlank(tailBlank)
          \/ PushOverwrite(tailBlank)
          \/ PushInsert(tailBlank)
          \/ PushNomem(tailBlank)
    \/ PushEnd
    \/ PullSearch
    \/ PullRound
    \/ PullEnd

Next ==
    \/ Open
    \/ Close
    \/ \E q \in Requests : \E buffer \in Buffers(q.len) :
          Write(q, buffer) \/ Read(q, buffer)
    \/ Step

Spec == Init /\ [][Next]_vars

------------------------------------------------------------------------------
\* Every variable holds a value of its type; leaf points into the list.
TypeOK ==
    /\ open \in BOOLEAN
    /\ list \in Seq(Block)
    /\ size \in Nat
    /\ heap \in Nat
    /\ pc \in {"idle", "push", "pull"}
    /\ req \in Requests \cup {NoRequest}
    /\ data \in Buffers(req.len)
    /\ pass \in 0 .. blocks
    /\ r \in 0 .. req.len
    /\ leaf \in 0 .. Len(list)
    /\ updateroot \in {0, 1}

\* The blocks lie in the list in the order of their offsets, each offset once:
\* what the two search loops rely on when they stop at the first block beyond
\* the offset, and what linkedlist_store must keep whatever order the pager
\* writes in.
StrictlySorted ==
    \A i, j \in 1 .. Len(list) : i < j => list[i].blockid < list[j].blockid

\* filecache_free reaches every block that was ever allocated: no call has
\* left one behind that the list does not link.
NoOrphan == heap = Len(list)

\* What the proofs add to the above.  A call has its buffer and its place in
\* the list, no call has none; the list is never longer than the heap, and
\* empty in a closed file; the
\* root is only still to be updated while no search has passed the head; and
\* what a search has passed, in this pass or an earlier one of the same push,
\* does not lie beyond the chunk, which starts a block unless it is the first.
\* The count of passes ends where the request does: the passes done have done
\* the bytes up to a block's end, the last one those up to the request's end.
CallInv ==
    IF pc = "idle"
    THEN /\ req = NoRequest /\ data = NoBuffer
         /\ pass = 0 /\ r = 0 /\ leaf = 0 /\ updateroot = 0
    ELSE open /\ req \in Requests /\ (leaf = 0 => list = << >>)
HeapInv == heap >= Len(list)
ClosedInv == open \/ list = << >>
RootInv == updateroot = 1 => pc = "push" /\ leaf <= 1
PassedInv ==
    /\ leaf > 1 => list[leaf].blockid * BlockSize <= relaoffset
    /\ (pc = "push" /\ updateroot = 0) =>
           list # << >> /\ list[1].blockid * BlockSize <= relaoffset
AlignedInv == r = 0 \/ r = req.len \/ relaoffset % BlockSize = 0
PassInv ==
    r = IF pass = 0 THEN 0
        ELSE IF pass < blocks THEN pass * BlockSize - (req.offset % BlockSize)
        ELSE req.len
IInv ==
    /\ TypeOK
    /\ CallInv
    /\ HeapInv
    /\ ClosedInv
    /\ RootInv
    /\ PassedInv
    /\ AlignedInv
    /\ PassInv
    /\ StrictlySorted

\* No request reaches the offset where blockid wraps, and none has a chunk as
\* long as the value of SQLITE_NOMEM.  Both hold of the pager's requests: its
\* journal stays far below 2^16 blocks and is written in words of 4 bytes.
NoWrap == \A q \in Requests : q.offset + q.len <= IdMod * BlockSize
NoNomemLength ==
    \A q \in Requests : \A done \in 0 .. q.len - 1 :
        done = 0 \/ (q.offset + done) % BlockSize = 0 =>
            LET room == BlockSize - ((q.offset + done) % BlockSize)
            IN (IF q.len - done > room THEN room ELSE q.len - done) # NomemCode

\* The bytes the list stands for: what an absent block holds is zero.
Bytes(offsets) ==
    [o \in offsets |->
        IF \E i \in 1 .. Len(list) : list[i].blockid = o \div BlockSize
        THEN LET i == CHOOSE i \in 1 .. Len(list) :
                        list[i].blockid = o \div BlockSize
             IN list[i].data[o % BlockSize]
        ELSE 0]
==============================================================================
