------------------------------- MODULE MemFile -------------------------------
(****************************************************************************)
(* What a RAM journal file of esp8266.cpp promises, with no list and no     *)
(* blocks: an array of bytes that starts as zeros, written and read in      *)
(* chunks.  Two liberties are the code's own and part of the promise:       *)
(*   - a chunk of zero bytes may be dropped, over old contents too;         *)
(*   - a chunk that is all zero in the file may be left out of a read, so   *)
(*     that the caller's buffer keeps what it held, and a read of a file    *)
(*     that is all zero may return at once.                                 *)
(* A write may also stop at any chunk (out of memory), and then leaves the  *)
(* size as it was.                                                          *)
(****************************************************************************)
EXTENDS Integers, Sequences

CONSTANTS Byte, BlockSize, Requests,
          Offset      \* the offsets of the file

VARIABLES open, bytes, size, pc, req, data, r

vars == <<open, bytes, size, pc, req, data, r>>

NoRequest == [offset |-> 0, len |-> 0]
NoBuffer == [k \in 0 .. -1 |-> 0]

\* The part of the request, from r on, that lies in one block.
ChunkLen ==
    LET room == BlockSize - ((req.offset + r) % BlockSize)
    IN IF req.len - r > room THEN room ELSE req.len - r
Chunk == r .. r + ChunkLen - 1

\* The file with the chunk written, the buffer with the chunk read.
Written == [o \in Offset |->
               IF o - req.offset \in Chunk THEN data[o - req.offset] ELSE bytes[o]]
Loaded == [k \in 0 .. req.len - 1 |->
               IF k \in Chunk THEN bytes[req.offset + k] ELSE data[k]]

ZeroInBuffer == \A k \in Chunk : data[k] = 0
ZeroInFile == \A k \in Chunk : bytes[req.offset + k] = 0
NothingThere == \A o \in Offset : bytes[o] = 0

Init ==
    /\ open = FALSE
    /\ bytes = [o \in Offset |-> 0]
    /\ size = 0
    /\ pc = "idle"
    /\ req = NoRequest
    /\ data = NoBuffer
    /\ r = 0

Return ==
    /\ pc' = "idle"
    /\ req' = NoRequest
    /\ data' = NoBuffer
    /\ r' = 0

Empty(isOpen) ==
    /\ open' = isOpen
    /\ bytes' = [o \in Offset |-> 0]
    /\ size' = 0
    /\ UNCHANGED <<pc, req, data, r>>

Open == ~open /\ Empty(TRUE)
Close == open /\ pc = "idle" /\ Empty(FALSE)

Call(function) ==
    /\ open
    /\ pc = "idle"
    /\ pc' = function
    /\ req' \in Requests
    /\ data' \in [0 .. req'.len - 1 -> Byte]
    /\ r' = 0
    /\ UNCHANGED <<open, bytes, size>>

\* One chunk is stored or, if zero, dropped; the write goes on or stops.
PushChunk ==
    /\ pc = "push"
    /\ r < req.len
    /\ \/ bytes' = Written
       \/ ZeroInBuffer /\ bytes' = bytes
    /\ r' = r + ChunkLen
    /\ UNCHANGED <<open, size, pc, req, data>>

PushStop ==
    /\ pc = "push"
    /\ r < req.len
    /\ bytes' \in {bytes, Written}
    /\ Return
    /\ UNCHANGED <<open, size>>

PushEnd ==
    /\ pc = "push"
    /\ r = req.len
    /\ size' = IF req.offset + req.len > size THEN req.offset + req.len ELSE size
    /\ Return
    /\ UNCHANGED <<open, bytes>>

PullChunk ==
    /\ pc = "pull"
    /\ r < req.len
    /\ \/ data' = Loaded
       \/ ZeroInFile /\ data' = data
    /\ r' = r + ChunkLen
    /\ UNCHANGED <<open, bytes, size, pc, req>>

PullEnd ==
    /\ pc = "pull"
    /\ r = req.len \/ NothingThere
    /\ Return
    /\ UNCHANGED <<open, bytes, size>>

Next ==
    \/ Open
    \/ Close
    \/ Call("push")
    \/ Call("pull")
    \/ PushChunk
    \/ PushStop
    \/ PushEnd
    \/ PullChunk
    \/ PullEnd

Spec == Init /\ [][Next]_vars
==============================================================================
