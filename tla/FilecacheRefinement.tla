------------------------- MODULE FilecacheRefinement -------------------------
(****************************************************************************)
(* The linked list of esp8266.cpp implements the array of MemFile.          *)
(****************************************************************************)
EXTENDS Filecache

\* The offsets the requests touch.
Offset == UNION {q.offset .. q.offset + q.len - 1 : q \in Requests}

MF == INSTANCE MemFile WITH bytes <- Bytes(Offset)

\* Every step of the list is a step of the array or changes nothing of it:
\* whatever the order of the writes, a search ends at the block of the
\* chunk, an insertion keeps every other block where the next search finds
\* it, and no byte outside the chunk changes.
ImplementsMemFile == MF!Spec
==============================================================================
