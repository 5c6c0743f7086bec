----------------------------- MODULE MCFilecache -----------------------------
(****************************************************************************)
(* Values for the constants of Filecache.                                   *)
(****************************************************************************)
EXTENDS FilecacheRefinement

\* Every request of at most MaxLen units within the first Limit units.
CONSTANTS Limit, MaxLen
AllRequests == {q \in [offset : 0 .. Limit - 1, len : 1 .. MaxLen] :
                    q.offset + q.len <= Limit}
==============================================================================
