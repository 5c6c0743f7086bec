--------------------------- MODULE MCDatabaseFiles ---------------------------
(****************************************************************************)
(* Symmetry and view for the runs of DatabaseFiles: connections, File       *)
(* objects, contents and the SPIFFS names, which all exist or none of which *)
(* does, are interchangeable; and what a File that no handle has was last   *)
(* open on tells no states apart, since an open assigns to it before any    *)
(* call looks at it again.                                                  *)
(****************************************************************************)
EXTENDS DatabaseFiles, TLC

ASSUME SpiffsPath \subseteq Existing \/ SpiffsPath \cap Existing = {}
Symmetry == Permutations(File) \cup Permutations(FileObject) \cup
            Permutations(Content) \cup Permutations(SpiffsPath)

Used == {handle[f].object : f \in File}
View == <<medium, card, filep, [o \in Object |-> IF o \in Used THEN object[o] ELSE Closed],
          handle, taken, result>>
==============================================================================
