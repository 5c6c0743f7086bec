---------------------------- MODULE DatabaseFiles ----------------------------
(****************************************************************************)
(* The database files: the xOpen, xRead, xWrite and xClose methods of       *)
(* esp8266.cpp over vfs.cpp and its two backends, spiffs_fns.cpp and        *)
(* sdfat_fns.cpp, whose calls may fail, and what readDbPage makes of xRead. *)
(*                                                                          *)
(* The two backends keep a handle's file in different places.  SdFat's File *)
(* is copied to the heap for each handle; a SPIFFS handle only points to a  *)
(* File the application has announced with vfs_set_spiffs_file_obj, which   *)
(* the open assigns to, whoever still uses that File: an open with the File *)
(* of another handle still announced takes it away from under that handle.  *)
(* Each File has its own position, and every read and write first seeks.    *)
(*                                                                          *)
(* The unit is a page: requests for a database file are pages, and a page   *)
(* is read completely or not at all.  A seek beyond the end of the file     *)
(* fails, as it does in both file systems.  Which of their calls may fail   *)
(* although they need not is a constant.                                    *)
(****************************************************************************)
EXTENDS Integers, Sequences

CONSTANTS
    File,        \* the connections' database files (esp8266_file)
    SpiffsPath,  \* database names without the prefix "/SD"
    CardPath,    \* and with it; one card, /SD0
    FileObject,  \* the application's File objects
    None,        \* NULL
    Content,     \* contents of a page
    Existing,    \* the files there are at the start
    Failures,    \* the backend calls that may fail for no reason of ours
    MaxPages     \* bound: pages of a file

Path == SpiffsPath \cup CardPath
Object == FileObject \cup File     \* the File on the heap is named by its owner

ASSUME NoneAssumption == None \notin Path \cup Object
ASSUME PathAssumption == SpiffsPath \cap CardPath = {} /\ Existing \subseteq Path
ASSUME ObjectAssumption == FileObject \cap File = {}
ASSUME FailuresAssumption ==
    Failures \subseteq {"stat", "open", "spiffs seek", "card seek", "read", "write"}
ASSUME MaxPagesAssumption == MaxPages \in Nat \ {0}

VARIABLES
    present,     \* the files there are
    stored,      \* their pages
    card,        \* sdFats[0]: "none", "failed" (begin failed) or "mounted"
    filep,       \* the File object set for the next SPIFFS open
    object,      \* what each File object is open on, how, and its position
    handle,      \* each esp8266_file: its name, and fd->file_obj
    taken,       \* history: those whose File a later open has assigned to
    result       \* observation: the last call if it was a read or a write

medium == <<present, stored>>
vars == <<medium, card, filep, object, handle, taken, result>>

Pages == 1 .. MaxPages
\* SQLITE_OPEN_READONLY and _READWRITE; SQLITE_OPEN_CREATE is not looked at.
Flags == {"readonly", "readwrite"}
Closed == [path |-> None, readable |-> FALSE, writable |-> FALSE, pos |-> 0]
NoHandle == [path |-> None, object |-> None]

NoResult == [call |-> "none", path |-> None, taken |-> FALSE, page |-> 0,
             rc |-> "ok", data |-> None]

Returned(call, f, page, rc, data) ==
    result' = [call |-> call, path |-> handle[f].path, taken |-> f \in taken, page |-> page,
               rc |-> rc, data |-> data]

OnCard(path) == path \in CardPath
IsOpen(f) == handle[f] # NoHandle
FileOf(f) == object[handle[f].object]

------------------------------------------------------------------------------
Init ==
    /\ present = Existing
    /\ stored \in {s \in [Path -> {<< >>} \cup {<<c>> : c \in Content}] :
                       \A path \in Path : s[path] = << >> <=> path \notin Existing}
    /\ card = "none"
    /\ filep = None
    /\ object = [o \in Object |-> Closed]
    /\ handle = [f \in File |-> NoHandle]
    /\ taken = {}
    /\ result = NoResult

\* vfs_mount, if there is a card: the volume is entered before begin is tried.
Mount(begins) ==
    /\ CardPath # {}
    /\ card' = IF begins THEN "mounted" ELSE "failed"
    /\ result' = NoResult
    /\ UNCHANGED <<medium, filep, object, handle, taken>>

\* vfs_set_spiffs_file_obj, whatever uses the File object
SetFileObj(o) ==
    /\ filep' = o
    /\ result' = NoResult
    /\ UNCHANGED <<medium, card, object, handle, taken>>

\* esp8266_Access: any failure of vfs_stat counts as absence.
Exists(path) == path \in present /\ (OnCard(path) => card = "mounted")
Found(path) == {Exists(path)} \cup (IF "stat" \in Failures THEN {FALSE} ELSE {})

\* Mutant: the file is always created anew.
MutMode(flags, found) == IF flags = "readonly" THEN "r" ELSE "w+"
Mode(flags, found) == IF flags = "readonly" THEN "r" ELSE IF found THEN "r+" ELSE "w+"

\* Mutant: a File that is open is used for the next file too.
MutObjectFor(f, path) ==
    IF \E g \in File : IsOpen(g)
    THEN handle[CHOOSE g \in File : IsOpen(g)].object
    ELSE IF OnCard(path) THEN f ELSE filep
\* The File on the heap, or the one announced last.
ObjectFor(f, path) == IF OnCard(path) THEN f ELSE filep

\* What the modes mean: sdfat_open's flags; for SPIFFS those of fopen.
Opened(path, mode) ==
    [path |-> path, readable |-> OnCard(path) => mode # "w+", writable |-> mode # "r", pos |-> 0]
Truncates(path, mode) == mode = "w+" /\ ~OnCard(path)
CanOpen(path, mode) ==
    /\ path \in present \/ mode = "w+"
    /\ OnCard(path) => card = "mounted"

\* The open handles whose File an open of the path assigns to.
Users(path) ==
    IF OnCard(path) THEN {} ELSE {g \in File : IsOpen(g) /\ handle[g].object = filep}

OpenSucceeds(f, path, mode) ==
    /\ CanOpen(path, mode)
    /\ object' = [object EXCEPT ![ObjectFor(f, path)] = Opened(path, mode)]
    /\ handle' = [handle EXCEPT ![f] = [path |-> path, object |-> ObjectFor(f, path)]]
    /\ present' = present \cup {path}
    /\ stored' = [stored EXCEPT ![path] = IF Truncates(path, mode) THEN << >> ELSE @]

\* Mutant: the sqlite3_file is set up before vfs_open has succeeded.
MutOpenFails(f, path, mode) ==
    /\ ~CanOpen(path, mode) \/ "open" \in Failures
    /\ object' = IF OnCard(path) THEN object ELSE [object EXCEPT ![filep] = Closed]
    /\ handle' = [handle EXCEPT ![f] = [path |-> path, object |-> None]]
    /\ UNCHANGED medium
\* The File object the application lent is overwritten all the same.
OpenFails(f, path, mode) ==
    /\ ~CanOpen(path, mode) \/ "open" \in Failures
    /\ object' = IF OnCard(path) THEN object ELSE [object EXCEPT ![filep] = Closed]
    /\ UNCHANGED <<medium, handle>>

\* How the application opens a database: the card has been mounted, or a File
\* object set; no other connection has the file.
OpenAllowed(f, path) ==
    /\ ~IsOpen(f)
    /\ \A g \in File : handle[g].path # path
    /\ IF OnCard(path) THEN card # "none" ELSE filep # None

\* esp8266_Open of a database file
Open(f, path, flags) ==
    /\ OpenAllowed(f, path)
    /\ \E found \in Found(path) :
          \/ OpenSucceeds(f, path, Mode(flags, found))
          \/ OpenFails(f, path, Mode(flags, found))
    /\ taken' = taken \cup Users(path)
    /\ result' = NoResult
    /\ UNCHANGED <<card, filep>>

\* esp8266_Close: a SPIFFS File is only forgotten, SdFat's is closed.
Close(f) ==
    /\ IsOpen(f)
    /\ handle' = [handle EXCEPT ![f] = NoHandle]
    /\ object' = IF OnCard(handle[f].path)
                 THEN [object EXCEPT ![handle[f].object] = Closed]
                 ELSE object
    /\ taken' = taken \ {f}
    /\ result' = NoResult
    /\ UNCHANGED <<medium, card, filep>>

------------------------------------------------------------------------------
(* Seeking: the outcomes are the position reached, or None for VFS_RES_ERR. *)

Size(o) == IF o.path = None THEN 0 ELSE Len(stored[o.path])
Lands(o, pos) == o.path # None /\ pos <= Size(o)

SpiffsSeek(o, offset) ==
    (IF Lands(o, offset) THEN {offset} ELSE {}) \cup
    (IF ~Lands(o, offset) \/ "spiffs seek" \in Failures THEN {None} ELSE {})

\* The cases of sdfat_lseek fall through: when seekSet fails, seekCur and then
\* seekEnd are tried with the same number, and success is success.
CardSeek(o, offset) ==
    LET tried == <<offset, o.pos + offset, Size(o) + offset>>
        Fails(k) == ~Lands(o, tried[k]) \/ "card seek" \in Failures
    IN {tried[k] : k \in {n \in 1 .. 3 : Lands(o, tried[n]) /\ \A j \in 1 .. n - 1 : Fails(j)}}
       \cup (IF \A k \in 1 .. 3 : Fails(k) THEN {None} ELSE {})

\* Mutant: the read or write goes on from where the last one ended.
MutSeek(f, page) == {FileOf(f).pos}
Seek(f, page) ==
    IF OnCard(handle[f].path) THEN CardSeek(FileOf(f), page - 1)
                              ELSE SpiffsSeek(FileOf(f), page - 1)

MoveTo(f, pos) == object' = [object EXCEPT ![handle[f].object].pos = pos]

\* Mutant: a read that delivers too little goes unnoticed.
MutReadRc(complete) == "ok"
\* esp8266_Read compares an unsigned count with 0: VFS_RES_ERR, too, is reported
\* as a short read.
ReadRc(complete) == IF complete THEN "ok" ELSE "short read"

\* There is a page to be read; and one may be written.
Readable(f, pos) == pos # None /\ FileOf(f).readable /\ pos < Size(FileOf(f))
Writable(f, pos) == pos # None /\ FileOf(f).writable

\* esp8266_Read; None is put into the buffer if nothing is read: it keeps what
\* it held.
Read(f, page) ==
    /\ IsOpen(f)
    /\ \E pos \in Seek(f, page) :
          \/ /\ Readable(f, pos)
             /\ MoveTo(f, pos + 1)
             /\ Returned("read", f, page, ReadRc(TRUE), stored[FileOf(f).path][pos + 1])
          \/ /\ ~Readable(f, pos) \/ "read" \in Failures
             /\ MoveTo(f, IF pos = None THEN FileOf(f).pos ELSE pos)
             /\ Returned("read", f, page, ReadRc(FALSE), None)
    /\ UNCHANGED <<medium, card, filep, handle, taken>>

Put(pages, pos, content) ==
    IF pos = Len(pages) THEN Append(pages, content) ELSE [pages EXCEPT ![pos + 1] = content]

Stores(path, pos, content) ==
    stored' = [stored EXCEPT ![path] = Put(@, pos, content)]

\* Mutant: a short write goes unnoticed.
MutWriteRc(complete) == "ok"
WriteRc(complete) == IF complete THEN "ok" ELSE "write error"

\* esp8266_Write; a failed one may have written all the same.
Write(f, page, content) ==
    /\ IsOpen(f)
    /\ \E pos \in Seek(f, page) :
          \/ /\ pos = None
             /\ Returned("write", f, page, "seek error", None)
             /\ UNCHANGED <<stored, object>>
          \/ /\ Writable(f, pos)
             /\ pos < MaxPages
             /\ Stores(FileOf(f).path, pos, content)
             /\ MoveTo(f, pos + 1)
             /\ Returned("write", f, page, WriteRc(TRUE), content)
          \/ /\ pos # None
             /\ pos < MaxPages
             /\ ~Writable(f, pos) \/ "write" \in Failures
             /\ \/ UNCHANGED stored
                \/ Writable(f, pos) /\ Stores(FileOf(f).path, pos, content)
             /\ MoveTo(f, pos)
             /\ Returned("write", f, page, WriteRc(FALSE), None)
    /\ UNCHANGED <<present, card, filep, handle, taken>>

Next ==
    \/ \E begins \in BOOLEAN : Mount(begins)
    \/ \E o \in FileObject : SetFileObj(o)
    \/ \E f \in File :
          \/ \E path \in Path, flags \in Flags :
                Open(f, path, flags)
          \/ Close(f)
          \/ \E page \in Pages :
                \/ Read(f, page)
                \/ \E content \in Content : Write(f, page, content)

Spec == Init /\ [][Next]_vars

------------------------------------------------------------------------------
\* Every variable holds a value of its type; a handle that SQLite may use has
\* its File.
TypeOK ==
    /\ present \subseteq Path
    /\ stored \in [Path -> Seq(Content)]
    /\ \A path \in Path : Len(stored[path]) <= MaxPages
    /\ card \in {"none", "failed", "mounted"}
    /\ filep \in FileObject \cup {None}
    /\ object \in [Object -> [path : Path \cup {None}, readable : BOOLEAN,
                             writable : BOOLEAN, pos : 0 .. MaxPages]]
    /\ handle \in [File -> [path : Path, object : Object] \cup {NoHandle}]
    /\ taken \subseteq {f \in File : IsOpen(f)}

\* A handle stands for the file it was opened on until it is closed, whatever
\* is opened, closed, mounted or announced in the meantime, and no other such
\* handle shares its File: only an open while its own File is announced, even a
\* failing one, takes the File away from under a handle.
HandleStandsForFile ==
    \A f \in File : IsOpen(f) /\ f \notin taken =>
        /\ FileOf(f).path = handle[f].path
        /\ \A g \in File : handle[g].object = handle[f].object => g = f \/ g \in taken

\* A read that xRead reports complete has delivered the page that is stored,
\* whatever position other calls and failures left the File at, unless the
\* handle's File was taken away from it.
ReadsReturnStored ==
    result.call = "read" /\ result.rc = "ok" /\ ~result.taken =>
        /\ result.page <= Len(stored[result.path])
        /\ result.data = stored[result.path][result.page]

\* A write that xWrite reports as done is in the file at its place, so that a
\* commit that saw no error is complete, again unless the File was taken away.
WritesStored ==
    result.call = "write" /\ result.rc = "ok" /\ ~result.taken =>
        /\ result.page <= Len(stored[result.path])
        /\ result.data = stored[result.path][result.page]

\* What is stored of an existing file changes by xWrite alone, and then only in
\* the page xWrite was called for and in the file it was called for, or in the
\* one that took the place of it in the handle's File; in particular opening a
\* database, or failing to, leaves every file's contents alone.
OnlyWritesChange ==
    [][\A path \in present :
        stored'[path] # stored[path] =>
            /\ result'.call = "write"
            /\ result'.path = path \/ result'.taken
            /\ \A page \in 1 .. Len(stored[path]) :
                  page # result'.page => stored'[path][page] = stored[path][page]]_vars

\* readDbPage, which takes a short read for success, gives the B-tree the page
\* that is in the file.
PagesAccepted ==
    /\ result.call = "read"
    /\ result.rc \in {"ok", "short read"}
    /\ ~result.taken
    /\ result.page <= Len(stored[result.path])
    => result.data = stored[result.path][result.page]
==============================================================================
