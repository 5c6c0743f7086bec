------------------------- MODULE DatabaseFilesProofs -------------------------
(****************************************************************************)
(* Proofs about the database files, for any number of connections, names    *)
(* and File objects, any size of a file, and whichever calls may fail.      *)
(****************************************************************************)
EXTENDS DatabaseFiles, TLAPS

FileState == [path : Path \cup {None}, readable : BOOLEAN,
              writable : BOOLEAN, pos : 0 .. MaxPages]

\* Where a seek can end: in the file, or nowhere.
LEMMA SeekRange ==
    ASSUME TypeOK, NEW f \in File, IsOpen(f), NEW page \in Pages,
           NEW pos \in Seek(f, page)
    PROVE  \/ pos = None
           \/ /\ pos \in 0 .. MaxPages
              /\ FileOf(f).path \in Path
              /\ pos <= Len(stored[FileOf(f).path])
<1>1. FileOf(f) \in FileState
  BY DEF TypeOK, IsOpen, FileOf, FileState
<1> DEFINE o == FileOf(f)
<1>2. \A p \in Int : Lands(o, p) => o.path \in Path /\ p <= Len(stored[o.path])
  BY <1>1 DEF Lands, Size, FileState
<1>3. o.path \in Path => Len(stored[o.path]) \in 0 .. MaxPages
  BY MaxPagesAssumption DEF TypeOK
<1>4. ASSUME NEW p \in Nat, Lands(o, p)
      PROVE  p \in 0 .. MaxPages /\ o.path \in Path /\ p <= Len(stored[o.path])
  BY <1>2, <1>3, <1>4, MaxPagesAssumption
<1>5. page - 1 \in Nat /\ o.pos \in Nat
  BY <1>1, MaxPagesAssumption DEF Pages, FileState
<1>6. CASE OnCard(handle[f].path)
  <2>1. Size(o) \in Nat
    BY <1>1, <1>3 DEF Size, FileState
  <2> DEFINE tried == <<page - 1, o.pos + (page - 1), Size(o) + (page - 1)>>
  <2>2. \A k \in 1 .. 3 : tried[k] \in Nat
    BY <1>5, <2>1
  <2>3. pos = None \/ \E k \in 1 .. 3 : pos = tried[k] /\ Lands(o, tried[k])
    BY <1>6 DEF Seek, CardSeek
  <2> QED BY <2>2, <2>3, <1>4
<1>7. CASE ~OnCard(handle[f].path)
  <2>1. pos = None \/ (pos = page - 1 /\ Lands(o, pos))
    BY <1>7 DEF Seek, SpiffsSeek
  <2> QED BY <2>1, <1>4, <1>5
<1> QED BY <1>6, <1>7

\* A file with a page more, or with another page, is a file.
LEMMA PutProperties ==
    ASSUME NEW pages \in Seq(Content), NEW content \in Content,
           NEW pos \in 0 .. MaxPages, pos <= Len(pages), pos < MaxPages,
           Len(pages) <= MaxPages
    PROVE  /\ Put(pages, pos, content) \in Seq(Content)
           /\ Len(Put(pages, pos, content)) <= MaxPages
           /\ pos + 1 <= Len(Put(pages, pos, content))
           /\ Put(pages, pos, content)[pos + 1] = content
           /\ \A page \in 1 .. Len(pages) :
                 page # pos + 1 => Put(pages, pos, content)[page] = pages[page]
<1> USE MaxPagesAssumption
<1>1. CASE pos = Len(pages)
  BY <1>1 DEF Put
<1>2. CASE pos # Len(pages)
  <2>1. Put(pages, pos, content) = [pages EXCEPT ![pos + 1] = content]
    BY <1>2 DEF Put
  <2>2. pos + 1 \in 1 .. Len(pages)
    BY <1>2
  <2> QED BY <2>1, <2>2
<1> QED BY <1>1, <1>2

\* What an open handle gives access to.
LEMMA HandleType ==
    ASSUME TypeOK, NEW f \in File, IsOpen(f)
    PROVE  /\ handle[f].path \in Path
           /\ handle[f].object \in Object
           /\ FileOf(f) \in FileState
BY DEF TypeOK, IsOpen, FileOf, FileState

\* The File object an open assigns to exists.
LEMMA ObjectForType ==
    ASSUME TypeOK, NEW f \in File, NEW path \in Path, OpenAllowed(f, path)
    PROVE  ObjectFor(f, path) \in Object /\ (~OnCard(path) => filep \in FileObject)
BY DEF TypeOK, OpenAllowed, ObjectFor, Object

LEMMA MoveToType ==
    ASSUME TypeOK, NEW f \in File, IsOpen(f), NEW pos \in 0 .. MaxPages, MoveTo(f, pos)
    PROVE  object' \in [Object -> FileState]
<1> DEFINE o == handle[f].object
<1>1. o \in Object /\ object[o] \in FileState
  BY HandleType DEF FileOf
<1>2. [object[o] EXCEPT !.pos = pos] \in FileState
  BY <1>1 DEF FileState
<1> QED BY <1>1, <1>2 DEF MoveTo, TypeOK, FileState

LEMMA StoresType ==
    ASSUME TypeOK, NEW path \in Path, NEW pos \in 0 .. MaxPages, NEW content \in Content,
           pos <= Len(stored[path]), pos < MaxPages, Stores(path, pos, content)
    PROVE  /\ stored' \in [Path -> Seq(Content)]
           /\ \A p \in Path : Len(stored'[p]) <= MaxPages
<1>1. stored[path] \in Seq(Content) /\ Len(stored[path]) <= MaxPages
  BY DEF TypeOK
<1>2. /\ Put(stored[path], pos, content) \in Seq(Content)
      /\ Len(Put(stored[path], pos, content)) <= MaxPages
  BY <1>1, PutProperties
<1>3. stored' = [stored EXCEPT ![path] = Put(stored[path], pos, content)]
  BY DEF Stores
<1> QED BY <1>2, <1>3 DEF TypeOK

------------------------------------------------------------------------------
LEMMA TypeInit == Init => TypeOK
<1> SUFFICES ASSUME Init PROVE TypeOK
  OBVIOUS
<1> USE DEF Init
<1>1. Closed \in FileState
  BY MaxPagesAssumption DEF Closed, FileState
<1>2. \A c \in Content : <<c>> \in Seq(Content) /\ Len(<<c>>) = 1
  OBVIOUS
<1>3. << >> \in Seq(Content) /\ Len(<< >>) = 0
  OBVIOUS
<1>4. \A path \in Path : stored[path] \in Seq(Content) /\ Len(stored[path]) <= MaxPages
  <2> TAKE path \in Path
  <2>1. stored[path] = << >> \/ \E c \in Content : stored[path] = <<c>>
    OBVIOUS
  <2>2. CASE stored[path] = << >>
    BY <2>2, <1>3, MaxPagesAssumption
  <2>3. ASSUME NEW c \in Content, stored[path] = <<c>>
        PROVE  stored[path] \in Seq(Content) /\ Len(stored[path]) <= MaxPages
    <3>1. <<c>> \in Seq(Content) /\ Len(<<c>>) = 1
      BY <1>2
    <3> HIDE DEF Init
    <3> QED BY <2>3, <3>1, MaxPagesAssumption
  <2> QED BY <2>1, <2>2, <2>3
<1>5. stored \in [Path -> Seq(Content)]
  BY <1>4
<1> QED BY <1>1, <1>4, <1>5, PathAssumption DEF TypeOK, FileState

LEMMA TypeStep == TypeOK /\ [Next]_vars => TypeOK'
<1> SUFFICES ASSUME TypeOK, [Next]_vars PROVE TypeOK'
  OBVIOUS
<1>0. Closed \in FileState
  BY MaxPagesAssumption DEF Closed, FileState
<1>1. ASSUME NEW begins \in BOOLEAN, Mount(begins) PROVE TypeOK'
  BY <1>1 DEF Mount, TypeOK, IsOpen, medium
<1>2. ASSUME NEW o \in FileObject, SetFileObj(o) PROVE TypeOK'
  BY <1>2 DEF SetFileObj, TypeOK, IsOpen, medium
<1>3. ASSUME NEW f \in File, NEW path \in Path, NEW flags \in Flags, Open(f, path, flags)
      PROVE  TypeOK'
  <2>1. PICK found \in Found(path) :
            \/ OpenSucceeds(f, path, Mode(flags, found))
            \/ OpenFails(f, path, Mode(flags, found))
    BY <1>3 DEF Open
  <2>2. OpenAllowed(f, path) /\ UNCHANGED <<card, filep>> /\ taken' = taken \cup Users(path)
    BY <1>3 DEF Open
  <2>3. CASE OpenSucceeds(f, path, Mode(flags, found))
    <3> DEFINE mode == Mode(flags, found)
    <3>1. Opened(path, mode) \in FileState
      BY MaxPagesAssumption DEF Opened, FileState
    <3>2. object' \in [Object -> FileState]
      BY <2>2, <2>3, <3>1, ObjectForType DEF OpenSucceeds, TypeOK, FileState
    <3>3. handle' \in [File -> [path : Path, object : Object] \cup {NoHandle}]
      BY <2>2, <2>3, ObjectForType DEF OpenSucceeds, TypeOK
    <3>7. taken' \subseteq {g \in File : IsOpen(g)'}
      <4>1. \A g \in File : IsOpen(g) => IsOpen(g)'
        BY <2>2, <2>3 DEF OpenSucceeds, OpenAllowed, IsOpen, TypeOK
      <4> QED BY <2>2, <4>1 DEF Users, TypeOK
    <3>4. present' \subseteq Path
      BY <2>3 DEF OpenSucceeds, TypeOK
    <3>5. \A p \in Path : stored'[p] = stored[p] \/ stored'[p] = << >>
      BY <2>3 DEF OpenSucceeds, TypeOK
    <3>6. /\ stored' \in [Path -> Seq(Content)]
          /\ \A p \in Path : Len(stored'[p]) <= MaxPages
      <4>1. DOMAIN stored' = Path /\ stored' = [p \in Path |-> stored'[p]]
        BY <2>3 DEF OpenSucceeds, TypeOK
      <4>2. << >> \in Seq(Content) /\ Len(<< >>) <= MaxPages
        BY MaxPagesAssumption
      <4> QED BY <3>5, <4>1, <4>2 DEF TypeOK
    <3> QED BY <2>2, <3>2, <3>3, <3>4, <3>6, <3>7 DEF TypeOK, FileState
  <2>4. CASE OpenFails(f, path, Mode(flags, found))
    <3>1. object' \in [Object -> FileState]
      BY <1>0, <2>2, <2>4, ObjectForType DEF OpenFails, TypeOK, FileState
    <3>2. taken' \subseteq {g \in File : IsOpen(g)'}
      BY <2>2, <2>4 DEF OpenFails, Users, IsOpen, TypeOK
    <3> QED BY <2>2, <2>4, <3>1, <3>2 DEF OpenFails, TypeOK, FileState, medium
  <2> QED BY <2>1, <2>3, <2>4
<1>4. ASSUME NEW f \in File, Close(f) PROVE TypeOK'
  <2>1. object' \in [Object -> FileState]
    BY <1>0, <1>4 DEF Close, TypeOK, FileState
  <2>2. taken' \subseteq {g \in File : IsOpen(g)'}
    BY <1>4 DEF Close, IsOpen, TypeOK
  <2> QED BY <1>4, <2>1, <2>2 DEF Close, TypeOK, FileState, medium
<1>5. ASSUME NEW f \in File, NEW page \in Pages, Read(f, page)
      PROVE  TypeOK'
  <2>1. IsOpen(f) /\ UNCHANGED <<medium, card, filep, handle, taken>>
    BY <1>5 DEF Read
  <2>2. PICK pos \in Seek(f, page) :
            \/ Readable(f, pos) /\ MoveTo(f, pos + 1)
            \/ MoveTo(f, IF pos = None THEN FileOf(f).pos ELSE pos)
    BY <1>5 DEF Read
  <2>3. pos = None \/ pos \in 0 .. MaxPages
    BY <2>1, SeekRange
  <2>4. CASE Readable(f, pos) /\ MoveTo(f, pos + 1)
    <3>1. /\ pos \in 0 .. MaxPages
          /\ FileOf(f).path \in Path
          /\ pos < Len(stored[FileOf(f).path])
      BY <2>1, <2>3, <2>4, SeekRange, HandleType DEF Readable, Size, FileState
    <3>2. pos + 1 \in 0 .. MaxPages
      BY <3>1, MaxPagesAssumption DEF TypeOK
    <3> QED BY <2>1, <2>4, <3>2, MoveToType DEF TypeOK, FileState, IsOpen, medium
  <2>5. CASE MoveTo(f, IF pos = None THEN FileOf(f).pos ELSE pos)
    <3>1. (IF pos = None THEN FileOf(f).pos ELSE pos) \in 0 .. MaxPages
      BY <2>1, <2>3, HandleType DEF FileState
    <3> QED BY <2>1, <2>5, <3>1, MoveToType DEF TypeOK, FileState, IsOpen, medium
  <2> QED BY <2>2, <2>4, <2>5
<1>6. ASSUME NEW f \in File, NEW page \in Pages, NEW content \in Content, Write(f, page, content)
      PROVE  TypeOK'
  <2>1. IsOpen(f) /\ UNCHANGED <<present, card, filep, handle, taken>>
    BY <1>6 DEF Write
  <2>2. PICK pos \in Seek(f, page) :
            \/ UNCHANGED <<stored, object>>
            \/ /\ Writable(f, pos) /\ pos < MaxPages
               /\ Stores(FileOf(f).path, pos, content)
               /\ MoveTo(f, pos + 1)
            \/ /\ pos # None /\ pos < MaxPages
               /\ \/ UNCHANGED stored
                  \/ Writable(f, pos) /\ Stores(FileOf(f).path, pos, content)
               /\ MoveTo(f, pos)
    BY <1>6 DEF Write
  <2>3. CASE UNCHANGED <<stored, object>>
    BY <2>1, <2>3 DEF TypeOK, IsOpen
  <2>4. CASE ~UNCHANGED <<stored, object>>
    <3>1. /\ pos \in 0 .. MaxPages
          /\ FileOf(f).path \in Path
          /\ pos <= Len(stored[FileOf(f).path])
          /\ pos < MaxPages
      BY <2>1, <2>2, <2>4, SeekRange DEF Writable
    <3>2. /\ stored' \in [Path -> Seq(Content)]
          /\ \A p \in Path : Len(stored'[p]) <= MaxPages
      <4>1. CASE UNCHANGED stored
        BY <4>1 DEF TypeOK
      <4>2. CASE Stores(FileOf(f).path, pos, content)
        BY <3>1, <4>2, StoresType
      <4> QED BY <2>2, <2>4, <4>1, <4>2
    <3>3. pos + 1 \in 0 .. MaxPages
      BY <3>1, MaxPagesAssumption
    <3>4. object' \in [Object -> FileState]
      BY <2>1, <2>2, <2>4, <3>1, <3>3, MoveToType
    <3> QED BY <2>1, <3>2, <3>4 DEF TypeOK, FileState, IsOpen
  <2> QED BY <2>3, <2>4
<1>7. CASE UNCHANGED vars
  BY <1>7 DEF vars, medium, TypeOK, IsOpen
<1> QED BY <1>1, <1>2, <1>3, <1>4, <1>5, <1>6, <1>7 DEF Next

\* Every variable keeps its type, whatever fails: a position never leaves the
\* File, and a handle never names an object that is not there.
THEOREM TypeCorrect == Spec => []TypeOK
BY TypeInit, TypeStep, PTL DEF Spec

------------------------------------------------------------------------------
\* A handle on the card has the File on its own heap, one on SPIFFS a File the
\* application announced.
OwnObject ==
    \A f \in File : IsOpen(f) =>
        IF OnCard(handle[f].path) THEN handle[f].object = f
                                  ELSE handle[f].object \in FileObject

HandleInv == TypeOK /\ OwnObject /\ HandleStandsForFile

\* Seeks and the File's position do not change what a handle stands for.
LEMMA MoveKeepsHandles ==
    ASSUME HandleInv, NEW f \in File, IsOpen(f), NEW pos, MoveTo(f, pos),
           UNCHANGED <<handle, taken>>
    PROVE  OwnObject' /\ HandleStandsForFile'
<1>1. \A o \in Object : object'[o].path = object[o].path
  <2> TAKE o \in Object
  <2>1. CASE o = handle[f].object
    <3>1. object[o] \in FileState
      BY <2>1 DEF HandleInv, TypeOK, FileState
    <3>2. object'[o] = [object[o] EXCEPT !.pos = pos]
      BY <2>1 DEF MoveTo, HandleInv, TypeOK
    <3> QED BY <3>1, <3>2 DEF FileState
  <2>2. CASE o # handle[f].object
    BY <2>2 DEF MoveTo, HandleInv, TypeOK
  <2> QED BY <2>1, <2>2
<1>2. \A g \in File : IsOpen(g) => handle[g].object \in Object
  BY HandleType DEF HandleInv
<1> QED BY <1>1, <1>2 DEF HandleInv, OwnObject, HandleStandsForFile, IsOpen, FileOf

\* A closed handle has no File that an open one could have.
LEMMA ClosedHasNone ==
    TypeOK' => \A g, h \in File : IsOpen(g)' /\ handle'[g].object = handle'[h].object => IsOpen(h)'
<1> SUFFICES ASSUME TypeOK', NEW g \in File, NEW h \in File, IsOpen(g)',
                    handle'[g].object = handle'[h].object
             PROVE  IsOpen(h)'
  OBVIOUS
<1>1. handle'[g].object \in Object
  BY DEF TypeOK, IsOpen
<1> QED BY <1>1, NoneAssumption DEF IsOpen, NoHandle

LEMMA HandleInit == Init => HandleInv
<1> SUFFICES ASSUME Init PROVE HandleInv
  OBVIOUS
<1>1. TypeOK
  BY TypeInit
<1>2. \A f \in File : ~IsOpen(f)
  BY DEF Init, IsOpen
<1> QED BY <1>1, <1>2 DEF HandleInv, OwnObject, HandleStandsForFile

LEMMA HandleStep == HandleInv /\ [Next]_vars => HandleInv'
<1> SUFFICES ASSUME HandleInv, [Next]_vars PROVE HandleInv'
  OBVIOUS
<1>0. TypeOK /\ TypeOK'
  BY TypeStep DEF HandleInv
<1> SUFFICES OwnObject' /\ HandleStandsForFile'
  BY <1>0 DEF HandleInv
<1>1. ASSUME UNCHANGED <<object, handle, taken>> PROVE OwnObject' /\ HandleStandsForFile'
  BY <1>1 DEF HandleInv, OwnObject, HandleStandsForFile, IsOpen, FileOf
<1>2. ASSUME NEW f \in File, NEW path \in Path, NEW flags \in Flags, Open(f, path, flags)
      PROVE  OwnObject' /\ HandleStandsForFile'
  <2>1. PICK found \in Found(path) :
            \/ OpenSucceeds(f, path, Mode(flags, found))
            \/ OpenFails(f, path, Mode(flags, found))
    BY <1>2 DEF Open
  <2>2. OpenAllowed(f, path) /\ ~IsOpen(f) /\ f \notin taken /\ taken' = taken \cup Users(path)
    BY <1>0, <1>2 DEF Open, OpenAllowed, TypeOK
  <2> DEFINE o == ObjectFor(f, path)
  <2>3. /\ o \in Object
        /\ IF OnCard(path) THEN o = f ELSE o \in FileObject /\ o = filep
    BY <1>0, <2>2, ObjectForType DEF ObjectFor
  \* Whoever has the File object that is assigned to loses it.
  <2>4. \A g \in File : IsOpen(g) /\ handle[g].object = o => g \in Users(path)
    <3> SUFFICES ASSUME NEW g \in File, IsOpen(g), handle[g].object = o PROVE g \in Users(path)
      OBVIOUS
    <3>1. g # f
      BY <2>2
    <3>2. CASE OnCard(path)
      BY <2>3, <3>1, <3>2, ObjectAssumption DEF HandleInv, OwnObject
    <3>3. CASE ~OnCard(path)
      BY <2>3, <3>3 DEF Users
    <3> QED BY <3>2, <3>3
  <2>5. \A g \in File : IsOpen(g) /\ g \notin taken' =>
            g \notin taken /\ handle[g].object # o
    BY <2>2, <2>4
  <2>6. \A g \in File : IsOpen(g) /\ handle[g].object # o =>
            object'[handle[g].object] = object[handle[g].object]
    BY <1>0, <2>1, <2>3, HandleType DEF OpenSucceeds, OpenFails, TypeOK
  <2>7. \A g \in File : IsOpen(g) /\ g \notin taken' =>
            object'[handle[g].object].path = handle[g].path
    BY <2>5, <2>6 DEF HandleInv, HandleStandsForFile, FileOf
  <2>8. CASE OpenSucceeds(f, path, Mode(flags, found))
    <3>1. /\ object' = [object EXCEPT ![o] = Opened(path, Mode(flags, found))]
          /\ handle' = [handle EXCEPT ![f] = [path |-> path, object |-> o]]
      BY <2>8 DEF OpenSucceeds
    <3>2. handle'[f] = [path |-> path, object |-> o] /\ object'[o].path = path
      BY <1>0, <2>3, <3>1 DEF TypeOK, Opened
    <3>3. \A g \in File : g # f => handle'[g] = handle[g]
      BY <3>1, <1>0 DEF TypeOK
    <3>4. \A g \in File : IsOpen(g)' => g = f \/ (g # f /\ IsOpen(g) /\ handle'[g] = handle[g])
      BY <3>3 DEF IsOpen
    <3>5. OwnObject'
      BY <2>3, <3>2, <3>4 DEF HandleInv, OwnObject, OnCard
    <3>6. \A g \in File : IsOpen(g)' /\ g \notin taken' => FileOf(g).path' = handle'[g].path
      BY <2>7, <3>2, <3>4 DEF FileOf
    <3>7. ASSUME NEW g \in File, IsOpen(g)', g \notin taken',
                 NEW h \in File, handle'[h].object = handle'[g].object
          PROVE  h = g \/ h \in taken'
      <4>1. IsOpen(h)'
        BY <1>0, <3>7, ClosedHasNone
      <4>2. CASE g = f
        BY <2>2, <2>4, <3>2, <3>4, <3>7, <4>1, <4>2
      <4>3. CASE g # f
        <5>1. IsOpen(g) /\ g \notin taken /\ handle'[g] = handle[g] /\ handle[g].object # o
          BY <2>5, <3>4, <3>7, <4>3
        <5>2. h # f
          BY <3>2, <3>7, <5>1
        <5>3. handle[h].object = handle[g].object
          BY <3>3, <3>7, <5>1, <5>2
        <5> QED BY <2>2, <5>1, <5>3 DEF HandleInv, HandleStandsForFile
      <4> QED BY <4>2, <4>3
    <3> QED BY <3>5, <3>6, <3>7 DEF HandleStandsForFile
  <2>9. CASE OpenFails(f, path, Mode(flags, found))
    <3>1. UNCHANGED handle
      BY <2>9 DEF OpenFails
    <3>2. \A g \in File : IsOpen(g)' /\ g \notin taken' => FileOf(g).path' = handle'[g].path
      BY <2>7, <3>1 DEF FileOf, IsOpen
    <3> QED BY <2>2, <2>5, <3>1, <3>2 DEF HandleInv, OwnObject, HandleStandsForFile, IsOpen
  <2> QED BY <2>1, <2>8, <2>9
<1>3. ASSUME NEW f \in File, Close(f) PROVE OwnObject' /\ HandleStandsForFile'
  <2>1. handle' = [handle EXCEPT ![f] = NoHandle] /\ taken' = taken \ {f} /\ IsOpen(f)
    BY <1>3 DEF Close
  <2>2. \A g \in File : IsOpen(g)' => g # f /\ IsOpen(g) /\ handle'[g] = handle[g]
    BY <1>0, <2>1 DEF IsOpen, TypeOK
  \* What is closed is the File on f's heap.
  <2>3. \A g \in File : IsOpen(g)' => object'[handle[g].object] = object[handle[g].object]
    <3> SUFFICES ASSUME NEW g \in File, IsOpen(g)'
                 PROVE  object'[handle[g].object] = object[handle[g].object]
      OBVIOUS
    <3>1. handle[g].object \in Object
      BY <1>0, <2>2, HandleType
    <3>2. OnCard(handle[f].path) => handle[g].object # handle[f].object
      BY <2>1, <2>2, ObjectAssumption DEF HandleInv, OwnObject
    <3> QED BY <1>0, <1>3, <3>1, <3>2 DEF Close, TypeOK
  <2>4. OwnObject'
    BY <2>2 DEF HandleInv, OwnObject, OnCard
  <2>5. \A g \in File : IsOpen(g)' /\ g \notin taken' => FileOf(g).path' = handle'[g].path
    BY <2>1, <2>2, <2>3 DEF HandleInv, HandleStandsForFile, FileOf
  <2>6. ASSUME NEW g \in File, IsOpen(g)', g \notin taken',
               NEW h \in File, handle'[h].object = handle'[g].object
        PROVE  h = g \/ h \in taken'
    <3>1. IsOpen(h)'
      BY <1>0, <2>6, ClosedHasNone
    <3> QED BY <2>1, <2>2, <2>6, <3>1 DEF HandleInv, HandleStandsForFile
  <2> QED BY <2>4, <2>5, <2>6 DEF HandleStandsForFile
<1>4. ASSUME NEW f \in File, NEW page \in Pages,
             Read(f, page) \/ \E content \in Content : Write(f, page, content)
      PROVE  OwnObject' /\ HandleStandsForFile'
  <2>1. IsOpen(f) /\ UNCHANGED <<handle, taken>>
    BY <1>4 DEF Read, Write
  <2>2. UNCHANGED object \/ \E pos : MoveTo(f, pos)
    BY <1>4 DEF Read, Write
  <2> QED BY <1>1, <2>1, <2>2, MoveKeepsHandles
<1>5. ASSUME NEW begins \in BOOLEAN, Mount(begins) PROVE UNCHANGED <<object, handle, taken>>
  BY <1>5 DEF Mount
<1>6. ASSUME NEW o \in FileObject, SetFileObj(o) PROVE UNCHANGED <<object, handle, taken>>
  BY <1>6 DEF SetFileObj
<1>7. CASE UNCHANGED vars
  BY <1>1, <1>7 DEF vars
<1> QED BY <1>1, <1>2, <1>3, <1>4, <1>5, <1>6, <1>7 DEF Next

\* A handle stands for the file it was opened on, and shares its File with no
\* other that does, until it is closed or an open is called while its File is
\* announced: for every number of connections and File objects, in whatever
\* order they are announced, and whatever fails.
THEOREM HandlesStand == Spec => []HandleStandsForFile
<1>1. Spec => []HandleInv
  BY HandleInit, HandleStep, PTL DEF Spec
<1>2. HandleInv => HandleStandsForFile
  BY DEF HandleInv
<1> QED BY <1>1, <1>2, PTL

------------------------------------------------------------------------------
\* sdfat_lseek can land elsewhere only if seekSet fails where it need not.
SeekSound == "card seek" \notin Failures \/ CardPath = {}

LEMMA SeekExact ==
    ASSUME TypeOK, SeekSound, NEW f \in File, IsOpen(f), NEW page \in Pages,
           NEW pos \in Seek(f, page)
    PROVE  pos = None \/ pos = page - 1
<1> DEFINE o == FileOf(f)
<1>1. CASE OnCard(handle[f].path)
  <2> DEFINE tried == <<page - 1, o.pos + (page - 1), Size(o) + (page - 1)>>
             Fails(k) == ~Lands(o, tried[k]) \/ "card seek" \in Failures
  <2>1. "card seek" \notin Failures
    BY <1>1 DEF SeekSound, OnCard
  <2>2. o.pos \in Nat /\ Size(o) \in Nat /\ page - 1 \in Nat
    <3>1. o \in FileState
      BY HandleType
    <3>2. o.path \in Path => Len(stored[o.path]) \in Nat
      BY DEF TypeOK
    <3> QED BY <3>1, <3>2, MaxPagesAssumption DEF FileState, Size, Pages
  \* A relative seek goes no less far than the absolute one.
  <2>3. Lands(o, tried[2]) \/ Lands(o, tried[3]) => Lands(o, tried[1])
    BY <2>2 DEF Lands
  <2>4. pos = None \/ \E k \in 1 .. 3 :
            pos = tried[k] /\ Lands(o, tried[k]) /\ \A j \in 1 .. k - 1 : Fails(j)
    BY <1>1 DEF Seek, CardSeek
  <2>5. ASSUME NEW k \in 1 .. 3, pos = tried[k], Lands(o, tried[k]),
               \A j \in 1 .. k - 1 : Fails(j)
        PROVE  pos = page - 1
    <3>0. k = 1 \/ k = 2 \/ k = 3
      BY SMT
    <3> HIDE DEF tried
    <3>1. Lands(o, tried[1])
      BY <2>3, <2>5, <3>0
    <3>2. ~Fails(1)
      BY <2>1, <3>1
    <3>3. k # 1 => 1 \in 1 .. k - 1
      BY <3>0
    <3>4. k = 1
      BY <2>5, <3>2, <3>3
    <3> QED BY <2>5, <3>4 DEF tried
  <2> QED BY <2>4, <2>5
<1>2. CASE ~OnCard(handle[f].path)
  BY <1>2 DEF Seek, SpiffsSeek
<1> QED BY <1>1, <1>2

Reports == ReadsReturnStored /\ WritesStored

LEMMA ReportsRead ==
    ASSUME SeekSound, HandleInv, NEW f \in File, NEW page \in Pages, Read(f, page)
    PROVE  Reports'
<1>1. IsOpen(f) /\ UNCHANGED stored /\ TypeOK
  BY DEF Read, medium, HandleInv
<1> DEFINE path == handle[f].path
<1>2. path \in Path /\ (f \notin taken => FileOf(f).path = path)
  BY <1>1, HandleType DEF HandleInv, HandleStandsForFile
<1>3. PICK pos \in Seek(f, page) :
          \/ /\ Readable(f, pos)
             /\ Returned("read", f, page, ReadRc(TRUE), stored[FileOf(f).path][pos + 1])
          \/ Returned("read", f, page, ReadRc(FALSE), None)
  BY DEF Read
<1>4. CASE /\ Readable(f, pos)
           /\ Returned("read", f, page, ReadRc(TRUE), stored[FileOf(f).path][pos + 1])
           /\ f \notin taken
  <2>1. pos = page - 1
    BY <1>1, <1>4, SeekExact DEF Readable
  <2>2. pos < Len(stored[path])
    BY <1>2, <1>4, NoneAssumption DEF Readable, Size
  <2>3. page \in Nat /\ Len(stored[path]) \in Nat
    BY <1>1, <1>2 DEF Pages, TypeOK
  <2>4. result'.page = page /\ result'.path = path /\ result'.call = "read"
    BY <1>4 DEF Returned
  <2>5. result'.data = stored[path][page]
    BY <1>2, <1>4, <2>1, <2>3 DEF Returned
  <2> QED BY <1>1, <2>1, <2>2, <2>3, <2>4, <2>5 DEF Reports, ReadsReturnStored, WritesStored
<1>5. CASE Returned("read", f, page, ReadRc(FALSE), None)
  BY <1>5 DEF Returned, ReadRc, Reports, ReadsReturnStored, WritesStored
<1>6. CASE /\ Returned("read", f, page, ReadRc(TRUE), stored[FileOf(f).path][pos + 1])
           /\ f \in taken
  BY <1>6 DEF Returned, Reports, ReadsReturnStored, WritesStored
<1> QED BY <1>3, <1>4, <1>5, <1>6

\* What a write does to the pages, whatever its outcome.
LEMMA WriteEffect ==
    ASSUME SeekSound, HandleInv, NEW f \in File, NEW page \in Pages, NEW content \in Content,
           Write(f, page, content)
    PROVE  LET path == FileOf(f).path IN
           /\ result'.call = "write" /\ result'.page = page
           /\ result'.path = handle[f].path /\ result'.taken = (f \in taken)
           /\ f \notin taken => handle[f].path = path
           /\ \/ UNCHANGED stored
              \/ /\ Stores(path, page - 1, content)
                 /\ path \in Path
                 /\ page - 1 <= Len(stored[path])
                 /\ page - 1 < MaxPages
           /\ result'.rc = "ok" =>
                 /\ Stores(path, page - 1, content)
                 /\ path \in Path
                 /\ page - 1 <= Len(stored[path])
                 /\ page - 1 < MaxPages
                 /\ result'.data = content
<1>1. IsOpen(f) /\ TypeOK
  BY DEF Write, HandleInv
<1> DEFINE path == FileOf(f).path
<1>2. f \notin taken => handle[f].path = path
  BY <1>1 DEF HandleInv, HandleStandsForFile
<1>3. PICK pos \in Seek(f, page) :
          \/ Returned("write", f, page, "seek error", None) /\ UNCHANGED stored
          \/ /\ Writable(f, pos) /\ pos < MaxPages
             /\ Stores(path, pos, content)
             /\ Returned("write", f, page, WriteRc(TRUE), content)
          \/ /\ pos < MaxPages
             /\ \/ UNCHANGED stored
                \/ Writable(f, pos) /\ Stores(path, pos, content)
             /\ Returned("write", f, page, WriteRc(FALSE), None)
  BY DEF Write
<1>4. Writable(f, pos) => pos = page - 1 /\ path \in Path /\ page - 1 <= Len(stored[path])
  BY <1>1, SeekExact, SeekRange DEF Writable
<1>5. CASE Returned("write", f, page, "seek error", None) /\ UNCHANGED stored
  BY <1>2, <1>5 DEF Returned
<1>6. CASE /\ Writable(f, pos) /\ pos < MaxPages
           /\ Stores(path, pos, content)
           /\ Returned("write", f, page, WriteRc(TRUE), content)
  BY <1>2, <1>4, <1>6 DEF Returned
<1>7. CASE /\ pos < MaxPages
           /\ \/ UNCHANGED stored
              \/ Writable(f, pos) /\ Stores(path, pos, content)
           /\ Returned("write", f, page, WriteRc(FALSE), None)
  BY <1>2, <1>4, <1>7 DEF Returned, WriteRc
<1> QED BY <1>3, <1>5, <1>6, <1>7

\* What storing a page does to its file and to the others.
LEMMA StoresEffect ==
    ASSUME TypeOK, NEW path \in Path, NEW page \in Pages, NEW content \in Content,
           Stores(path, page - 1, content), page - 1 <= Len(stored[path]), page - 1 < MaxPages
    PROVE  /\ page <= Len(stored'[path])
           /\ stored'[path][page] = content
           /\ \A n \in 1 .. Len(stored[path]) : n # page => stored'[path][n] = stored[path][n]
           /\ \A p \in Path : p # path => stored'[p] = stored[p]
<1>1. stored[path] \in Seq(Content) /\ Len(stored[path]) <= MaxPages
  BY DEF TypeOK
<1>2. page - 1 \in 0 .. MaxPages /\ (page - 1) + 1 = page
  BY MaxPagesAssumption DEF Pages
<1> DEFINE new == Put(stored[path], page - 1, content)
<1>3. /\ page <= Len(new)
      /\ new[page] = content
      /\ \A n \in 1 .. Len(stored[path]) : n # page => new[n] = stored[path][n]
  <2>1. /\ (page - 1) + 1 <= Len(new)
        /\ new[(page - 1) + 1] = content
        /\ \A n \in 1 .. Len(stored[path]) :
              n # (page - 1) + 1 => new[n] = stored[path][n]
    BY <1>1, <1>2, PutProperties
  <2> QED BY <1>2, <2>1
<1>4. stored' = [stored EXCEPT ![path] = new]
  BY DEF Stores
<1>5. stored'[path] = new /\ \A p \in Path : p # path => stored'[p] = stored[p]
  BY <1>4 DEF TypeOK
<1> QED BY <1>3, <1>5

LEMMA ReportsStep ==
    ASSUME SeekSound
    PROVE  HandleInv /\ Reports /\ [Next]_vars => Reports'
<1> SUFFICES ASSUME HandleInv, Reports, [Next]_vars PROVE Reports'
  OBVIOUS
<1>1. ASSUME result' = NoResult PROVE Reports'
  BY <1>1 DEF NoResult, Reports, ReadsReturnStored, WritesStored
<1>2. ASSUME NEW f \in File, NEW page \in Pages, NEW content \in Content, Write(f, page, content)
      PROVE  Reports'
  <2> DEFINE path == FileOf(f).path
  <2>1. /\ result'.call = "write" /\ result'.page = page
        /\ result'.path = handle[f].path /\ result'.taken = (f \in taken)
        /\ f \notin taken => handle[f].path = path
        /\ result'.rc = "ok" =>
              /\ Stores(path, page - 1, content)
              /\ path \in Path
              /\ page - 1 <= Len(stored[path])
              /\ page - 1 < MaxPages
              /\ result'.data = content
    BY <1>2, WriteEffect
  <2>2. TypeOK
    BY DEF HandleInv
  <2>3. result'.rc = "ok" => page <= Len(stored'[path]) /\ stored'[path][page] = result'.data
    BY <2>1, <2>2, StoresEffect
  <2> HIDE DEF path
  <2> QED BY <2>1, <2>3 DEF Reports, ReadsReturnStored, WritesStored
<1>3. CASE UNCHANGED vars
  BY <1>3 DEF vars, medium, Reports, ReadsReturnStored, WritesStored
<1> QED BY <1>1, <1>2, <1>3, ReportsRead DEF Next, Mount, SetFileObj, Open, Close

\* What both of the following theorems say.
LEMMA ReportsTrue ==
    ASSUME SeekSound
    PROVE  Spec => []Reports
<1>1. Init => HandleInv /\ Reports
  BY HandleInit DEF Init, NoResult, Reports, ReadsReturnStored, WritesStored
<1>2. HandleInv /\ Reports /\ [Next]_vars => HandleInv' /\ Reports'
  BY HandleStep, ReportsStep
<1> QED BY <1>1, <1>2, PTL DEF Spec

\* What xRead reports as read with SQLITE_OK is what the file holds at the offset
\* asked for, if seekSet on the card fails only beyond the end.
THEOREM ReadsTrue ==
    ASSUME SeekSound
    PROVE  Spec => []ReadsReturnStored
<1>1. Reports => ReadsReturnStored
  BY DEF Reports
<1> QED BY <1>1, ReportsTrue, PTL

\* What xWrite reports as written is in the file, at the offset asked for, under
\* the same condition.
THEOREM WritesTrue ==
    ASSUME SeekSound
    PROVE  Spec => []WritesStored
<1>1. Reports => WritesStored
  BY DEF Reports
<1> QED BY <1>1, ReportsTrue, PTL

------------------------------------------------------------------------------
\* The step that OnlyWritesChange is about.
OnlyWrites ==
    \A path \in present :
        stored'[path] # stored[path] =>
            /\ result'.call = "write"
            /\ result'.path = path \/ result'.taken
            /\ \A page \in 1 .. Len(stored[path]) :
                  page # result'.page => stored'[path][page] = stored[path][page]

LEMMA OnlyWritesStep ==
    ASSUME SeekSound, "stat" \notin Failures
    PROVE  HandleInv /\ [Next]_vars => OnlyWrites
<1> SUFFICES ASSUME HandleInv, [Next]_vars PROVE OnlyWrites
  OBVIOUS
<1>0. TypeOK
  BY DEF HandleInv
<1>1. ASSUME UNCHANGED stored PROVE OnlyWrites
  BY <1>1 DEF OnlyWrites
\* An existing file is found, so that "w+" is not asked for.
<1>2. ASSUME NEW f \in File, NEW path \in Path, NEW flags \in Flags, Open(f, path, flags)
      PROVE  OnlyWrites
  <2>1. PICK found \in Found(path) :
            \/ OpenSucceeds(f, path, Mode(flags, found))
            \/ OpenFails(f, path, Mode(flags, found))
    BY <1>2 DEF Open
  <2>2. CASE OpenSucceeds(f, path, Mode(flags, found))
    <3>1. Truncates(path, Mode(flags, found)) => path \notin present
      BY DEF Truncates, Mode, Found, Exists
    <3>2. \A p \in present : stored'[p] = stored[p]
      BY <1>0, <2>2, <3>1 DEF OpenSucceeds, TypeOK
    <3> QED BY <3>2 DEF OnlyWrites
  <2>3. CASE OpenFails(f, path, Mode(flags, found))
    BY <1>1, <2>3 DEF OpenFails, medium
  <2> QED BY <2>1, <2>2, <2>3
<1>3. ASSUME NEW f \in File, NEW page \in Pages, NEW content \in Content, Write(f, page, content)
      PROVE  OnlyWrites
  <2> DEFINE file == FileOf(f).path
  <2>1. /\ result'.call = "write" /\ result'.page = page
        /\ result'.path = handle[f].path /\ result'.taken = (f \in taken)
        /\ f \notin taken => handle[f].path = file
        /\ \/ UNCHANGED stored
           \/ /\ Stores(file, page - 1, content)
              /\ file \in Path
              /\ page - 1 <= Len(stored[file])
              /\ page - 1 < MaxPages
    BY <1>3, WriteEffect
  <2>2. CASE ~UNCHANGED stored
    <3>1. /\ \A n \in 1 .. Len(stored[file]) :
                n # page => stored'[file][n] = stored[file][n]
          /\ \A p \in Path : p # file => stored'[p] = stored[p]
      BY <1>0, <2>1, <2>2, StoresEffect
    <3>2. present \subseteq Path
      BY <1>0 DEF TypeOK
    <3> HIDE DEF file
    <3> QED BY <2>1, <3>1, <3>2 DEF OnlyWrites
  <2> QED BY <1>1, <2>2
<1> QED BY <1>1, <1>2, <1>3 DEF Next, Mount, SetFileObj, Close, Read, vars, medium

\* Nothing but a write to it changes an existing database file, and that only
\* in the page written: no open empties it, if stat does not fail.
THEOREM WritesAlone ==
    ASSUME SeekSound, "stat" \notin Failures
    PROVE  Spec => OnlyWritesChange
<1>1. Spec => []HandleInv
  BY HandleInit, HandleStep, PTL DEF Spec
<1>2. HandleInv /\ [Next]_vars => [OnlyWrites]_vars
  BY OnlyWritesStep
<1>3. Spec => [][OnlyWrites]_vars
  BY <1>1, <1>2, PTL DEF Spec
<1> QED BY <1>3 DEF OnlyWritesChange, OnlyWrites
==============================================================================
