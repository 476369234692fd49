-------------------------- MODULE BufferPoolProofs --------------------------
(***************************************************************************)
(* Pages, pins and contents of the buffer pool for any files, handles and  *)
(* values, and any number of frames, pages, opens and disposals.           *)
(***************************************************************************)
EXTENDS BufferPool, FiniteSetTheorems, FunctionTheorems, WellFoundedInduction, TLAPS

-----------------------------------------------------------------------------
(* The lowest descriptor and the lowest free page.                         *)

\* A nonempty set of naturals has a least element.
LEMMA LeastExists ==
  ASSUME NEW T, T \subseteq Nat, T # {}
  PROVE  \E x \in T : \A y \in T : x <= y
<1>1. PICK x \in T : \A y \in T : ~ (<<y, x>> \in OpToRel(<, Nat))
  BY NatLessThanWellFounded, WFMin
<1>2. ASSUME NEW y \in T PROVE x <= y
  <2>1. ~(y < x)
    BY <1>1 DEF OpToRel
  <2> QED BY <2>1
<1> QED BY <1>2

\* There are as many descriptors as files: while one file is closed, open(2)
\* finds a descriptor that is not in use.
LEMMA LowestFdFree ==
  ASSUME opened \in [Files -> Fds \cup {NoFd}], NEW f \in Files, opened[f] = NoFd
  PROVE  LowestFd \in Fds /\ \A g \in Files : opened[g] # LowestFd
<1> DEFINE D == {d \in Fds : \A g \in Files : opened[g] # d}
<1>0. IsFiniteSet(Files) /\ NoFd \notin Nat
  BY PoolAssumption
<1>1. D # {}
  <2> SUFFICES ASSUME \A d \in Fds : \E g \in Files : opened[g] = d PROVE FALSE
    OBVIOUS
  <2> DEFINE S == Files \ {f}
             T == {g \in S : opened[g] \in Fds}
             m == [g \in T |-> opened[g]]
  <2>1. NoFd \notin Fds
    BY <1>0 DEF Fds
  <2>2. m \in Surjection(T, Fds)
    BY <2>1 DEF Surjection
  <2>3. /\ IsFiniteSet(S) /\ Cardinality(S) = Cardinality(Files) - 1
        /\ Cardinality(Files) \in Nat
    BY <1>0, FS_RemoveElement, FS_CardinalityType
  <2>4. IsFiniteSet(T) /\ Cardinality(T) <= Cardinality(S)
        /\ Cardinality(T) \in Nat /\ Cardinality(S) \in Nat
    BY <2>3, FS_Subset, FS_CardinalityType
  <2>5. Cardinality(Fds) <= Cardinality(T)
    BY <2>2, <2>4, FS_Surjection
  <2>6. Cardinality(Fds) = Cardinality(Files)
    BY <2>3, FS_Interval DEF Fds
  <2> HIDE DEF S, T, m
  <2> QED BY <2>3, <2>4, <2>5, <2>6
<1>2. D \subseteq Nat
  BY <1>0, FS_CardinalityType DEF Fds
<1>3. PICK d \in D : \A e \in D : d <= e
  BY <1>1, <1>2, LeastExists
<1>4. ASSUME NEW e \in Fds, e < d PROVE \E g \in Files : opened[g] = e
  <2>1. e \notin D
    <3>1. e \in Int /\ d \in Int
      BY <1>0, <1>2, FS_CardinalityType DEF Fds
    <3> QED BY <1>3, <1>4, <3>1
  <2> QED BY <2>1
<1> QED BY <1>3, <1>4 DEF LowestFd

LEMMA LowestFreeIsFree ==
  ASSUME NEW f \in Files, FreePages(f) # {}
  PROVE  LowestFree(f) \in FreePages(f)
<1>1. FreePages(f) \subseteq Nat
  BY DEF FreePages
<1> QED BY <1>1, LeastExists DEF LowestFree

-----------------------------------------------------------------------------
(* Frames.                                                                 *)

Frame == [pin : Nat, data : Values \cup {Zero, Garbage}]
FramesType(fr) == DOMAIN fr \subseteq Fds \X Pages /\ fr \in [DOMAIN fr -> Frame]

\* fr and frames differ at most at k.
Elsewhere(fr, k) ==
  \A j : j # k => (j \in DOMAIN fr <=> j \in DOMAIN frames) /\ (j \in DOMAIN frames => fr[j] = frames[j])

LEMMA AllocFrame ==
  ASSUME FramesType(frames), NEW k \in Fds \X Pages
  PROVE  /\ FramesType(Alloc(k)) /\ Elsewhere(Alloc(k), k) /\ k \in DOMAIN Alloc(k)
         /\ k \in DOMAIN frames => /\ Alloc(k)[k].pin = frames[k].pin + 1
                                   /\ Alloc(k)[k].data = frames[k].data
         /\ k \notin DOMAIN frames => Alloc(k)[k].pin = 1
<1> DEFINE a == Alloc(k)
<1>1. DOMAIN a = DOMAIN frames \cup {k}
  BY DEF Alloc
<1>2. \A j \in DOMAIN frames : j # k => a[j] = frames[j]
  BY DEF Alloc
<1>3. CASE k \in DOMAIN frames
  <2>1. a[k] = [frames[k] EXCEPT !.pin = frames[k].pin + 1]
    BY <1>3 DEF Alloc
  <2>2. frames[k] \in Frame
    BY <1>3 DEF FramesType
  <2>3. a[k] \in Frame /\ a[k].pin = frames[k].pin + 1 /\ a[k].data = frames[k].data
    BY <2>1, <2>2 DEF Frame
  <2>4. \A j \in DOMAIN a : a[j] \in Frame
    BY <1>1, <1>2, <1>3, <2>3 DEF FramesType
  <2>5. a \in [DOMAIN a -> Frame]
    BY <2>4 DEF Alloc
  <2> HIDE DEF a
  <2>6. FramesType(a) /\ Elsewhere(a, k)
    BY <1>1, <1>2, <2>5 DEF FramesType, Elsewhere
  <2> QED BY <1>1, <1>3, <2>3, <2>6 DEF a
<1>4. CASE k \notin DOMAIN frames
  <2>1. a[k] = [pin |-> 1, data |-> Garbage]
    BY <1>4 DEF Alloc
  <2>2. a[k] \in Frame /\ a[k].pin = 1
    BY <2>1 DEF Frame
  <2>3. \A j \in DOMAIN a : a[j] \in Frame
    BY <1>1, <1>2, <1>4, <2>2 DEF FramesType
  <2>4. a \in [DOMAIN a -> Frame]
    BY <2>3 DEF Alloc
  <2> HIDE DEF a
  <2>5. FramesType(a) /\ Elsewhere(a, k)
    BY <1>1, <1>2, <2>4 DEF FramesType, Elsewhere
  <2> QED BY <1>1, <1>4, <2>2, <2>5 DEF a
<1> QED BY <1>3, <1>4

LEMMA SetData ==
  ASSUME NEW fr, FramesType(fr), NEW k \in DOMAIN fr, NEW v \in Values \cup {Zero, Garbage}
  PROVE  LET n == [fr EXCEPT ![k].data = v]
         IN /\ FramesType(n) /\ DOMAIN n = DOMAIN fr
            /\ n[k].pin = fr[k].pin /\ n[k].data = v
            /\ \A j \in DOMAIN fr : j # k => n[j] = fr[j]
<1> DEFINE n == [fr EXCEPT ![k].data = v]
<1>1. fr \in [DOMAIN fr -> Frame]
  BY DEF FramesType
<1>2. n \in [DOMAIN fr -> Frame] /\ DOMAIN n = DOMAIN fr
  BY <1>1 DEF Frame
<1>3. n[k].pin = fr[k].pin /\ n[k].data = v
  BY <1>1 DEF Frame
<1>4. \A j \in DOMAIN fr : j # k => n[j] = fr[j]
  BY <1>1
<1> HIDE DEF n
<1>5. FramesType(n)
  BY <1>2 DEF FramesType
<1> QED BY <1>2, <1>3, <1>4, <1>5 DEF n

LEMMA SetPin ==
  ASSUME FramesType(frames), NEW k \in DOMAIN frames, frames[k].pin > 0
  PROVE  LET n == [frames EXCEPT ![k].pin = @ - 1]
         IN /\ FramesType(n) /\ Elsewhere(n, k) /\ k \in DOMAIN n
            /\ n[k].pin = frames[k].pin - 1 /\ n[k].data = frames[k].data
<1> DEFINE n == [frames EXCEPT ![k].pin = @ - 1]
<1>1. frames \in [DOMAIN frames -> Frame] /\ frames[k] \in Frame
  BY DEF FramesType
<1>2. frames[k].pin - 1 \in Nat
  BY <1>1 DEF Frame
<1>3. n \in [DOMAIN frames -> Frame] /\ DOMAIN n = DOMAIN frames
  BY <1>1, <1>2 DEF Frame
<1>4. n[k].pin = frames[k].pin - 1 /\ n[k].data = frames[k].data
  BY <1>1 DEF Frame
<1>5. \A j \in DOMAIN frames : j # k => n[j] = frames[j]
  BY <1>1
<1> HIDE DEF n
<1>6. FramesType(n) /\ Elsewhere(n, k)
  BY <1>3, <1>5 DEF FramesType, Elsewhere
<1> QED BY <1>3, <1>4, <1>6 DEF n

-----------------------------------------------------------------------------
(* The inductive invariant.                                                *)

Pin(f, p) == frames[Key(f, p)].pin

\* The header counts and maps the pages handed out, and its own.
HeaderOK(f) ==
  /\ header[f].allocated_pages = Cardinality(header[f].bitmap)
  /\ header[f].bitmap \subseteq 0 .. header[f].page_count - 1
  /\ live[f] \cup {0} \subseteq header[f].bitmap /\ 0 \notin live[f]

FreeOK(f) == \A p \in Pages : p < header[f].page_count /\ p \notin header[f].bitmap => ~Cached(f, p)

\* Once a reuse has failed, pins may be leaked, and counts are only bounds.
HeadPinned(f) == Cached(f, 0) /\ Pin(f, 0) >= 1 /\ (failed = {} => Pin(f, 0) = 1)

PageOK(f, p) ==
  /\ Cached(f, p) /\ frames[Key(f, p)].data = content[f][p]
  /\ Pin(f, p) >= Cardinality(Holders(f, p))
  /\ failed = {} => Pin(f, p) = Cardinality(Holders(f, p))

\* Until a reuse fails or waits, a page in the bitmap is a page handed out.
OnlyLive(f) == failed = {} /\ waiting = Idle => header[f].bitmap \subseteq live[f] \cup {0}

\* What holds of an open file.
FileInv(f) ==
  opened[f] # NoFd => /\ HeaderOK(f) /\ FreeOK(f) /\ HeadPinned(f) /\ OnlyLive(f)
                      /\ \A p \in live[f] : PageOK(f, p)

\* Some open file has the page of this frame in its bitmap.
InUse(k) == \E f \in Files : opened[f] = k[1] /\ k[2] \in header[f].bitmap

Types ==
  /\ TypeOK
  /\ \A f \in Files : header[f].page_count \in 1 .. MaxPageNum
  /\ waiting = Idle \/ waiting \in [file : Files, tries : {0, 1}]

\* A descriptor belongs to one open file.
FdInv == \A f, g \in Files : opened[f] # NoFd /\ opened[f] = opened[g] => f = g

\* Handles are on pages of open files only.
HeldInv == \A h \in Handles, f \in Files, p \in Pages :
             <<f, p>> \in held[h] => opened[f] # NoFd /\ p \in live[f]

\* The frames that a closed file left behind are not pinned.
StaleInv == failed = {} => \A k \in DOMAIN frames : ~InUse(k) => frames[k].pin = 0

FilesInv == \A f \in Files : FileInv(f)

Inv == Types /\ FdInv /\ HeldInv /\ StaleInv /\ FilesInv

LEMMA TypeFacts ==
  ASSUME Types
  PROVE  /\ opened \in [Files -> Fds \cup {NoFd}] /\ FramesType(frames)
         /\ held \in [Handles -> SUBSET (Files \X Pages)]
         /\ live \in [Files -> SUBSET Pages]
         /\ header \in [Files -> [page_count : Nat, allocated_pages : Nat, bitmap : SUBSET Pages]]
         /\ content \in [Files -> [Pages -> Values \cup {Zero, Garbage}]]
         /\ NoFd \notin Fds
<1>1. NoFd \notin Fds
  BY PoolAssumption DEF Fds
<1> QED BY <1>1 DEF Types, TypeOK, FramesType, Frame

LEMMA InitInv == Init => Inv
<1> SUFFICES ASSUME Init PROVE Inv
  OBVIOUS
<1>0. NoFd \notin Nat /\ MaxPageNum \in Nat \ {0} /\ 0 \in Pages
  BY PoolAssumption DEF Pages
<1>1. DOMAIN frames = {}
  BY DEF Init
<1>2. TypeOK
  <2>1. header \in [Files -> [page_count : Nat, allocated_pages : Nat, bitmap : SUBSET Pages]]
    BY <1>0 DEF Init, DiskHeader
  <2>2. frames \in [DOMAIN frames -> [pin : Nat, data : Values \cup {Zero, Garbage}]]
    BY DEF Init
  <2> QED BY <1>1, <2>1, <2>2 DEF Init, TypeOK
<1>3. Types
  BY <1>0, <1>2 DEF Init, Types, DiskHeader
<1>4. FdInv /\ HeldInv /\ FilesInv
  BY DEF Init, FdInv, HeldInv, FilesInv, FileInv
<1>5. StaleInv
  BY <1>1 DEF StaleInv
<1> QED BY <1>3, <1>4, <1>5 DEF Inv

-----------------------------------------------------------------------------
(* What a step leaves alone.                                               *)

\* A step that does not concern the open file g.
SameFile(g) ==
  /\ opened'[g] = opened[g] /\ header'[g] = header[g]
  /\ live'[g] = live[g] /\ content'[g] = content[g]
  /\ \A h \in Handles, p \in Pages : <<g, p>> \in held'[h] <=> <<g, p>> \in held[h]
  /\ \A p \in Pages : /\ <<opened[g], p>> \in DOMAIN frames' <=> <<opened[g], p>> \in DOMAIN frames
                      /\ <<opened[g], p>> \in DOMAIN frames =>
                           frames'[<<opened[g], p>>] = frames[<<opened[g], p>>]
  /\ failed' = {} => failed = {}
  /\ waiting' = Idle => waiting = Idle

LEMMA FileFrame ==
  ASSUME Types, NEW g \in Files, FileInv(g), opened[g] # NoFd => SameFile(g),
         opened[g] = NoFd => opened'[g] = NoFd
  PROVE  FileInv(g)'
<1>1. CASE opened[g] = NoFd
  BY <1>1 DEF FileInv
<1>2. CASE opened[g] # NoFd
  <2>1. SameFile(g)
    BY <1>2
  <2>2. ASSUME NEW p \in Pages
        PROVE  /\ Key(g, p)' = Key(g, p) /\ Cached(g, p)' <=> Cached(g, p)
               /\ Cached(g, p) => frames'[Key(g, p)'] = frames[Key(g, p)]
               /\ Holders(g, p)' = Holders(g, p)
    BY <2>1, <2>2 DEF SameFile, Key, Cached, Holders
  <2>3. 0 \in Pages /\ live[g] \subseteq Pages
    BY PoolAssumption, TypeFacts DEF Pages
  <2>4. HeaderOK(g)' /\ OnlyLive(g)'
    BY <1>2, <2>1 DEF FileInv, HeaderOK, OnlyLive, SameFile
  <2>5. FreeOK(g)'
    <3> SUFFICES ASSUME NEW p \in Pages, p < header'[g].page_count, p \notin header'[g].bitmap
                 PROVE  ~Cached(g, p)'
      BY DEF FreeOK, Pages
    <3>1. ~Cached(g, p)
      BY <1>2, <2>1 DEF FileInv, FreeOK, SameFile
    <3> QED BY <2>1, <3>1 DEF SameFile, Key, Cached
  <2>6. HeadPinned(g)'
    <3>1. HeadPinned(g)
      BY <1>2 DEF FileInv
    <3> QED BY <2>1, <2>2, <2>3, <3>1 DEF HeadPinned, Pin, SameFile
  <2>7. ASSUME NEW p \in live'[g] PROVE PageOK(g, p)'
    <3>1. p \in live[g] /\ p \in Pages /\ PageOK(g, p)
      BY <1>2, <2>1, <2>3, <2>7 DEF SameFile, FileInv
    <3> QED BY <2>1, <2>2, <3>1 DEF PageOK, Pin, SameFile
  <2> QED BY <2>4, <2>5, <2>6, <2>7 DEF FileInv
<1> QED BY <1>1, <1>2

\* A step of an open file f that concerns its page q, never the header page.
PageChange(f, q) ==
  /\ opened' = opened /\ opened[f] # NoFd /\ q \in Pages /\ q # 0
  /\ Elsewhere(frames', <<opened[f], q>>)
  /\ \A g \in Files \ {f} : header'[g] = header[g] /\ live'[g] = live[g] /\ content'[g] = content[g]
  /\ \A h \in Handles, g \in Files, r \in Pages :
       <<g, r>> # <<f, q>> => (<<g, r>> \in held'[h] <=> <<g, r>> \in held[h])
  /\ \A r \in Pages : r # q => /\ content'[f][r] = content[f][r]
                               /\ r \in live'[f] <=> r \in live[f]
                               /\ r \in header'[f].bitmap <=> r \in header[f].bitmap
                               /\ r < header'[f].page_count <=> r < header[f].page_count
  /\ failed' = {} => failed = {}
  /\ waiting' = Idle => waiting = Idle

\* What such a step still has to establish of q.
PageNow(f, q) ==
  /\ HeaderOK(f) /\ OnlyLive(f)
  /\ q < header[f].page_count /\ q \notin header[f].bitmap => <<opened[f], q>> \notin DOMAIN frames
  /\ q \in live[f] => PageOK(f, q)
  /\ failed = {} /\ <<opened[f], q>> \in DOMAIN frames => q \in header[f].bitmap
  /\ \A h \in Handles : <<f, q>> \in held[h] => q \in live[f]

LEMMA PageStepFile ==
  ASSUME Types, Types', NEW f \in Files, NEW q \in Pages, FileInv(f), PageChange(f, q), PageNow(f, q)'
  PROVE  FileInv(f)'
<1>0. 0 \in Pages /\ live[f] \subseteq Pages /\ live'[f] \subseteq Pages
  <2>1. live' \in [Files -> SUBSET Pages]
    BY DEF Types, TypeOK
  <2> QED BY <2>1, PoolAssumption, TypeFacts DEF Pages
<1>1. HeaderOK(f)' /\ OnlyLive(f)'
  BY DEF PageNow
<1>2. ASSUME NEW r \in Pages, r # q
      PROVE  /\ <<opened'[f], r>> \in DOMAIN frames' <=> <<opened[f], r>> \in DOMAIN frames
             /\ <<opened[f], r>> \in DOMAIN frames =>
                  frames'[<<opened'[f], r>>] = frames[<<opened[f], r>>]
             /\ Holders(f, r)' = Holders(f, r)
  <2>1. <<opened[f], r>> # <<opened[f], q>> /\ <<f, r>> # <<f, q>> /\ opened' = opened
    BY <1>2 DEF PageChange
  <2>2. Holders(f, r)' = Holders(f, r)
    BY <1>2, <2>1 DEF PageChange, Holders
  <2> QED BY <2>1, <2>2 DEF PageChange, Elsewhere
<1>3. FreeOK(f)'
  <2> SUFFICES ASSUME NEW r \in Pages, r < header'[f].page_count, r \notin header'[f].bitmap
               PROVE  <<opened'[f], r>> \notin DOMAIN frames'
    BY DEF FreeOK, Pages, Cached, Key
  <2>1. CASE r = q
    BY <2>1 DEF PageNow
  <2>2. CASE r # q
    <3>1. ~Cached(f, r)
      BY <2>2 DEF FileInv, FreeOK, PageChange
    <3> QED BY <1>2, <2>2, <3>1 DEF Cached, Key
  <2> QED BY <2>1, <2>2
<1>4. HeadPinned(f)'
  <2>1. HeadPinned(f) /\ (failed' = {} => failed = {}) /\ 0 # q
    BY DEF FileInv, PageChange
  <2> QED BY <1>0, <1>2, <2>1 DEF HeadPinned, Pin, Key, Cached
<1>5. ASSUME NEW r \in live'[f] PROVE PageOK(f, r)'
  <2>1. CASE r = q
    BY <1>5, <2>1 DEF PageNow
  <2>2. CASE r # q
    <3>1. r \in Pages /\ r \in live[f] /\ content'[f][r] = content[f][r]
          /\ (failed' = {} => failed = {}) /\ opened[f] # NoFd
      BY <1>0, <1>5, <2>2 DEF PageChange
    <3>2. PageOK(f, r)
      BY <3>1 DEF FileInv
    <3> QED BY <1>2, <2>2, <3>1, <3>2 DEF PageOK, Pin, Key, Cached
  <2> QED BY <2>1, <2>2
<1> QED BY <1>1, <1>3, <1>4, <1>5 DEF FileInv

LEMMA PageStep ==
  ASSUME Inv, Types', NEW f \in Files, NEW q \in Pages, PageChange(f, q), PageNow(f, q)'
  PROVE  Inv'
<1>0. Types /\ FdInv /\ HeldInv /\ StaleInv /\ FilesInv /\ opened' = opened
  BY DEF Inv, PageChange
<1>1. FdInv'
  BY <1>0 DEF FdInv
<1>2. HeldInv'
  <2> SUFFICES ASSUME NEW h \in Handles, NEW g \in Files, NEW r \in Pages, <<g, r>> \in held'[h]
               PROVE  opened'[g] # NoFd /\ r \in live'[g]
    BY DEF HeldInv
  <2>1. CASE <<g, r>> = <<f, q>>
    BY <2>1 DEF PageNow, PageChange
  <2>2. CASE <<g, r>> # <<f, q>>
    <3>1. opened[g] # NoFd /\ r \in live[g]
      BY <1>0, <2>2 DEF HeldInv, PageChange
    <3>2. CASE g = f
      BY <1>0, <2>2, <3>1, <3>2 DEF PageChange
    <3>3. CASE g # f
      BY <1>0, <3>1, <3>3 DEF PageChange
    <3> QED BY <3>2, <3>3
  <2> QED BY <2>1, <2>2
<1>3. StaleInv'
  <2> SUFFICES ASSUME failed' = {}, NEW k \in DOMAIN frames', ~InUse(k)'
               PROVE  frames'[k].pin = 0
    BY DEF StaleInv
  <2>1. k # <<opened[f], q>>
    BY <1>0 DEF InUse, PageNow
  <2>2. k \in DOMAIN frames /\ frames'[k] = frames[k] /\ failed = {}
    BY <2>1 DEF PageChange, Elsewhere
  <2>3. ~InUse(k)
    <3> SUFFICES ASSUME NEW g \in Files, opened[g] = k[1], k[2] \in header[g].bitmap PROVE FALSE
      BY DEF InUse
    <3>1. k = <<k[1], k[2]>> /\ k[2] \in Pages
      BY <1>0, <2>2, TypeFacts DEF FramesType
    <3>2. CASE g # f
      BY <1>0, <3>2 DEF PageChange, InUse
    <3>3. CASE g = f
      <4>1. k[2] # q
        BY <2>1, <3>1, <3>3
      <4>2. k[2] \in header'[f].bitmap
        BY <3>1, <3>3, <4>1 DEF PageChange
      <4> QED BY <1>0, <3>3, <4>2 DEF InUse
    <3> QED BY <3>2, <3>3
  <2> QED BY <1>0, <2>2, <2>3 DEF StaleInv
<1>4. ASSUME NEW g \in Files PROVE FileInv(g)'
  <2>1. CASE g = f
    BY <1>0, <2>1, PageStepFile DEF FilesInv
  <2>2. CASE g # f
    <3>1. ASSUME opened[g] # NoFd PROVE SameFile(g)
      <4>1. opened[g] # opened[f]
        BY <1>0, <2>2, <3>1 DEF FdInv
      <4>2. \A p \in Pages : <<opened[g], p>> # <<opened[f], q>> /\ <<g, p>> # <<f, q>>
        BY <2>2, <4>1
      <4> QED BY <1>0, <2>2, <4>2 DEF SameFile, PageChange, Elsewhere
    <3> QED BY <1>0, <3>1, FileFrame DEF FilesInv
  <2> QED BY <2>1, <2>2
<1> QED BY <1>1, <1>2, <1>3, <1>4 DEF Inv, FilesInv

\* A step that moves at most the waiting allocator and the set of files.
LEMMA QuietStep ==
  ASSUME Inv, Types', UNCHANGED <<opened, header, frames, held, live, content, failed>>,
         waiting' = Idle => waiting = Idle
  PROVE  Inv'
<1>0. Types /\ FdInv /\ HeldInv /\ StaleInv /\ FilesInv
  BY DEF Inv
<1>1. FdInv' /\ HeldInv'
  BY <1>0 DEF FdInv, HeldInv
<1>2. StaleInv'
  BY <1>0 DEF StaleInv, InUse
<1>3. ASSUME NEW g \in Files PROVE FileInv(g)'
  <2>1. SameFile(g)
    BY DEF SameFile
  <2> QED BY <1>0, <2>1, FileFrame DEF FilesInv
<1> QED BY <1>1, <1>2, <1>3 DEF Inv, FilesInv

-----------------------------------------------------------------------------
(* Types.                                                                  *)

HeaderType == [page_count : Nat, allocated_pages : Nat, bitmap : SUBSET Pages]

LEMMA PageNumbers ==
  /\ 0 \in Pages /\ IsFiniteSet(Pages) /\ Pages \subseteq Nat
  /\ \A S \in SUBSET Pages : IsFiniteSet(S) /\ Cardinality(S) \in Nat
<1>1. MaxPageNum \in Nat \ {0}
  BY PoolAssumption
<1>2. 0 \in Pages /\ IsFiniteSet(Pages) /\ Pages \subseteq Nat
  BY <1>1, FS_Interval DEF Pages
<1> QED BY <1>2, FS_Subset, FS_CardinalityType

LEMMA MarkFacts ==
  ASSUME Types, NEW f \in Files, NEW q \in Pages, q \notin header[f].bitmap
  PROVE  /\ Mark(f, q) \in HeaderType
         /\ Mark(f, q).page_count = header[f].page_count
         /\ Mark(f, q).allocated_pages = header[f].allocated_pages + 1
         /\ Mark(f, q).bitmap = header[f].bitmap \cup {q}
         /\ Cardinality(header[f].bitmap \cup {q}) = Cardinality(header[f].bitmap) + 1
<1>1. header[f] \in HeaderType
  BY TypeFacts DEF HeaderType
<1>2. IsFiniteSet(header[f].bitmap)
  BY <1>1, PageNumbers DEF HeaderType
<1>3. Cardinality(header[f].bitmap \cup {q}) = Cardinality(header[f].bitmap) + 1
  BY <1>2, FS_AddElement
<1>4. header[f].bitmap \cup {q} \in SUBSET Pages /\ header[f].allocated_pages + 1 \in Nat
  BY <1>1 DEF HeaderType
<1>5. Mark(f, q) \in HeaderType
  BY <1>1, <1>4 DEF HeaderType, Mark
<1>6. /\ Mark(f, q).page_count = header[f].page_count
      /\ Mark(f, q).allocated_pages = header[f].allocated_pages + 1
      /\ Mark(f, q).bitmap = header[f].bitmap \cup {q}
  BY <1>1 DEF HeaderType, Mark
<1> QED BY <1>3, <1>5, <1>6

\* The type invariant of the next state, from its parts.
LEMMA TypesNext ==
  ASSUME Types,
         exists' \subseteq Files, opened' \in [Files -> Fds \cup {NoFd}],
         header' \in [Files -> HeaderType], \A g \in Files : header'[g].page_count \in 1 .. MaxPageNum,
         FramesType(frames'), held' \in [Handles -> SUBSET (Files \X Pages)],
         live' \in [Files -> SUBSET Pages],
         content' \in [Files -> [Pages -> Values \cup {Zero, Garbage}]],
         failed' \subseteq Files, opens' \in [Files -> Nat], disposes' \in Nat,
         waiting' = Idle \/ waiting' \in [file : Files, tries : {0, 1}]
  PROVE  Types'
<1>1. TypeOK'
  BY DEF TypeOK, FramesType, Frame, HeaderType
<1>2. (Fds \cup {NoFd})' = Fds \cup {NoFd} /\ Idle' = Idle
  BY DEF Fds, Idle
<1> QED BY <1>1, <1>2 DEF Types

\* What the type invariant says of the current state.
LEMMA TypesNow ==
  ASSUME Types
  PROVE  /\ exists \subseteq Files /\ opened \in [Files -> Fds \cup {NoFd}]
         /\ header \in [Files -> HeaderType] /\ \A g \in Files : header[g].page_count \in 1 .. MaxPageNum
         /\ FramesType(frames) /\ held \in [Handles -> SUBSET (Files \X Pages)]
         /\ live \in [Files -> SUBSET Pages]
         /\ content \in [Files -> [Pages -> Values \cup {Zero, Garbage}]]
         /\ failed \subseteq Files /\ opens \in [Files -> Nat] /\ disposes \in Nat
         /\ waiting = Idle \/ waiting \in [file : Files, tries : {0, 1}]
BY DEF Types, TypeOK, FramesType, Frame, HeaderType

LEMMA NotIdle ==
  ASSUME NEW w \in [file : Files, tries : {0, 1}]
  PROVE  w # Idle
BY PoolAssumption DEF Idle

-----------------------------------------------------------------------------
(* One lemma per operation.                                                *)

LEMMA CreateFileInv ==
  ASSUME Inv, NEW f \in Files, CreateFile(f)
  PROVE  Inv'
<1>1. Types
  BY DEF Inv
<1>2. Types'
  <2> USE DEF CreateFile
  <2> QED BY <1>1, TypesNow, TypesNext
<1> QED BY <1>2, QuietStep DEF CreateFile

LEMMA EvictLoopInv ==
  ASSUME Inv, EvictLoop
  PROVE  Inv'
<1>1. Types
  BY DEF Inv
<1>2. waiting \in [file : Files, tries : {0, 1}]
  BY <1>1, TypesNow DEF EvictLoop
<1>3. waiting' \in [file : Files, tries : {0, 1}]
  BY <1>2 DEF EvictLoop
<1>4. waiting' # Idle
  BY <1>3, NotIdle
<1>5. Types'
  BY <1>1, <1>3, TypesNow, TypesNext DEF EvictLoop
<1> QED BY <1>4, <1>5, QuietStep DEF EvictLoop

LEMMA OpenStarvedInv ==
  ASSUME Inv, NEW f \in Files, OpenStarved(f)
  PROVE  Inv'
<1>1. Types
  BY DEF Inv
<1>3. waiting' \in [file : Files, tries : {0, 1}]
  BY DEF OpenStarved
<1>4. waiting' # Idle
  BY <1>3, NotIdle
<1>5. Types'
  BY <1>1, <1>3, TypesNow, TypesNext DEF OpenStarved
<1> QED BY <1>4, <1>5, QuietStep DEF OpenStarved

\* A handle more on page q of f.
LEMMA HandleOn ==
  ASSUME Types, NEW h \in Handles, NEW f \in Files, NEW q \in Pages, <<f, q>> \notin held[h],
         held' = [held EXCEPT ![h] = @ \cup {<<f, q>>}]
  PROVE  /\ held' \in [Handles -> SUBSET (Files \X Pages)]
         /\ \A i \in Handles, g \in Files, r \in Pages :
              <<g, r>> # <<f, q>> => (<<g, r>> \in held'[i] <=> <<g, r>> \in held[i])
         /\ Cardinality(Holders(f, q)') = Cardinality(Holders(f, q)) + 1
         /\ Cardinality(Holders(f, q)) \in Nat
<1>0. held \in [Handles -> SUBSET (Files \X Pages)]
  BY TypesNow
<1>1. held' \in [Handles -> SUBSET (Files \X Pages)]
  BY <1>0
<1>2. \A i \in Handles, g \in Files, r \in Pages :
        <<g, r>> # <<f, q>> => (<<g, r>> \in held'[i] <=> <<g, r>> \in held[i])
  BY <1>0
<1>3. Holders(f, q)' = Holders(f, q) \cup {h} /\ h \notin Holders(f, q)
  BY <1>0 DEF Holders
<1>4. IsFiniteSet(Holders(f, q)) /\ Cardinality(Holders(f, q)) \in Nat
  <2>1. IsFiniteSet(Handles) /\ Holders(f, q) \subseteq Handles
    BY PoolAssumption DEF Holders
  <2> QED BY <2>1, FS_Subset, FS_CardinalityType
<1>5. Cardinality(Holders(f, q) \cup {h}) = Cardinality(Holders(f, q)) + 1
  BY <1>3, <1>4, FS_AddElement
<1> QED BY <1>1, <1>2, <1>3, <1>4, <1>5

\* A handle less.
LEMMA HandleOff ==
  ASSUME Types, NEW h \in Handles, NEW f \in Files, NEW q \in Pages, <<f, q>> \in held[h],
         held' = [held EXCEPT ![h] = @ \ {<<f, q>>}]
  PROVE  /\ held' \in [Handles -> SUBSET (Files \X Pages)]
         /\ \A i \in Handles, g \in Files, r \in Pages :
              <<g, r>> # <<f, q>> => (<<g, r>> \in held'[i] <=> <<g, r>> \in held[i])
         /\ \A i \in Handles : <<f, q>> \in held'[i] => <<f, q>> \in held[i]
         /\ Cardinality(Holders(f, q)') = Cardinality(Holders(f, q)) - 1
         /\ Cardinality(Holders(f, q)) \in Nat \ {0}
<1>0. held \in [Handles -> SUBSET (Files \X Pages)]
  BY TypesNow
<1>1. held' \in [Handles -> SUBSET (Files \X Pages)]
  BY <1>0
<1>2. /\ \A i \in Handles, g \in Files, r \in Pages :
           <<g, r>> # <<f, q>> => (<<g, r>> \in held'[i] <=> <<g, r>> \in held[i])
      /\ \A i \in Handles : <<f, q>> \in held'[i] => <<f, q>> \in held[i]
  BY <1>0
<1>3. Holders(f, q)' = Holders(f, q) \ {h} /\ h \in Holders(f, q)
  BY <1>0 DEF Holders
<1>4. IsFiniteSet(Holders(f, q)) /\ Cardinality(Holders(f, q)) \in Nat
  <2>1. IsFiniteSet(Handles) /\ Holders(f, q) \subseteq Handles
    BY PoolAssumption DEF Holders
  <2> QED BY <2>1, FS_Subset, FS_CardinalityType
<1>5. Cardinality(Holders(f, q) \ {h}) = Cardinality(Holders(f, q)) - 1
  BY <1>3, <1>4, FS_RemoveElement
<1>6. Cardinality(Holders(f, q)) # 0
  BY <1>3, <1>4, FS_EmptySet
<1> QED BY <1>1, <1>2, <1>3, <1>4, <1>5, <1>6

LEMMA OpenFacts ==
  ASSUME Inv, NEW f \in Files, opened[f] # NoFd
  PROVE  /\ opened[f] \in Fds /\ HeaderOK(f) /\ FreeOK(f) /\ HeadPinned(f) /\ OnlyLive(f)
         /\ Types /\ header[f] \in HeaderType /\ header[f].page_count \in 1 .. MaxPageNum
         /\ \A p \in live[f] : /\ p \in Pages /\ p # 0 /\ p \in header[f].bitmap /\ PageOK(f, p)
                               /\ <<opened[f], p>> \in DOMAIN frames
<1>1. Types /\ FileInv(f)
  BY DEF Inv, FilesInv
<1>2. opened[f] \in Fds /\ header[f] \in HeaderType /\ header[f].page_count \in 1 .. MaxPageNum
      /\ live[f] \subseteq Pages
  BY <1>1, TypesNow
<1>3. HeaderOK(f) /\ FreeOK(f) /\ HeadPinned(f) /\ OnlyLive(f) /\ \A p \in live[f] : PageOK(f, p)
  BY <1>1 DEF FileInv
<1>4. \A p \in live[f] : p # 0 /\ p \in header[f].bitmap
  BY <1>3 DEF HeaderOK
<1>5. \A p \in live[f] : <<opened[f], p>> \in DOMAIN frames
  BY <1>3 DEF PageOK, Cached, Key
<1> QED BY <1>1, <1>2, <1>3, <1>4, <1>5

LEMMA GetThisPageInv ==
  ASSUME Inv, NEW h \in Handles, NEW f \in Files, NEW p \in Pages, GetThisPage(h, f, p)
  PROVE  Inv'
<1> DEFINE k == <<opened[f], p>>
<1>0. opened[f] # NoFd /\ p \in live[f] /\ <<f, p>> \notin held[h]
      /\ frames' = Alloc(k) /\ held' = [held EXCEPT ![h] = @ \cup {<<f, p>>}]
  BY DEF GetThisPage, Key
<1>1. /\ opened[f] \in Fds /\ HeaderOK(f) /\ OnlyLive(f) /\ Types /\ p # 0
      /\ p \in header[f].bitmap /\ PageOK(f, p) /\ k \in DOMAIN frames
  BY <1>0, OpenFacts
<1>2. FramesType(frames) /\ k \in Fds \X Pages
  BY <1>1, TypesNow
<1>3. /\ FramesType(frames') /\ Elsewhere(frames', k) /\ k \in DOMAIN frames'
      /\ frames'[k].pin = frames[k].pin + 1 /\ frames'[k].data = frames[k].data
  BY <1>0, <1>1, <1>2, AllocFrame
<1>4. /\ held' \in [Handles -> SUBSET (Files \X Pages)]
      /\ \A i \in Handles, g \in Files, r \in Pages :
           <<g, r>> # <<f, p>> => (<<g, r>> \in held'[i] <=> <<g, r>> \in held[i])
      /\ Cardinality(Holders(f, p)') = Cardinality(Holders(f, p)) + 1
      /\ Cardinality(Holders(f, p)) \in Nat
  BY <1>0, <1>1, HandleOn
<1>5. Types'
  BY <1>1, <1>3, <1>4, TypesNow, TypesNext DEF GetThisPage
<1>6. frames[k].pin \in Nat
  BY <1>1, <1>2 DEF FramesType, Frame
<1> HIDE DEF k
<1>7. PageChange(f, p)
  BY <1>0, <1>1, <1>3, <1>4 DEF GetThisPage, PageChange, k
<1>8. PageOK(f, p)'
  <2>1. (k \in DOMAIN frames)' /\ opened' = opened /\ content' = content /\ failed' = failed
    BY <1>3 DEF GetThisPage, k
  <2>2. /\ frames[k].data = content[f][p] /\ frames[k].pin >= Cardinality(Holders(f, p))
        /\ failed = {} => frames[k].pin = Cardinality(Holders(f, p))
    BY <1>1 DEF PageOK, Key, Pin, k
  <2> QED BY <1>3, <1>4, <1>6, <2>1, <2>2 DEF PageOK, Cached, Key, Pin, k
<1>9. PageNow(f, p)'
  BY <1>0, <1>1, <1>8 DEF PageNow, GetThisPage, HeaderOK, OnlyLive
<1> QED BY <1>5, <1>7, <1>9, PageStep

LEMMA WritePageInv ==
  ASSUME Inv, NEW h \in Handles, NEW f \in Files, NEW p \in Pages, NEW v \in Values,
         WritePage(h, f, p, v)
  PROVE  Inv'
<1> DEFINE k == <<opened[f], p>>
<1>0. /\ <<f, p>> \in held[h] /\ frames' = [frames EXCEPT ![k].data = v]
      /\ content' = [content EXCEPT ![f][p] = v]
  BY DEF WritePage, Key
<1>a. opened[f] # NoFd /\ p \in live[f]
  BY <1>0 DEF Inv, HeldInv
<1>1. /\ opened[f] \in Fds /\ HeaderOK(f) /\ OnlyLive(f) /\ Types /\ p # 0
      /\ p \in header[f].bitmap /\ PageOK(f, p) /\ k \in DOMAIN frames
  BY <1>a, OpenFacts
<1>2. FramesType(frames) /\ content \in [Files -> [Pages -> Values \cup {Zero, Garbage}]]
  BY <1>1, TypesNow
<1>3. /\ FramesType(frames') /\ DOMAIN frames' = DOMAIN frames
      /\ frames'[k].pin = frames[k].pin /\ frames'[k].data = v
      /\ \A j \in DOMAIN frames : j # k => frames'[j] = frames[j]
  BY <1>0, <1>1, <1>2, SetData
<1>4. Elsewhere(frames', k)
  BY <1>3 DEF Elsewhere
<1>5. /\ content' \in [Files -> [Pages -> Values \cup {Zero, Garbage}]] /\ content'[f][p] = v
      /\ \A g \in Files \ {f} : content'[g] = content[g]
      /\ \A r \in Pages : r # p => content'[f][r] = content[f][r]
  BY <1>0, <1>2
<1>6. Types'
  BY <1>1, <1>3, <1>5, TypesNow, TypesNext DEF WritePage
<1> HIDE DEF k
<1>7. PageChange(f, p)
  BY <1>a, <1>1, <1>4, <1>5 DEF WritePage, PageChange, k
<1>8. PageOK(f, p)'
  <2>1. k \in DOMAIN frames' /\ opened' = opened /\ held' = held /\ failed' = failed
    BY <1>1, <1>3 DEF WritePage
  <2>2. /\ frames[k].pin >= Cardinality(Holders(f, p))
        /\ failed = {} => frames[k].pin = Cardinality(Holders(f, p))
    BY <1>1 DEF PageOK, Key, Pin, k
  <2>3. Holders(f, p)' = Holders(f, p)
    BY <2>1 DEF Holders
  <2> QED BY <1>3, <1>5, <2>1, <2>2, <2>3 DEF PageOK, Cached, Key, Pin, k
<1>9. PageNow(f, p)'
  BY <1>a, <1>1, <1>8 DEF PageNow, WritePage, HeaderOK, OnlyLive
<1> QED BY <1>6, <1>7, <1>9, PageStep

LEMMA UnpinPageInv ==
  ASSUME Inv, NEW h \in Handles, NEW f \in Files, NEW p \in Pages, UnpinPage(h, f, p)
  PROVE  Inv'
<1> DEFINE k == <<opened[f], p>>
<1>0. /\ <<f, p>> \in held[h] /\ frames' = [frames EXCEPT ![k].pin = @ - 1]
      /\ held' = [held EXCEPT ![h] = @ \ {<<f, p>>}]
  BY DEF UnpinPage, Key
<1>a. opened[f] # NoFd /\ p \in live[f]
  BY <1>0 DEF Inv, HeldInv
<1>1. /\ opened[f] \in Fds /\ HeaderOK(f) /\ OnlyLive(f) /\ Types /\ p # 0
      /\ p \in header[f].bitmap /\ PageOK(f, p) /\ k \in DOMAIN frames
  BY <1>a, OpenFacts
<1>2. FramesType(frames)
  BY <1>1, TypesNow
<1>3. /\ held' \in [Handles -> SUBSET (Files \X Pages)]
      /\ \A i \in Handles, g \in Files, r \in Pages :
           <<g, r>> # <<f, p>> => (<<g, r>> \in held'[i] <=> <<g, r>> \in held[i])
      /\ Cardinality(Holders(f, p)') = Cardinality(Holders(f, p)) - 1
      /\ Cardinality(Holders(f, p)) \in Nat \ {0}
  BY <1>0, <1>1, HandleOff
<1>4. frames[k].pin \in Nat
  BY <1>1, <1>2 DEF FramesType, Frame
<1>5. /\ frames[k].data = content[f][p] /\ frames[k].pin >= Cardinality(Holders(f, p))
      /\ failed = {} => frames[k].pin = Cardinality(Holders(f, p))
  BY <1>1 DEF PageOK, Key, Pin
<1>6. frames[k].pin > 0
  BY <1>3, <1>4, <1>5
<1>7. /\ FramesType(frames') /\ Elsewhere(frames', k) /\ k \in DOMAIN frames'
      /\ frames'[k].pin = frames[k].pin - 1 /\ frames'[k].data = frames[k].data
  BY <1>0, <1>1, <1>2, <1>6, SetPin
<1>8. Types'
  BY <1>1, <1>3, <1>7, TypesNow, TypesNext DEF UnpinPage
<1> HIDE DEF k
<1>9. PageChange(f, p)
  BY <1>a, <1>1, <1>3, <1>7 DEF UnpinPage, PageChange, k
<1>10. PageOK(f, p)'
  <2>1. opened' = opened /\ content' = content /\ failed' = failed
    BY DEF UnpinPage
  <2> QED BY <1>3, <1>4, <1>5, <1>7, <2>1 DEF PageOK, Cached, Key, Pin, k
<1>11. PageNow(f, p)'
  BY <1>a, <1>1, <1>10 DEF PageNow, UnpinPage, HeaderOK, OnlyLive
<1> QED BY <1>8, <1>9, <1>11, PageStep

\* The free page that allocate_page takes is in use by nobody.
LEMMA FreeFacts ==
  ASSUME Inv, NEW f \in Files, opened[f] # NoFd, HasFreePage(f)
  PROVE  LET q == LowestFree(f)
         IN /\ q \in Pages /\ q # 0 /\ q \notin header[f].bitmap /\ q < header[f].page_count
            /\ q \notin live[f] /\ <<opened[f], q>> \notin DOMAIN frames
            /\ \A h \in Handles : <<f, q>> \notin held[h]
<1> DEFINE q == LowestFree(f)
<1>1. q \in FreePages(f)
  BY LowestFreeIsFree DEF HasFreePage
<1>2. header[f].page_count \in 1 .. MaxPageNum /\ HeaderOK(f) /\ FreeOK(f) /\ MaxPageNum \in Nat
  BY OpenFacts, PoolAssumption
<1>3. q \in 0 .. header[f].page_count - 1 /\ q \notin header[f].bitmap
  BY <1>1 DEF FreePages
<1> HIDE DEF q
<1>4. q \in Pages /\ q < header[f].page_count
  BY <1>2, <1>3 DEF Pages
<1>5. q # 0 /\ q \notin live[f]
  BY <1>2, <1>3 DEF HeaderOK
<1>6. <<opened[f], q>> \notin DOMAIN frames
  BY <1>2, <1>3, <1>4 DEF FreeOK, Cached, Key
<1>7. \A h \in Handles : <<f, q>> \notin held[h]
  BY <1>4, <1>5 DEF Inv, HeldInv
<1> QED BY <1>3, <1>4, <1>5, <1>6, <1>7 DEF q

\* The header with the bit of a free page set.
LEMMA MarkedHeader ==
  ASSUME Inv, NEW f \in Files, opened[f] # NoFd, HasFreePage(f), NEW q, q = LowestFree(f),
         header' = [header EXCEPT ![f] = Mark(f, q)], UNCHANGED live
  PROVE  /\ header' \in [Files -> HeaderType] /\ \A g \in Files : header'[g].page_count \in 1 .. MaxPageNum
         /\ HeaderOK(f)' /\ q \in header'[f].bitmap
         /\ header'[f].page_count = header[f].page_count
         /\ header'[f].bitmap = header[f].bitmap \cup {q}
         /\ \A g \in Files \ {f} : header'[g] = header[g]
<1>1. q \in Pages /\ q \notin header[f].bitmap /\ q < header[f].page_count
  BY FreeFacts
<1>2. Types /\ HeaderOK(f)
  BY OpenFacts
<1>3. header \in [Files -> HeaderType] /\ \A g \in Files : header[g].page_count \in 1 .. MaxPageNum
  BY <1>2, TypesNow
<1>4. /\ Mark(f, q) \in HeaderType
      /\ Mark(f, q).page_count = header[f].page_count
      /\ Mark(f, q).allocated_pages = header[f].allocated_pages + 1
      /\ Mark(f, q).bitmap = header[f].bitmap \cup {q}
      /\ Cardinality(header[f].bitmap \cup {q}) = Cardinality(header[f].bitmap) + 1
  BY <1>1, <1>2, MarkFacts
<1>5. header' \in [Files -> HeaderType] /\ header'[f] = Mark(f, q)
      /\ \A g \in Files \ {f} : header'[g] = header[g]
  BY <1>3, <1>4
<1>6. \A g \in Files : header'[g].page_count \in 1 .. MaxPageNum
  BY <1>3, <1>4, <1>5
<1>7. HeaderOK(f)'
  <2>1. header'[f].allocated_pages = Cardinality(header'[f].bitmap)
    BY <1>2, <1>4, <1>5 DEF HeaderOK
  <2>2. header'[f].bitmap \subseteq 0 .. header'[f].page_count - 1
    <3>1. q \in 0 .. header[f].page_count - 1
      BY <1>1, <1>3, PageNumbers, PoolAssumption DEF HeaderType, Pages
    <3> QED BY <1>2, <1>4, <1>5, <3>1 DEF HeaderOK
  <2> QED BY <1>2, <1>4, <1>5, <2>1, <2>2 DEF HeaderOK
<1> QED BY <1>4, <1>5, <1>6, <1>7

LEMMA AllocateReusedInv ==
  ASSUME Inv, NEW f \in Files, AllocateReused(f)
  PROVE  Inv'
<1>q. PICK q : q = LowestFree(f)
  OBVIOUS
<1> DEFINE k == <<opened[f], q>>
<1>0. /\ opened[f] # NoFd /\ HasFreePage(f) /\ frames' = Alloc(k) /\ failed' = failed \cup {f}
      /\ header' = [header EXCEPT ![f] = Mark(f, q)] /\ UNCHANGED live
  BY <1>q DEF AllocateReused, Key
<1>1. /\ q \in Pages /\ q # 0 /\ q \notin header[f].bitmap /\ q < header[f].page_count
      /\ q \notin live[f] /\ k \notin DOMAIN frames /\ \A h \in Handles : <<f, q>> \notin held[h]
  BY <1>0, <1>q, FreeFacts
<1>2. Types /\ opened[f] \in Fds
  BY <1>0, OpenFacts
<1>3. /\ header' \in [Files -> HeaderType] /\ \A g \in Files : header'[g].page_count \in 1 .. MaxPageNum
      /\ HeaderOK(f)' /\ q \in header'[f].bitmap
      /\ header'[f].page_count = header[f].page_count
      /\ header'[f].bitmap = header[f].bitmap \cup {q}
      /\ \A g \in Files \ {f} : header'[g] = header[g]
  BY <1>0, <1>q, MarkedHeader
<1>4. FramesType(frames') /\ Elsewhere(frames', k)
  BY <1>0, <1>1, <1>2, TypesNow, AllocFrame
<1>5. Types'
  BY <1>0, <1>2, <1>3, <1>4, TypesNow, TypesNext DEF AllocateReused
<1>6. PageChange(f, q)
  BY <1>0, <1>1, <1>3, <1>4 DEF AllocateReused, PageChange
<1>7. PageNow(f, q)'
  BY <1>0, <1>1, <1>3 DEF PageNow, AllocateReused, OnlyLive
<1> QED BY <1>1, <1>5, <1>6, <1>7, PageStep

LEMMA AllocateStarvedInv ==
  ASSUME Inv, NEW f \in Files, AllocateStarved(f)
  PROVE  Inv'
<1>0. waiting' \in [file : Files, tries : {0, 1}] /\ opened[f] # NoFd
      /\ UNCHANGED <<exists, opened, frames, held, live, content, failed, opens, disposes>>
  BY DEF AllocateStarved
<1>1. waiting' # Idle
  BY <1>0, NotIdle
<1>2. Types
  BY DEF Inv
<1>3. CASE UNCHANGED header
  <2>1. Types'
    BY <1>0, <1>2, <1>3, TypesNow, TypesNext
  <2> QED BY <1>0, <1>1, <1>3, <2>1, QuietStep
<1>4. CASE HasFreePage(f) /\ header' = [header EXCEPT ![f] = Mark(f, LowestFree(f))]
  <2>q. PICK q : q = LowestFree(f)
    OBVIOUS
  <2>1. /\ q \in Pages /\ q # 0 /\ q \notin live[f] /\ \A h \in Handles : <<f, q>> \notin held[h]
    BY <1>0, <1>4, <2>q, FreeFacts
  <2>2. /\ header' \in [Files -> HeaderType] /\ \A g \in Files : header'[g].page_count \in 1 .. MaxPageNum
        /\ HeaderOK(f)' /\ q \in header'[f].bitmap
        /\ header'[f].page_count = header[f].page_count
        /\ header'[f].bitmap = header[f].bitmap \cup {q}
        /\ \A g \in Files \ {f} : header'[g] = header[g]
    BY <1>0, <1>4, <2>q, MarkedHeader
  <2>3. Types'
    BY <1>0, <1>2, <2>2, TypesNow, TypesNext
  <2>4. PageChange(f, q)
    BY <1>0, <1>1, <2>1, <2>2 DEF PageChange, Elsewhere
  <2>5. PageNow(f, q)'
    BY <1>0, <1>1, <2>1, <2>2 DEF PageNow, OnlyLive
  <2> QED BY <2>1, <2>3, <2>4, <2>5, PageStep
<1> QED BY <1>3, <1>4 DEF AllocateStarved

\* A page beyond page_count is in use by nobody; a frame that an earlier owner of
\* the descriptor left under its number is not pinned.
LEMMA NewPageFacts ==
  ASSUME Inv, NEW f \in Files, opened[f] # NoFd, NEW p, p = header[f].page_count, p < MaxPageNum
  PROVE  /\ p \in Pages /\ p # 0 /\ p \notin header[f].bitmap /\ p \notin live[f]
         /\ Holders(f, p) = {} /\ \A h \in Handles : <<f, p>> \notin held[h]
         /\ failed = {} /\ <<opened[f], p>> \in DOMAIN frames => frames[<<opened[f], p>>].pin = 0
<1>1. header[f].page_count \in 1 .. MaxPageNum /\ HeaderOK(f) /\ MaxPageNum \in Nat /\ opened[f] \in Fds
  BY OpenFacts, PoolAssumption
<1>2. p \in Pages /\ p # 0
  BY <1>1 DEF Pages
<1>3. p \notin header[f].bitmap
  <2>1. header[f].bitmap \subseteq 0 .. p - 1 /\ p \in Nat
    BY <1>1 DEF HeaderOK
  <2>2. p \notin 0 .. p - 1
    BY <2>1
  <2> QED BY <2>1, <2>2
<1>4. p \notin live[f]
  BY <1>1, <1>3 DEF HeaderOK
<1>5. \A h \in Handles : <<f, p>> \notin held[h]
  BY <1>2, <1>4 DEF Inv, HeldInv
<1>6. Holders(f, p) = {}
  BY <1>5 DEF Holders
<1>7. ASSUME failed = {}, <<opened[f], p>> \in DOMAIN frames
      PROVE  frames[<<opened[f], p>>].pin = 0
  <2>1. ~InUse(<<opened[f], p>>)
    BY <1>3 DEF Inv, FdInv, InUse
  <2> QED BY <1>7, <2>1 DEF Inv, StaleInv
<1> QED BY <1>2, <1>3, <1>4, <1>5, <1>6, <1>7

LEMMA AllocateNewInv ==
  ASSUME Inv, NEW h \in Handles, NEW f \in Files, AllocateNew(h, f)
  PROVE  Inv'
<1>p. PICK p : p = header[f].page_count
  OBVIOUS
<1> DEFINE k == <<opened[f], p>>
           m == [Mark(f, p) EXCEPT !.page_count = p + 1]
<1>0. /\ opened[f] # NoFd /\ p < MaxPageNum /\ waiting = Idle
      /\ header' = [header EXCEPT ![f] = m]
      /\ frames' = [Alloc(k) EXCEPT ![k].data = Zero]
      /\ held' = [held EXCEPT ![h] = @ \cup {<<f, p>>}]
      /\ live' = [live EXCEPT ![f] = @ \cup {p}]
      /\ content' = [content EXCEPT ![f][p] = Zero]
      /\ UNCHANGED <<exists, opened, waiting, failed, opens, disposes>>
  BY <1>p DEF AllocateNew, Key
<1>1. /\ p \in Pages /\ p # 0 /\ p \notin header[f].bitmap /\ p \notin live[f]
      /\ Holders(f, p) = {} /\ \A i \in Handles : <<f, p>> \notin held[i]
      /\ failed = {} /\ k \in DOMAIN frames => frames[k].pin = 0
  BY <1>0, <1>p, NewPageFacts
<1>2. Types /\ opened[f] \in Fds /\ HeaderOK(f) /\ OnlyLive(f) /\ k \in Fds \X Pages
  BY <1>0, <1>1, OpenFacts
<1>3. /\ header \in [Files -> HeaderType] /\ FramesType(frames)
      /\ live \in [Files -> SUBSET Pages] /\ p \in Nat /\ p >= 1
      /\ content \in [Files -> [Pages -> Values \cup {Zero, Garbage}]]
      /\ \A g \in Files : header[g].page_count \in 1 .. MaxPageNum
  BY <1>p, <1>2, TypesNow, PageNumbers, PoolAssumption
<1>4. /\ m \in HeaderType /\ m.page_count = p + 1
      /\ m.allocated_pages = header[f].allocated_pages + 1
      /\ m.bitmap = header[f].bitmap \cup {p}
      /\ Cardinality(header[f].bitmap \cup {p}) = Cardinality(header[f].bitmap) + 1
  <2>1. /\ Mark(f, p) \in HeaderType
        /\ Mark(f, p).page_count = header[f].page_count
        /\ Mark(f, p).allocated_pages = header[f].allocated_pages + 1
        /\ Mark(f, p).bitmap = header[f].bitmap \cup {p}
        /\ Cardinality(header[f].bitmap \cup {p}) = Cardinality(header[f].bitmap) + 1
    BY <1>1, <1>2, MarkFacts
  <2> QED BY <1>3, <2>1 DEF HeaderType
<1> HIDE DEF m
<1>5. /\ header' \in [Files -> HeaderType] /\ header'[f] = m
      /\ \A g \in Files \ {f} : header'[g] = header[g]
  BY <1>0, <1>3, <1>4
<1>6. \A g \in Files : header'[g].page_count \in 1 .. MaxPageNum
  <2>1. p + 1 \in 1 .. MaxPageNum
    BY <1>0, <1>3, PoolAssumption
  <2> QED BY <1>3, <1>4, <1>5, <2>1
<1>7. /\ live' \in [Files -> SUBSET Pages] /\ live'[f] = live[f] \cup {p}
      /\ \A g \in Files \ {f} : live'[g] = live[g]
  BY <1>0, <1>1, <1>3
<1>8. /\ content' \in [Files -> [Pages -> Values \cup {Zero, Garbage}]] /\ content'[f][p] = Zero
      /\ \A g \in Files \ {f} : content'[g] = content[g]
      /\ \A r \in Pages : r # p => content'[f][r] = content[f][r]
  BY <1>0, <1>1, <1>3
<1>9. /\ held' \in [Handles -> SUBSET (Files \X Pages)]
      /\ \A i \in Handles, g \in Files, r \in Pages :
           <<g, r>> # <<f, p>> => (<<g, r>> \in held'[i] <=> <<g, r>> \in held[i])
      /\ Cardinality(Holders(f, p)') = Cardinality(Holders(f, p)) + 1
  <2>1. Types /\ p \in Pages /\ <<f, p>> \notin held[h] /\ held' = [held EXCEPT ![h] = @ \cup {<<f, p>>}]
    BY <1>0, <1>1, <1>2
  <2> QED BY <2>1, HandleOn
<1>10. /\ FramesType(frames') /\ Elsewhere(frames', k) /\ k \in DOMAIN frames'
       /\ frames'[k].data = Zero /\ frames'[k].pin >= 1 /\ (failed = {} => frames'[k].pin = 1)
  <2> DEFINE a == Alloc(k)
  <2>1. /\ FramesType(a) /\ Elsewhere(a, k) /\ k \in DOMAIN a
        /\ k \in DOMAIN frames => a[k].pin = frames[k].pin + 1
        /\ k \notin DOMAIN frames => a[k].pin = 1
    BY <1>2, <1>3, AllocFrame
  <2> HIDE DEF a
  <2>2. frames' = [a EXCEPT ![k].data = Zero]
    BY <1>0 DEF a
  <2>3. /\ FramesType(frames') /\ DOMAIN frames' = DOMAIN a
        /\ frames'[k].pin = a[k].pin /\ frames'[k].data = Zero
        /\ \A j \in DOMAIN a : j # k => frames'[j] = a[j]
    BY <2>1, <2>2, SetData
  <2>4. Elsewhere(frames', k)
    BY <2>1, <2>3 DEF Elsewhere
  <2>5. k \in DOMAIN frames => frames[k].pin \in Nat
    BY <1>3 DEF FramesType, Frame
  <2> QED BY <1>1, <2>1, <2>3, <2>4, <2>5
<1>11. Types'
  BY <1>0, <1>2, <1>5, <1>6, <1>7, <1>8, <1>9, <1>10, TypesNow, TypesNext
<1> HIDE DEF k
<1>12. PageChange(f, p)
  <2>1. \A r \in Pages : r # p => (r < header'[f].page_count <=> r < header[f].page_count)
    <3>1. header'[f].page_count = p + 1 /\ Pages \subseteq Nat
      BY <1>4, <1>5, PageNumbers
    <3>2. \A r \in Nat : r # p => (r < p + 1 <=> r < p)
      BY <1>3
    <3> QED BY <1>p, <3>1, <3>2
  <2> QED BY <1>0, <1>1, <1>4, <1>5, <1>7, <1>8, <1>9, <1>10, <2>1 DEF PageChange, k
<1>13. PageOK(f, p)'
  <2>1. Cardinality(Holders(f, p)') = 1
    BY <1>1, <1>9, FS_EmptySet
  <2> QED BY <1>0, <1>8, <1>10, <2>1 DEF PageOK, Cached, Key, Pin, k
<1>14. HeaderOK(f)' /\ OnlyLive(f)'
  <2>1. header'[f].allocated_pages = Cardinality(header'[f].bitmap)
    BY <1>2, <1>4, <1>5 DEF HeaderOK
  <2>2. header'[f].bitmap \subseteq 0 .. header'[f].page_count - 1
    <3>1. header[f].bitmap \subseteq 0 .. p - 1
      BY <1>p, <1>2 DEF HeaderOK
    <3>2. 0 .. p - 1 \subseteq 0 .. p + 1 - 1 /\ p \in 0 .. p + 1 - 1
      BY <1>3
    <3> QED BY <1>4, <1>5, <3>1, <3>2
  <2>3. live'[f] \cup {0} \subseteq header'[f].bitmap /\ 0 \notin live'[f]
    BY <1>1, <1>2, <1>4, <1>5, <1>7 DEF HeaderOK
  <2>4. OnlyLive(f)'
    BY <1>0, <1>2, <1>4, <1>5, <1>7 DEF OnlyLive
  <2> QED BY <2>1, <2>2, <2>3, <2>4 DEF HeaderOK
<1>15. PageNow(f, p)'
  <2>1. p \in live'[f] /\ p \in header'[f].bitmap
    BY <1>4, <1>5, <1>7
  <2> QED BY <1>13, <1>14, <2>1 DEF PageNow
<1> QED BY <1>1, <1>11, <1>12, <1>15, PageStep

LEMMA FreeFrame ==
  ASSUME FramesType(frames), NEW k
  PROVE  FramesType(Free(k)) /\ Elsewhere(Free(k), k) /\ k \notin DOMAIN Free(k)
<1> DEFINE n == Free(k)
<1>1. DOMAIN n = DOMAIN frames \ {k} /\ \A j \in DOMAIN n : n[j] = frames[j]
  BY DEF Free
<1>2. n \in [DOMAIN n -> Frame]
  BY DEF Free, FramesType
<1> HIDE DEF n
<1>3. FramesType(n)
  BY <1>1, <1>2 DEF FramesType
<1>4. Elsewhere(n, k)
  BY <1>1 DEF Elsewhere
<1> QED BY <1>1, <1>3, <1>4 DEF n

LEMMA DisposePageInv ==
  ASSUME Inv, NEW f \in Files, NEW p \in Pages, DisposePage(f, p)
  PROVE  Inv'
<1> DEFINE k == <<opened[f], p>>
<1>0. /\ opened[f] # NoFd /\ p \in live[f] /\ waiting = Idle
      /\ \A h \in Handles : <<f, p>> \notin held[h]
      /\ frames' = Free(k)
      /\ header' = [header EXCEPT ![f].allocated_pages = @ - 1, ![f].bitmap = @ \ {p}]
      /\ live' = [live EXCEPT ![f] = @ \ {p}] /\ disposes' = disposes + 1
      /\ UNCHANGED <<exists, opened, held, waiting, content, failed, opens>>
  BY DEF DisposePage, Key
<1>1. /\ opened[f] \in Fds /\ HeaderOK(f) /\ OnlyLive(f) /\ Types /\ p # 0
      /\ p \in header[f].bitmap /\ header[f] \in HeaderType
  BY <1>0, OpenFacts
<1>2. /\ header \in [Files -> HeaderType] /\ FramesType(frames) /\ live \in [Files -> SUBSET Pages]
      /\ \A g \in Files : header[g].page_count \in 1 .. MaxPageNum /\ disposes \in Nat
  BY <1>1, TypesNow
<1>3. /\ Cardinality(header[f].bitmap \ {p}) = Cardinality(header[f].bitmap) - 1
      /\ Cardinality(header[f].bitmap) - 1 \in Nat
  <2>1. IsFiniteSet(header[f].bitmap)
    BY <1>1, PageNumbers DEF HeaderType
  <2>2. Cardinality(header[f].bitmap \ {p}) = Cardinality(header[f].bitmap) - 1
    BY <1>1, <2>1, FS_RemoveElement
  <2>3. IsFiniteSet(header[f].bitmap \ {p})
    BY <2>1, FS_RemoveElement
  <2> QED BY <2>2, <2>3, FS_CardinalityType
<1>4. /\ header'[f].page_count = header[f].page_count
      /\ header'[f].allocated_pages = header[f].allocated_pages - 1
      /\ header'[f].bitmap = header[f].bitmap \ {p}
      /\ \A g \in Files \ {f} : header'[g] = header[g]
  BY <1>0, <1>2 DEF HeaderType
<1>5. header' \in [Files -> HeaderType]
  <2>1. header[f].allocated_pages - 1 \in Nat /\ header[f].bitmap \ {p} \in SUBSET Pages
    BY <1>1, <1>3 DEF HeaderOK, HeaderType
  <2> QED BY <1>0, <1>2, <2>1 DEF HeaderType
<1>6. \A g \in Files : header'[g].page_count \in 1 .. MaxPageNum
  BY <1>2, <1>4
<1>7. /\ live' \in [Files -> SUBSET Pages] /\ live'[f] = live[f] \ {p}
      /\ \A g \in Files \ {f} : live'[g] = live[g]
  BY <1>0, <1>2
<1>8. FramesType(frames') /\ Elsewhere(frames', k) /\ k \notin DOMAIN frames'
  BY <1>0, <1>2, FreeFrame
<1>9. Types'
  <2>1. disposes' \in Nat
    BY <1>0, <1>2
  <2> QED BY <1>0, <1>1, <1>5, <1>6, <1>7, <1>8, <2>1, TypesNow, TypesNext
<1> HIDE DEF k
<1>10. PageChange(f, p)
  BY <1>0, <1>1, <1>4, <1>7, <1>8 DEF PageChange, k
<1>11. HeaderOK(f)' /\ OnlyLive(f)'
  <2>1. header'[f].allocated_pages = Cardinality(header'[f].bitmap)
    BY <1>1, <1>3, <1>4 DEF HeaderOK
  <2>2. header'[f].bitmap \subseteq 0 .. header'[f].page_count - 1
    BY <1>1, <1>4 DEF HeaderOK
  <2>3. live'[f] \cup {0} \subseteq header'[f].bitmap /\ 0 \notin live'[f]
    BY <1>1, <1>4, <1>7 DEF HeaderOK
  <2>4. OnlyLive(f)'
    BY <1>0, <1>1, <1>4, <1>7 DEF OnlyLive
  <2> QED BY <2>1, <2>2, <2>3, <2>4 DEF HeaderOK
<1>12. PageNow(f, p)'
  <2>1. p \notin live'[f] /\ <<opened'[f], p>> \notin DOMAIN frames'
    BY <1>0, <1>7, <1>8 DEF k
  <2> QED BY <1>0, <1>11, <2>1 DEF PageNow
<1> QED BY <1>9, <1>10, <1>12, PageStep

\* close_file: nobody holds a page of the file, so the frames it leaves behind
\* are not pinned, the header's neither after the unpin.
LEMMA CloseFileInv ==
  ASSUME Inv, NEW f \in Files, CloseFile(f)
  PROVE  Inv'
<1> DEFINE k == <<opened[f], 0>>
<1>0. /\ opened[f] # NoFd /\ waiting = Idle
      /\ \A h \in Handles : \A p \in Pages : <<f, p>> \notin held[h]
      /\ frames' = [frames EXCEPT ![k].pin = @ - 1] /\ opened' = [opened EXCEPT ![f] = NoFd]
      /\ UNCHANGED <<exists, header, held, waiting, live, content, failed, opens, disposes>>
  BY DEF CloseFile, Key
<1>1. /\ Types /\ HeadPinned(f) /\ OnlyLive(f) /\ opened[f] \in Fds
      /\ \A p \in live[f] : p \in Pages /\ p # 0 /\ PageOK(f, p)
  BY <1>0, OpenFacts
<1>2. /\ k \in DOMAIN frames /\ frames[k].pin >= 1 /\ (failed = {} => frames[k].pin = 1)
  BY <1>1 DEF HeadPinned, Cached, Key, Pin
<1>3. FramesType(frames) /\ opened \in [Files -> Fds \cup {NoFd}] /\ NoFd \notin Fds
  BY <1>1, TypeFacts
<1>4. frames[k].pin \in Nat
  BY <1>2, <1>3 DEF FramesType, Frame
<1>5. /\ FramesType(frames') /\ Elsewhere(frames', k) /\ k \in DOMAIN frames'
      /\ frames'[k].pin = frames[k].pin - 1
  <2>1. frames[k].pin > 0
    BY <1>2, <1>4
  <2> QED BY <1>0, <1>2, <1>3, <2>1, SetPin
<1>6. /\ opened' \in [Files -> Fds \cup {NoFd}] /\ opened'[f] = NoFd
      /\ \A g \in Files \ {f} : opened'[g] = opened[g]
  BY <1>0, <1>3
<1>7. Types'
  BY <1>0, <1>1, <1>5, <1>6, TypesNow, TypesNext
<1>8. FdInv'
  BY <1>6 DEF Inv, FdInv
<1>9. HeldInv'
  BY <1>0, <1>6 DEF Inv, HeldInv
<1>10. ASSUME NEW g \in Files PROVE FileInv(g)'
  <2>1. CASE g = f
    BY <1>6, <2>1 DEF FileInv
  <2>2. CASE g # f
    <3>1. ASSUME opened[g] # NoFd PROVE SameFile(g)
      <4>1. opened[g] # opened[f]
        BY <2>2, <3>1 DEF Inv, FdInv
      <4>2. \A p \in Pages : <<opened[g], p>> # k
        BY <4>1
      <4> QED BY <1>0, <1>5, <1>6, <2>2, <4>2 DEF SameFile, Elsewhere
    <3> QED BY <1>1, <1>6, <2>2, <3>1, FileFrame DEF Inv, FilesInv
  <2> QED BY <2>1, <2>2
<1>11. StaleInv'
  <2> SUFFICES ASSUME failed' = {}, NEW j \in DOMAIN frames', ~InUse(j)'
               PROVE  frames'[j].pin = 0
    BY DEF StaleInv
  <2>0. failed = {} /\ UNCHANGED header
    BY <1>0
  <2>1. CASE j = k
    BY <1>2, <1>4, <1>5, <2>0, <2>1
  <2>2. CASE j # k
    <3>1. j \in DOMAIN frames /\ frames'[j] = frames[j] /\ j = <<j[1], j[2]>> /\ j[2] \in Pages
      BY <1>3, <1>5, <2>2 DEF Elsewhere, FramesType
    <3>2. CASE ~InUse(j)
      BY <2>0, <3>1, <3>2 DEF Inv, StaleInv
    <3>3. CASE InUse(j)
      <4>1. PICK g \in Files : opened[g] = j[1] /\ j[2] \in header[g].bitmap
        BY <3>3 DEF InUse
      <4>2. g = f
        BY <1>6, <2>0, <4>1 DEF InUse
      <4>3. j[2] # 0 /\ j = <<opened[f], j[2]>>
        BY <2>2, <3>1, <4>1, <4>2
      <4>4. j[2] \in live[f]
        BY <1>0, <1>1, <2>0, <4>1, <4>2, <4>3 DEF OnlyLive
      <4>5. frames[j].pin = Cardinality(Holders(f, j[2]))
        BY <1>1, <2>0, <4>3, <4>4 DEF PageOK, Pin, Key
      <4>6. Holders(f, j[2]) = {}
        BY <1>0, <3>1 DEF Holders
      <4> QED BY <3>1, <4>5, <4>6, FS_EmptySet
    <3> QED BY <3>2, <3>3
  <2> QED BY <2>1, <2>2
<1> QED BY <1>7, <1>8, <1>9, <1>10, <1>11 DEF Inv, FilesInv

\* open_file: a frame left under the descriptor by its earlier owner is found
\* unpinned, and only the header page counts as allocated.
LEMMA OpenFileInv ==
  ASSUME Inv, NEW f \in Files, OpenFile(f)
  PROVE  Inv'
<1>d. PICK d : d = LowestFd
  OBVIOUS
<1> DEFINE k == <<d, 0>>
<1>0. /\ opened[f] = NoFd /\ waiting = Idle /\ opened' = [opened EXCEPT ![f] = d]
      /\ frames' = [Alloc(k) EXCEPT ![k].data = Zero]
      /\ header' = [header EXCEPT ![f] = DiskHeader] /\ live' = [live EXCEPT ![f] = {}]
      /\ opens' = [opens EXCEPT ![f] = @ + 1]
      /\ UNCHANGED <<exists, held, waiting, content, failed, disposes>>
  BY <1>d DEF OpenFile
<1>1. /\ Types /\ FdInv /\ HeldInv /\ StaleInv /\ FilesInv
  BY DEF Inv
<1>2. /\ FramesType(frames) /\ opened \in [Files -> Fds \cup {NoFd}] /\ NoFd \notin Fds
      /\ header \in [Files -> HeaderType] /\ live \in [Files -> SUBSET Pages]
      /\ \A g \in Files : header[g].page_count \in 1 .. MaxPageNum
      /\ opens \in [Files -> Nat]
  BY <1>1, TypeFacts, TypesNow
<1>3. d \in Fds /\ \A g \in Files : opened[g] # d
  BY <1>d, <1>0, <1>2, LowestFdFree
<1>4. k \in Fds \X Pages
  BY <1>3, PageNumbers
<1>5. failed = {} /\ k \in DOMAIN frames => frames[k].pin = 0
  BY <1>1, <1>3 DEF StaleInv, InUse
<1>6. /\ FramesType(frames') /\ Elsewhere(frames', k) /\ k \in DOMAIN frames'
      /\ frames'[k].pin >= 1 /\ (failed = {} => frames'[k].pin = 1)
  <2> DEFINE a == Alloc(k)
  <2>1. /\ FramesType(a) /\ Elsewhere(a, k) /\ k \in DOMAIN a
        /\ k \in DOMAIN frames => a[k].pin = frames[k].pin + 1
        /\ k \notin DOMAIN frames => a[k].pin = 1
    BY <1>2, <1>4, AllocFrame
  <2> HIDE DEF a
  <2>2. frames' = [a EXCEPT ![k].data = Zero]
    BY <1>0 DEF a
  <2>3. /\ FramesType(frames') /\ DOMAIN frames' = DOMAIN a
        /\ frames'[k].pin = a[k].pin /\ frames'[k].data = Zero
        /\ \A j \in DOMAIN a : j # k => frames'[j] = a[j]
    BY <2>1, <2>2, SetData
  <2>4. Elsewhere(frames', k)
    BY <2>1, <2>3 DEF Elsewhere
  <2>5. k \in DOMAIN frames => frames[k].pin \in Nat
    BY <1>2 DEF FramesType, Frame
  <2> QED BY <1>5, <2>1, <2>3, <2>4, <2>5
<1>7. /\ opened' \in [Files -> Fds \cup {NoFd}] /\ opened'[f] = d
      /\ \A g \in Files \ {f} : opened'[g] = opened[g]
  BY <1>0, <1>2, <1>3
<1>8. /\ header' \in [Files -> HeaderType] /\ header'[f] = DiskHeader
      /\ \A g \in Files \ {f} : header'[g] = header[g]
  <2>1. DiskHeader \in HeaderType
    BY PageNumbers DEF DiskHeader, HeaderType
  <2> QED BY <1>0, <1>2, <2>1
<1>9. \A g \in Files : header'[g].page_count \in 1 .. MaxPageNum
  BY <1>2, <1>8, PoolAssumption DEF DiskHeader
<1>10. /\ live' \in [Files -> SUBSET Pages] /\ live'[f] = {}
       /\ \A g \in Files \ {f} : live'[g] = live[g]
       /\ opens' \in [Files -> Nat]
  BY <1>0, <1>2
<1>11. Types'
  BY <1>0, <1>1, <1>6, <1>7, <1>8, <1>9, <1>10, TypesNow, TypesNext
<1>12. FdInv'
  BY <1>1, <1>3, <1>7 DEF FdInv
<1>13. HeldInv'
  BY <1>0, <1>1, <1>7, <1>10 DEF HeldInv
<1>14. StaleInv'
  <2> SUFFICES ASSUME failed' = {}, NEW j \in DOMAIN frames', ~InUse(j)'
               PROVE  frames'[j].pin = 0
    BY DEF StaleInv
  <2>1. j # k
    BY <1>7, <1>8 DEF InUse, DiskHeader
  <2>2. j \in DOMAIN frames /\ frames'[j] = frames[j] /\ j[1] \in Fds
    BY <1>2, <1>6, <2>1 DEF Elsewhere, FramesType
  <2>3. ~InUse(j)
    BY <1>0, <1>2, <1>7, <1>8, <2>2 DEF InUse
  <2> QED BY <1>0, <1>1, <2>2, <2>3 DEF StaleInv
<1>15. ASSUME NEW g \in Files, g # f PROVE FileInv(g)'
  <2>1. ASSUME opened[g] # NoFd PROVE SameFile(g)
    <3>1. \A p \in Pages : <<opened[g], p>> # k
      BY <1>3
    <3> QED BY <1>0, <1>6, <1>7, <1>8, <1>10, <1>15, <3>1 DEF SameFile, Elsewhere
  <2> QED BY <1>1, <1>7, <1>15, <2>1, FileFrame DEF FilesInv
<1>16. FileInv(f)'
  <2>0. /\ header'[f].page_count = 1 /\ header'[f].allocated_pages = 1 /\ header'[f].bitmap = {0}
    BY <1>8 DEF DiskHeader
  <2>1. HeaderOK(f)'
    <3>1. Cardinality({0}) = 1
      BY FS_Singleton
    <3>2. {0} \subseteq 0 .. 1 - 1
      OBVIOUS
    <3> QED BY <1>10, <2>0, <3>1, <3>2 DEF HeaderOK
  <2>2. FreeOK(f)'
    <3>1. \A p \in Pages : p < 1 => p = 0
      BY PageNumbers
    <3> QED BY <2>0, <3>1 DEF FreeOK
  <2>3. HeadPinned(f)'
    BY <1>0, <1>6, <1>7 DEF HeadPinned, Cached, Key, Pin
  <2>4. OnlyLive(f)'
    BY <2>0 DEF OnlyLive
  <2> QED BY <1>10, <2>1, <2>2, <2>3, <2>4 DEF FileInv
<1> QED BY <1>11, <1>12, <1>13, <1>14, <1>15, <1>16 DEF Inv, FilesInv

-----------------------------------------------------------------------------
(* The theorems.                                                           *)

LEMMA NextInv == Inv /\ [Next]_vars => Inv'
<1> SUFFICES ASSUME Inv, [Next]_vars PROVE Inv'
  OBVIOUS
<1>1. CASE UNCHANGED vars
  <2>1. Types'
    BY <1>1 DEF vars, Inv, Types, TypeOK
  <2> QED BY <1>1, <2>1, QuietStep DEF vars
<1>2. CASE EvictLoop
  BY <1>2, EvictLoopInv
<1>3. ASSUME NEW f \in Files,
             \/ CreateFile(f) \/ OpenFile(f) \/ CloseFile(f)
             \/ AllocateReused(f) \/ OpenStarved(f) \/ AllocateStarved(f)
      PROVE  Inv'
  BY <1>3, CreateFileInv, OpenFileInv, CloseFileInv, AllocateReusedInv, OpenStarvedInv,
     AllocateStarvedInv
<1>4. ASSUME NEW f \in Files, NEW h \in Handles, AllocateNew(h, f) PROVE Inv'
  BY <1>4, AllocateNewInv
<1>5. ASSUME NEW f \in Files, NEW p \in Pages, DisposePage(f, p) PROVE Inv'
  BY <1>5, DisposePageInv
<1>6. ASSUME NEW f \in Files, NEW h \in Handles, NEW p \in Pages,
             GetThisPage(h, f, p) \/ UnpinPage(h, f, p)
      PROVE  Inv'
  BY <1>6, GetThisPageInv, UnpinPageInv
<1>7. ASSUME NEW f \in Files, NEW h \in Handles, NEW p \in Pages, NEW v \in Values,
             WritePage(h, f, p, v)
      PROVE  Inv'
  BY <1>7, WritePageInv
<1> QED BY <1>1, <1>2, <1>3, <1>4, <1>5, <1>6, <1>7 DEF Next

LEMMA SpecInv == Spec => []Inv
BY InitInv, NextInv, PTL DEF Spec

\* FileHeader's counters and bitmap agree with each other and with the pages handed
\* out, and a free page is never in the pool, through every open, close, allocation,
\* failed allocation, disposal and reuse of a descriptor.
THEOREM HeadersConsistent == Spec => []PagesConsistent
<1>1. Inv => PagesConsistent
  <2> SUFFICES ASSUME Inv PROVE PagesConsistent
    OBVIOUS
  <2>1. TypeOK
    BY DEF Inv, Types
  <2>2. ASSUME NEW f \in Files, opened[f] # NoFd
        PROVE  /\ HeaderOK(f)
               /\ \A p \in FreePages(f) : ~Cached(f, p)
    <3>1. HeaderOK(f) /\ FreeOK(f) /\ header[f].page_count \in 1 .. MaxPageNum
      BY <2>2, OpenFacts
    <3>2. ASSUME NEW p \in FreePages(f) PROVE ~Cached(f, p)
      <4>1. p \in Pages /\ p < header[f].page_count /\ p \notin header[f].bitmap
        BY <3>1, <3>2, PoolAssumption DEF FreePages, Pages
      <4> QED BY <3>1, <4>1 DEF FreeOK
    <3> QED BY <3>1, <3>2
  <2> QED BY <2>1, <2>2 DEF PagesConsistent, HeaderOK
<1> QED BY <1>1, SpecInv, PTL

\* Until a reuse has failed, the pin count of a page in use is the number of handles
\* on it: no pin is lost or leaked, and a page nobody holds has a count of zero.
THEOREM PinsAreExact == Spec => []PinsExact
<1>1. Inv => PinsExact
  <2> SUFFICES ASSUME Inv, NEW f \in Files, opened[f] # NoFd, failed = {}
               PROVE  /\ Cached(f, 0) /\ frames[Key(f, 0)].pin = 1
                      /\ \A p \in live[f] : /\ Cached(f, p)
                                            /\ frames[Key(f, p)].pin = Cardinality(Holders(f, p))
    BY DEF PinsExact
  <2>1. HeadPinned(f) /\ \A p \in live[f] : PageOK(f, p)
    BY OpenFacts
  <2> QED BY <2>1 DEF HeadPinned, PageOK, Pin
<1> QED BY <1>1, SpecInv, PTL

\* A page in use is cached and holds what was last written to it, whatever file had
\* the descriptor, or the frame, before.
THEOREM WritesAreRead == Spec => []ReadsSeeWrites
<1>1. Inv => ReadsSeeWrites
  <2> SUFFICES ASSUME Inv, NEW f \in Files, opened[f] # NoFd, NEW p \in live[f]
               PROVE  Cached(f, p) /\ frames[Key(f, p)].data = content[f][p]
    BY DEF ReadsSeeWrites
  <2>1. PageOK(f, p)
    BY OpenFacts
  <2> QED BY <2>1 DEF PageOK
<1> QED BY <1>1, SpecInv, PTL

=============================================================================
