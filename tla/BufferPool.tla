----------------------------- MODULE BufferPool -----------------------------
(***************************************************************************)
(* BufferPoolManager, FileBufferPool and FrameManager: files with a header *)
(* page that counts and maps their pages, and one pool of frames shared by *)
(* all files, keyed by file descriptor and page number.                    *)
(*                                                                         *)
(* flush_page_internal, evict_page, evict_all_pages, evict_frames and      *)
(* BufferPoolManager::flush_page have no body in this code: nothing but    *)
(* the header page that create_file writes ever reaches the disk, a frame  *)
(* leaves the pool only through dispose_page, and closing a file leaves    *)
(* its frames behind under a descriptor the next open will reuse.  The     *)
(* dirty flag, which only those functions would read, is left out.         *)
(*                                                                         *)
(* Handles are the page handlers of the record manager and the B+ tree:    *)
(* each pins a page, may overwrite it, and unpins it.  The server runs one *)
(* statement at a time, so an operation is one step.                       *)
(***************************************************************************)
EXTENDS Integers, FiniteSets

CONSTANTS Files, Handles, Values,
          Zero,        \* a page of zero bytes
          Garbage,     \* what a recycled frame happens to hold
          NoFd,        \* no descriptor (-1), no file
          NumFrames,   \* frames in the memory pool
          MaxPageNum,  \* FileHeader::MAX_PAGE_NUM
          MaxOpens,    \* bound: opens of each file
          MaxDisposes  \* bound: pages disposed

ASSUME PoolAssumption ==
    /\ IsFiniteSet(Files) /\ IsFiniteSet(Handles)
    /\ NumFrames \in Nat \ {0} /\ MaxPageNum \in Nat \ {0}
    /\ MaxOpens \in Nat /\ MaxDisposes \in Nat
    /\ Zero \notin Values /\ Garbage \notin Values /\ Zero # Garbage
    /\ NoFd \notin Nat /\ NoFd \notin Files

VARIABLES exists,   \* files create_file has made
          opened,   \* the descriptor of each open file
          header,   \* FileHeader of each open file
          frames,   \* FrameManager::frames_: <<fd, page>> -> pin count and data
          held,     \* the pages each handle has pinned
          waiting,  \* an allocate_frame that found no frame, or none
          live,     \* pages handed out since the file was opened
          content,  \* what was last written to each page of each file
          failed,   \* files on which allocate_page of a free page has failed
          opens, disposes

vars == <<exists, opened, header, frames, held, waiting, live, content, failed,
          opens, disposes>>

Pages == 0 .. MaxPageNum - 1
Fds == 1 .. Cardinality(Files)
Idle == [file |-> NoFd, tries |-> 0]

\* What create_file writes and open_file reads back, for want of a flush.
DiskHeader == [page_count |-> 1, allocated_pages |-> 1, bitmap |-> {0}]

Key(f, p) == <<opened[f], p>>
Cached(f, p) == Key(f, p) \in DOMAIN frames

\* open(2) returns the lowest descriptor not in use.
LowestFd == CHOOSE d \in Fds : /\ \A f \in Files : opened[f] # d
                               /\ \A e \in Fds : e < d => \E f \in Files : opened[f] = e

Init ==
    /\ exists = {} /\ opened = [f \in Files |-> NoFd]
    /\ header = [f \in Files |-> DiskHeader]
    /\ frames = [k \in {} |-> {}]
    /\ held = [h \in Handles |-> {}]
    /\ waiting = Idle
    /\ live = [f \in Files |-> {}]
    /\ content = [f \in Files |-> [p \in Pages |-> Zero]]
    /\ failed = {}
    /\ opens = [f \in Files |-> 0] /\ disposes = 0

-----------------------------------------------------------------------------
(* FrameManager                                                            *)

HasRoom(k) == k \in DOMAIN frames \/ Cardinality(DOMAIN frames) < NumFrames

\* alloc: a cached frame with one more pin, or a frame from the memory pool.
Alloc(k) ==
    [j \in DOMAIN frames \cup {k} |->
        IF j # k THEN frames[j]
        ELSE IF k \in DOMAIN frames THEN [frames[k] EXCEPT !.pin = @ + 1]
        ELSE [pin |-> 1, data |-> Garbage]]

\* free: unpin, forget the key and give the frame back to the memory pool.
Free(k) == [j \in DOMAIN frames \ {k} |-> frames[j]]

-----------------------------------------------------------------------------
(* BufferPoolManager: files                                                *)

CreateFile(f) ==
    /\ waiting = Idle /\ f \notin exists
    /\ exists' = exists \cup {f}
    /\ UNCHANGED <<opened, header, frames, held, waiting, live, content, failed,
                   opens, disposes>>

\* open_file: the header frame is allocated, pinned and loaded.
OpenFile(f) ==
    /\ waiting = Idle /\ f \in exists /\ opened[f] = NoFd /\ opens[f] < MaxOpens
    /\ HasRoom(<<LowestFd, 0>>)
    /\ opened' = [opened EXCEPT ![f] = LowestFd]
    /\ frames' = [Alloc(<<LowestFd, 0>>) EXCEPT ![<<LowestFd, 0>>].data = Zero]
    /\ header' = [header EXCEPT ![f] = DiskHeader]
    /\ live' = [live EXCEPT ![f] = {}]
    /\ opens' = [opens EXCEPT ![f] = @ + 1]
    /\ UNCHANGED <<exists, held, waiting, content, failed, disposes>>

\* close_file, once its users have unpinned their pages.
CloseFile(f) ==
    /\ waiting = Idle /\ opened[f] # NoFd
    /\ \A h \in Handles : \A p \in Pages : <<f, p>> \notin held[h]
    /\ frames' = [frames EXCEPT ![Key(f, 0)].pin = @ - 1]
    /\ opened' = [opened EXCEPT ![f] = NoFd]
    /\ UNCHANGED <<exists, header, held, waiting, live, content, failed, opens,
                   disposes>>

-----------------------------------------------------------------------------
(* FileBufferPool: pages                                                   *)

\* The lowest page whose bit is clear, when the counters say there is one.
FreePages(f) == {p \in 0 .. header[f].page_count - 1 : p \notin header[f].bitmap}
HasFreePage(f) == header[f].allocated_pages < header[f].page_count /\ FreePages(f) # {}
LowestFree(f) == CHOOSE p \in FreePages(f) : \A q \in FreePages(f) : p <= q

Mark(f, p) == [header[f] EXCEPT !.allocated_pages = @ + 1, !.bitmap = @ \cup {p}]

\* allocate_page of a page that was disposed: its bit is set, then get_this_page
\* finds no frame (PagesConsistent) and reads it from beyond the end of the
\* file: IOERR_READ.  The bit stays set and the frame in the pool with its pin.
AllocateReused(f) ==
    /\ waiting = Idle /\ opened[f] # NoFd /\ HasFreePage(f)
    /\ HasRoom(Key(f, LowestFree(f)))
    /\ header' = [header EXCEPT ![f] = Mark(f, LowestFree(f))]
    /\ frames' = Alloc(Key(f, LowestFree(f)))
    /\ failed' = failed \cup {f}
    /\ UNCHANGED <<exists, opened, held, waiting, live, content, opens, disposes>>

\* Mutant of AllocateNew: the frame is not cleared.
AllocateNew_NoClear(h, f) ==
    /\ waiting = Idle /\ opened[f] # NoFd /\ ~HasFreePage(f)
    /\ header[f].page_count < MaxPageNum
    /\ LET p == header[f].page_count IN
        /\ HasRoom(Key(f, p))
        /\ header' = [header EXCEPT ![f] = [Mark(f, p) EXCEPT !.page_count = p + 1]]
        /\ frames' = Alloc(Key(f, p))
        /\ held' = [held EXCEPT ![h] = @ \cup {<<f, p>>}]
        /\ live' = [live EXCEPT ![f] = @ \cup {p}]
        /\ content' = [content EXCEPT ![f][p] = Zero]
    /\ UNCHANGED <<exists, opened, waiting, failed, opens, disposes>>

\* allocate_page at the end of the file.
AllocateNew(h, f) ==
    /\ waiting = Idle /\ opened[f] # NoFd /\ ~HasFreePage(f)
    /\ header[f].page_count < MaxPageNum
    /\ LET p == header[f].page_count IN
        /\ HasRoom(Key(f, p))
        /\ header' = [header EXCEPT ![f] = [Mark(f, p) EXCEPT !.page_count = p + 1]]
        /\ frames' = [Alloc(Key(f, p)) EXCEPT ![Key(f, p)].data = Zero]
        /\ held' = [held EXCEPT ![h] = @ \cup {<<f, p>>}]
        /\ live' = [live EXCEPT ![f] = @ \cup {p}]
        /\ content' = [content EXCEPT ![f][p] = Zero]
    /\ UNCHANGED <<exists, opened, waiting, failed, opens, disposes>>

\* allocate_frame with every frame of the memory pool in frames_, for the header
\* of a file being opened ...
OpenStarved(f) ==
    /\ waiting = Idle /\ f \in exists /\ opened[f] = NoFd /\ opens[f] < MaxOpens
    /\ ~HasRoom(<<LowestFd, 0>>)
    /\ waiting' = [file |-> f, tries |-> 0]
    /\ UNCHANGED <<exists, opened, header, frames, held, live, content, failed,
                   opens, disposes>>

\* ... or for a page: the bit of a free page is already set by then.
AllocateStarved(f) ==
    /\ waiting = Idle /\ opened[f] # NoFd
    /\ \/ /\ HasFreePage(f) /\ ~HasRoom(Key(f, LowestFree(f)))
          /\ header' = [header EXCEPT ![f] = Mark(f, LowestFree(f))]
       \/ /\ ~HasFreePage(f) /\ header[f].page_count < MaxPageNum
          /\ ~HasRoom(Key(f, header[f].page_count))
          /\ UNCHANGED header
    /\ waiting' = [file |-> f, tries |-> 0]
    /\ UNCHANGED <<exists, opened, frames, held, live, content, failed, opens,
                   disposes>>

\* evict_frames returns 0, alloc returns nullptr: once more around the loop.
EvictLoop ==
    /\ waiting # Idle
    /\ waiting' = [waiting EXCEPT !.tries = 1 - @]
    /\ UNCHANGED <<exists, opened, header, frames, held, live, content, failed,
                   opens, disposes>>

\* Mutant of GetThisPage: a cached frame is returned without a pin.
GetThisPage_NoPin(h, f, p) ==
    /\ waiting = Idle /\ opened[f] # NoFd /\ p \in live[f]
    /\ <<f, p>> \notin held[h]
    /\ Cached(f, p)
    /\ held' = [held EXCEPT ![h] = @ \cup {<<f, p>>}]
    /\ UNCHANGED <<exists, opened, header, frames, waiting, live, content, failed,
                   opens, disposes>>

\* get_this_page of a page its caller was given earlier: always cached.
GetThisPage(h, f, p) ==
    /\ waiting = Idle /\ opened[f] # NoFd /\ p \in live[f]
    /\ <<f, p>> \notin held[h]
    /\ Cached(f, p)
    /\ frames' = Alloc(Key(f, p))
    /\ held' = [held EXCEPT ![h] = @ \cup {<<f, p>>}]
    /\ UNCHANGED <<exists, opened, header, waiting, live, content, failed, opens,
                   disposes>>

\* The holder of a page writes to Frame::data().
WritePage(h, f, p, v) ==
    /\ waiting = Idle /\ <<f, p>> \in held[h]
    /\ frames' = [frames EXCEPT ![Key(f, p)].data = v]
    /\ content' = [content EXCEPT ![f][p] = v]
    /\ UNCHANGED <<exists, opened, header, held, waiting, live, failed, opens,
                   disposes>>

UnpinPage(h, f, p) ==
    /\ waiting = Idle /\ <<f, p>> \in held[h]
    /\ frames' = [frames EXCEPT ![Key(f, p)].pin = @ - 1]
    /\ held' = [held EXCEPT ![h] = @ \ {<<f, p>>}]
    /\ UNCHANGED <<exists, opened, header, waiting, live, content, failed, opens,
                   disposes>>

\* Mutant of DisposePage: the frame is unpinned but not freed.
DisposePage_KeepsFrame(f, p) ==
    /\ waiting = Idle /\ disposes < MaxDisposes /\ opened[f] # NoFd /\ p \in live[f]
    /\ \A h \in Handles : <<f, p>> \notin held[h]
    /\ Cached(f, p)
    /\ header' = [header EXCEPT ![f].allocated_pages = @ - 1, ![f].bitmap = @ \ {p}]
    /\ live' = [live EXCEPT ![f] = @ \ {p}]
    /\ disposes' = disposes + 1
    /\ UNCHANGED <<exists, opened, frames, held, waiting, content, failed, opens>>

\* dispose_page by the owner of p, after everybody unpinned it.
DisposePage(f, p) ==
    /\ waiting = Idle /\ disposes < MaxDisposes /\ opened[f] # NoFd /\ p \in live[f]
    /\ \A h \in Handles : <<f, p>> \notin held[h]
    /\ Cached(f, p)
    /\ frames' = Free(Key(f, p))
    /\ header' = [header EXCEPT ![f].allocated_pages = @ - 1, ![f].bitmap = @ \ {p}]
    /\ live' = [live EXCEPT ![f] = @ \ {p}]
    /\ disposes' = disposes + 1
    /\ UNCHANGED <<exists, opened, held, waiting, content, failed, opens>>

Next ==
    \/ \E f \in Files :
        \/ CreateFile(f) \/ OpenFile(f) \/ CloseFile(f)
        \/ AllocateReused(f) \/ OpenStarved(f) \/ AllocateStarved(f)
        \/ \E h \in Handles : AllocateNew(h, f)
        \/ \E p \in Pages : DisposePage(f, p)
        \/ \E h \in Handles, p \in Pages :
            \/ GetThisPage(h, f, p) \/ UnpinPage(h, f, p)
            \/ \E v \in Values : WritePage(h, f, p, v)
    \/ EvictLoop

Spec == Init /\ [][Next]_vars

-----------------------------------------------------------------------------
(* Properties.                                                             *)

Holders(f, p) == {h \in Handles : <<f, p>> \in held[h]}

\* Every variable keeps its type; pin counts never go below zero.
TypeOK ==
    /\ exists \subseteq Files
    /\ opened \in [Files -> Fds \cup {NoFd}]
    /\ header \in [Files -> [page_count : Nat, allocated_pages : Nat, bitmap : SUBSET Pages]]
    /\ DOMAIN frames \subseteq Fds \X Pages
    /\ frames \in [DOMAIN frames -> [pin : Nat, data : Values \cup {Zero, Garbage}]]
    /\ held \in [Handles -> SUBSET (Files \X Pages)]
    /\ live \in [Files -> SUBSET Pages]
    /\ content \in [Files -> [Pages -> Values \cup {Zero, Garbage}]]
    /\ failed \subseteq Files
    /\ opens \in [Files -> Nat] /\ disposes \in Nat

\* FileHeader agrees with itself through allocate_page and dispose_page:
\* allocated_pages is the number of bits set, none of them at or above page_count,
\* and the header page and every page handed out and not disposed have theirs set.
\* Neither dispose_page nor a closed file whose descriptor is used again leaves a
\* frame behind: a free page is never in the pool, so reusing one cannot return the
\* bytes of its previous life.
PagesConsistent ==
  /\ TypeOK
  /\ \A f \in Files : opened[f] # NoFd =>
        /\ header[f].allocated_pages = Cardinality(header[f].bitmap)
        /\ header[f].bitmap \subseteq 0 .. header[f].page_count - 1
        /\ live[f] \cup {0} \subseteq header[f].bitmap
        /\ \A p \in FreePages(f) : ~Cached(f, p)

\* Every page in use is cached and its pin count is exactly the number of
\* handles on it: dispose_page finds a count of one after its own get, as the
\* ASSERT in free_internal demands, and a frame in use can never be evicted.  The
\* pin that a failed reuse leaks is the exception.
PinsExact ==
    \A f \in Files : opened[f] # NoFd /\ failed = {} =>
        /\ Cached(f, 0) /\ frames[Key(f, 0)].pin = 1
        /\ \A p \in live[f] : Cached(f, p) /\ frames[Key(f, p)].pin = Cardinality(Holders(f, p))

\* What a handle reads is what was last written to that page of that file, even
\* when the descriptor and its cached frames belonged to another file before.
ReadsSeeWrites ==
    \A f \in Files : opened[f] # NoFd =>
        \A p \in live[f] : Cached(f, p) /\ frames[Key(f, p)].data = content[f][p]

=============================================================================
