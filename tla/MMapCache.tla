----------------------------- MODULE MMapCache -----------------------------
(***************************************************************************)
(* The cache of memory mapped windows, lib/mmap/mmap-cache.c, with its     *)
(* caller journal_file_move_to() of lib/journal-file.c.                    *)
(*                                                                         *)
(* All the files of a reader, or of the daemon, share one cache.  A        *)
(* context (one for each type of object) holds at most one window, and the *)
(* pointer that the last call for a context returned is valid as long as   *)
(* the context holds that window.  A window that no context holds goes to  *)
(* the list of unused windows, from whose end windows are taken away,      *)
(* unless it was asked for with keep_always: the hash tables of a file are *)
(* used through pointers that stay until the file is closed.               *)
(*                                                                         *)
(* Offsets count bytes, PAGE of which make a page.  A file is opened with  *)
(* one protection for all its windows, so prot is left out.                *)
(***************************************************************************)
EXTENDS Integers, Sequences, SequencesExt, FiniteSets, ListOps

CONSTANTS
    Contexts,      \* the contexts callers use
    Fds,           \* the numbers of file descriptors
    PAGE,          \* page_size()
    WINDOW_SIZE,   \* the least size of a window, a multiple of PAGE
    WINDOWS_MIN,   \* windows kept before unused ones are taken again
    Requests,      \* what callers ask for: [context, offset, size, keep]
    Sizes,         \* the sizes files have and grow to
    MaxWindows,    \* bound: windows in memory
    MaxOpens,      \* bound: files opened
    MaxNoMem       \* bound: mmap() calls that fail with ENOMEM in one call

ASSUME CacheAssumption ==
    /\ 0 \notin Fds                  \* 0 is the fd of a window without file
    /\ PAGE \in Nat \ {0} /\ WINDOW_SIZE \in Nat \ {0}
    /\ WINDOW_SIZE % PAGE = 0
    /\ WINDOWS_MIN \in Nat
    /\ Requests \subseteq [context : Contexts, offset : Nat, size : Nat \ {0},
                           keep : BOOLEAN]
    /\ Sizes \subseteq Nat \ {0}
    /\ MaxWindows \in Nat /\ MaxOpens \in Nat /\ MaxNoMem \in Nat

VARIABLES
    cache,     \* struct MMapCache and what hangs on it
    file,      \* file[fd]: the file behind fd: its identity, its size, last_stat
    opened,    \* how many files were opened
    held,      \* held[c]: the region context c was last given, and where
    kept       \* kept[fd]: the regions given with keep_always since the opening

mmapVars == <<cache, file, opened, held, kept>>

\* NULL, for windows and for regions.
NoWindow == 0
Windows == 1..MaxWindows
NoFile == [id |-> 0, size |-> 0, stat |-> 0]
NoRegion == [win |-> NoWindow]

PageAlign(n) == ((n + PAGE - 1) \div PAGE) * PAGE

\* A Window; maps is the file that mmap() mapped.
Zero == [fd |-> NoWindow, offset |-> 0, size |-> 0, maps |-> 0,
         keep_always |-> FALSE, in_unused |-> FALSE, contexts |-> {}]

EmptyCache ==
    [live        |-> {},                             \* n_windows is its size
     win         |-> [w \in Windows |-> Zero],
     window      |-> [c \in Contexts |-> NoWindow],  \* Context.window
     windows     |-> [fd \in Fds |-> <<>>],          \* FileDescriptor.windows
     unused      |-> <<>>,
     last_unused |-> NoWindow,
     unmapped    |-> {}]      \* the windows whose mapping the call removed

-----------------------------------------------------------------------------
(* Windows and contexts                                                    *)

\* unused_prev of w.
UnusedPrev(m, w) ==
    LET before == {i \in 1..Len(m.unused) - 1 : m.unused[i + 1] = w}
    IN  IF before = {} THEN NoWindow ELSE m.unused[CHOOSE i \in before : TRUE]

\* window_unlink()
WindowUnlink(m, w) ==
    LET r == m.win[w] IN
    [m EXCEPT !.unmapped = @ \cup {w},
              !.windows[r.fd] = Unlinked(@, w),
              !.last_unused = IF r.in_unused /\ @ = w THEN UnusedPrev(m, w) ELSE @,
              !.unused = IF r.in_unused THEN Unlinked(@, w) ELSE @,
              !.window = [c \in Contexts |->
                            IF c \in r.contexts THEN NoWindow ELSE @[c]]]

\* window_free()
WindowFree(m, w) ==
    [WindowUnlink(m, w) EXCEPT !.live = @ \ {w}, !.win[w] = Zero]

\* window_matches()
WindowMatches(m, w, fd, reg) ==
    LET r == m.win[w] IN
    /\ r.fd = fd
    /\ reg.offset >= r.offset
    /\ reg.offset + reg.size <= r.offset + r.size

\* Does window_add() allocate a window, or take the one at the end of the list
\* of unused windows?
Allocates(m) ==
    m.last_unused = NoWindow \/ Cardinality(m.live) <= WINDOWS_MIN

WindowAdded(m) ==
    IF Allocates(m)
    THEN CHOOSE w \in Windows \ m.live : \A x \in Windows \ m.live : w <= x
    ELSE m.last_unused

\* window_add()
WindowAdd(m) ==
    IF Allocates(m)
    THEN [m EXCEPT !.live = @ \cup {WindowAdded(m)}]
    ELSE [WindowUnlink(m, m.last_unused) EXCEPT !.win[m.last_unused] = Zero]

\* context_detach_window(): a window nobody holds becomes the first unused one.
ContextDetach(m, c) ==
    LET w == m.window[c] IN
    IF w = NoWindow THEN m
    ELSE LET idle == m.win[w].contexts = {c} /\ ~m.win[w].keep_always IN
         [m EXCEPT !.window[c] = NoWindow,
                   !.win[w] = [m.win[w] EXCEPT !.contexts = @ \ {c},
                                               !.in_unused = @ \/ idle],
                   !.unused = IF idle THEN <<w>> \o @ ELSE @,
                   !.last_unused = IF idle /\ @ = NoWindow THEN w ELSE @]

\* The context takes w.
Hold(m, c, w) ==
    [m EXCEPT !.window[c] = w, !.win[w].contexts = @ \cup {c}]

\* Mutant of ContextAttach: the window stays in the list of unused windows.
ContextAttachListed(m, c, w) ==
    IF m.window[c] = w THEN m ELSE Hold(ContextDetach(m, c), c, w)

\* context_attach_window().  unused_prev is cleared before it is read, so
\* last_unused becomes NULL when w was the last unused window, whatever is
\* before it in the list.
ContextAttach(m, c, w) ==
    IF m.window[c] = w THEN m
    ELSE LET d == ContextDetach(m, c) IN
         Hold(IF d.win[w].in_unused
              THEN [d EXCEPT !.unused = Unlinked(@, w),
                             !.last_unused = IF @ = w THEN NoWindow ELSE @,
                             !.win[w].in_unused = FALSE]
              ELSE d, c, w)

\* fd_free(): the first window of the file, as long as there is one.
FdFree(m, fd) ==
    LET Freed[k \in 0..Len(m.windows[fd])] ==
          IF k = 0 THEN m
          ELSE WindowFree(Freed[k - 1], Head(Freed[k - 1].windows[fd]))
    IN  Freed[Len(m.windows[fd])]

\* make_room(): the state after up to n calls.
MakeRoom(m, n) ==
    LET Room[k \in 0..n] ==
          IF k = 0 THEN m
          ELSE IF Room[k - 1].last_unused = NoWindow THEN Room[k - 1]
          ELSE WindowFree(Room[k - 1], Room[k - 1].last_unused)
    IN  Room[n]

-----------------------------------------------------------------------------
(* mmap_cache_get()                                                        *)

\* The window add_mmap() asks for: around the region, of at least WINDOW_SIZE,
\* and not beyond the end of the file as fstat() last told it.
WindowAround(reg, st) ==
    LET woffset == (reg.offset \div PAGE) * PAGE
        wsize   == PageAlign(reg.size + (reg.offset - woffset))
        delta   == PageAlign((WINDOW_SIZE - wsize) \div 2)
        small   == wsize < WINDOW_SIZE
        start   == IF ~small THEN woffset
                   ELSE IF delta > reg.offset THEN 0 ELSE woffset - delta
        size    == IF small THEN WINDOW_SIZE ELSE wsize
    IN  [offset |-> start,
         size   |-> IF start + size > st THEN PageAlign(st - start) ELSE size]

\* The cache once context c has the mapping a of the file behind fd.
AddMmap(m, c, fd, keep, a) ==
    LET w == WindowAdded(m)
        n == [WindowAdd(m) EXCEPT
                !.win[w] = [Zero EXCEPT !.fd = fd, !.offset = a.offset,
                              !.size = a.size, !.maps = file[fd].id,
                              !.keep_always = keep],
                !.windows[fd] = <<w>> \o @]
    IN  Hold(ContextDetach(n, c), c, w)

\* What the callers hold after a call: a region whose mapping was removed
\* dangles, unless the caller's file was closed.
Dangling == [win |-> -1]

Survives(r, m) == IF r.win \in m.unmapped THEN Dangling ELSE r

\* The call returned: reg lies in window w, and context c has it.
Return(m, c, fd, reg, keep, w) ==
    LET r == [win |-> w, fd |-> fd, id |-> file[fd].id, reg |-> reg]
        n == [m EXCEPT !.win[w].keep_always = @ \/ keep]
    IN  /\ cache' = [n EXCEPT !.unmapped = {}]
        /\ held' = [x \in Contexts |-> IF x = c THEN r ELSE Survives(held[x], m)]
        /\ kept' = [x \in Fds |-> {Survives(k, m) : k \in kept[x]} \cup
                                  (IF keep /\ x = fd THEN {r} ELSE {})]

\* The call failed: context c has nothing.
ReturnError(m, c) ==
    /\ cache' = [m EXCEPT !.unmapped = {}]
    /\ held' = [x \in Contexts |-> IF x = c THEN NoRegion ELSE Survives(held[x], m)]
    /\ kept' = [x \in Fds |-> {Survives(k, m) : k \in kept[x]}]

\* try_context(): the context's own window has the region.
TryContext(m, c, fd, reg) ==
    m.window[c] # NoWindow /\ WindowMatches(m, m.window[c], fd, reg)

\* find_mmap(): the windows of the file that have it.
FindMmap(m, fd, reg) ==
    {i \in DOMAIN m.windows[fd] : WindowMatches(m, m.windows[fd][i], fd, reg)}

\* mmap_cache_get()
Get(c, fd, reg, keep, st) ==
    \/ /\ TryContext(cache, c, fd, reg)
       /\ Return(cache, c, fd, reg, keep, cache.window[c])
    \/ LET m    == ContextDetach(cache, c)
           hits == FindMmap(m, fd, reg)
       IN  /\ ~TryContext(cache, c, fd, reg)
           /\ \/ /\ hits # {}
                 /\ LET w == m.windows[fd][CHOOSE i \in hits :
                                             \A j \in hits : i <= j]
                    IN  Return(ContextAttach(m, c, w), c, fd, reg, keep, w)
              \/ \E k \in 0..MaxNoMem :     \* mmap() fails k times, then works
                    LET r == MakeRoom(m, k) IN
                    /\ hits = {}
                    /\ Cardinality(m.live) - Cardinality(r.live) = k
                    /\ Allocates(r) => r.live # Windows
                    /\ Return(AddMmap(r, c, fd, keep, WindowAround(reg, st)),
                              c, fd, reg, keep, WindowAdded(r))
              \/ \E k \in 1..MaxNoMem :     \* until there is no room to make
                    LET r == MakeRoom(m, k) IN
                    /\ hits = {}
                    /\ Cardinality(m.live) - Cardinality(r.live) = k - 1
                    /\ ReturnError(r, c)
              \/ /\ hits = {}               \* another error, of mmap() or malloc()
                 /\ ReturnError(m, c)

-----------------------------------------------------------------------------
(* The caller                                                              *)

\* journal_file_open(): a new file behind a free descriptor.
Open(fd) ==
    /\ file[fd] = NoFile
    /\ opened < MaxOpens
    /\ \E s \in Sizes :
          file' = [file EXCEPT ![fd] = [id |-> opened + 1, size |-> s, stat |-> s]]
    /\ opened' = opened + 1
    /\ UNCHANGED <<cache, held, kept>>

\* The file's writer, this process or another, makes it larger.
Grow(fd) ==
    /\ file[fd] # NoFile
    /\ \E s \in Sizes :
          /\ s > file[fd].size
          /\ file' = [file EXCEPT ![fd].size = s]
    /\ UNCHANGED <<cache, opened, held, kept>>

\* last_stat after the check of journal_file_move_to().
Refreshed(fd, reg) ==
    IF reg.offset + reg.size > file[fd].stat THEN file[fd].size ELSE file[fd].stat

Region(q) == [offset |-> q.offset, size |-> q.size]

\* journal_file_move_to()
MoveTo(c, fd, reg, keep) ==
    LET st == Refreshed(fd, reg) IN
    /\ file[fd] # NoFile
    /\ file' = [file EXCEPT ![fd].stat = st]
    /\ UNCHANGED opened
    /\ IF reg.offset + reg.size > st
       THEN UNCHANGED <<cache, held, kept>>
       ELSE Get(c, fd, reg, keep, st)

\* Mutant of Close: close() without mmap_cache_close_fd().
CloseOnly(fd) ==
    /\ file[fd] # NoFile
    /\ held' = [c \in Contexts |->
                  IF held[c] # NoRegion /\ held[c].fd = fd THEN NoRegion ELSE held[c]]
    /\ kept' = [kept EXCEPT ![fd] = {}]
    /\ file' = [file EXCEPT ![fd] = NoFile]
    /\ UNCHANGED <<cache, opened>>

\* journal_file_close(): mmap_cache_close_fd(), then close().  The holders of
\* the file's regions have let them go.
Close(fd) ==
    LET m == FdFree(cache, fd) IN
    /\ file[fd] # NoFile
    /\ cache' = [m EXCEPT !.unmapped = {}]
    /\ held' = [c \in Contexts |->
                  IF held[c] # NoRegion /\ held[c].fd = fd THEN NoRegion
                  ELSE Survives(held[c], m)]
    /\ kept' = [x \in Fds |-> IF x = fd THEN {} ELSE {Survives(k, m) : k \in kept[x]}]
    /\ file' = [file EXCEPT ![fd] = NoFile]
    /\ UNCHANGED opened

MMapInit ==
    /\ cache = EmptyCache
    /\ file = [fd \in Fds |-> NoFile]
    /\ opened = 0
    /\ held = [c \in Contexts |-> NoRegion]
    /\ kept = [fd \in Fds |-> {}]

MMapNext ==
    \E fd \in Fds :
       \/ Open(fd)
       \/ Grow(fd)
       \/ Close(fd)
       \/ \E q \in Requests : MoveTo(q.context, fd, Region(q), q.keep)

MMapSpec == MMapInit /\ [][MMapNext]_mmapVars

-----------------------------------------------------------------------------
(* Properties                                                              *)

MMapTypeOK ==
    /\ cache.live \subseteq Windows
    /\ cache.win \in [Windows -> [fd : Fds \cup {NoWindow}, offset : Nat, size : Nat,
                                  maps : 0..MaxOpens, keep_always : BOOLEAN,
                                  in_unused : BOOLEAN, contexts : SUBSET Contexts]]
    /\ cache.window \in [Contexts -> Windows \cup {NoWindow}]
    /\ cache.windows \in [Fds -> Seq(Windows)]
    /\ cache.unused \in Seq(Windows)
    /\ cache.last_unused \in Windows \cup {NoWindow}
    /\ cache.unmapped = {}
    /\ opened \in 0..MaxOpens
    /\ file \in [Fds -> [id : 0..MaxOpens, size : Nat, stat : Nat]]

\* The hand-made lists agree with each other: a context and its window name each
\* other, each file lists its windows once, the unused windows are exactly those
\* without context and without keep_always, and last_unused is one of them
\* (window_unlink(), context_attach_window(), context_detach_window(), add_mmap()).
ListsAgree ==
    /\ MMapTypeOK
    /\ \A w \in cache.live : cache.win[w].contexts = {c \in Contexts : cache.window[c] = w}
    /\ \A c \in Contexts : cache.window[c] \in cache.live \cup {NoWindow}
    /\ IsInjective(cache.unused)
    /\ \A fd \in Fds : /\ IsInjective(cache.windows[fd])
                       /\ ToSet(cache.windows[fd]) = {w \in cache.live : cache.win[w].fd = fd}
    /\ ToSet(cache.unused) = {w \in cache.live : cache.win[w].in_unused}
    /\ \A w \in cache.live :
          cache.win[w].in_unused <=> /\ cache.win[w].contexts = {}
                                     /\ ~cache.win[w].keep_always
    /\ cache.last_unused \in ToSet(cache.unused) \cup {NoWindow}

\* No call removes a mapping somebody still uses: the region of another context,
\* or one that was asked for with keep_always, even when windows are taken again
\* or room is made after mmap() failed (window_add(), make_room()).
NothingDangles ==
    /\ \A c \in Contexts : held[c] # Dangling
    /\ \A fd \in Fds : Dangling \notin kept[fd]

\* No region a caller holds goes away; it lies in its window, the window maps the
\* file that is behind the descriptor now, and no byte of the region is beyond
\* the end of the file, where an access raises SIGBUS (mmap_cache_get(), journal_file_move_to(),
\* the order of mmap_cache_close_fd() and close()).
RegionsBacked ==
    /\ NothingDangles
    /\ \A r \in {held[c] : c \in Contexts} \cup UNION {kept[fd] : fd \in Fds} :
         r.win \in Windows =>
           LET w == cache.win[r.win] IN
           /\ w.fd = r.fd
           /\ w.maps = file[r.fd].id
           /\ w.offset <= r.reg.offset
           /\ r.reg.offset + r.reg.size <= w.offset + w.size
           /\ r.reg.offset + r.reg.size <= file[r.fd].size
=============================================================================
