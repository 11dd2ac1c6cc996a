-------------------------- MODULE MMapCacheProofs ---------------------------
(***************************************************************************)
(* Proofs about the cache of windows, for any number of contexts, files    *)
(* and windows, any requests, and any failures of mmap().                  *)
(***************************************************************************)
EXTENDS MMapCache, Recursion, FiniteSetTheorems, TLAPS

-----------------------------------------------------------------------------
(* The invariant                                                           *)

Win == [fd : Fds \cup {NoWindow}, offset : Nat, size : Nat, maps : 0..MaxOpens,
        keep_always : BOOLEAN, in_unused : BOOLEAN, contexts : SUBSET Contexts]

Cache == [live : SUBSET Windows, win : [Windows -> Win],
          window : [Contexts -> Windows \cup {NoWindow}],
          windows : [Fds -> Seq(Windows)],
          unused : Seq(Windows), last_unused : Windows \cup {NoWindow},
          unmapped : SUBSET Windows]

\* A context and its window name each other.
Paired(m) ==
    /\ \A w \in m.live : m.win[w].contexts = {c \in Contexts : m.window[c] = w}
    /\ \A c \in Contexts : m.window[c] \in m.live \cup {NoWindow}

\* Each file lists its windows.
Filed(m) ==
    \A fd \in Fds : Lists(m.windows[fd], {w \in m.live : m.win[w].fd = fd})

\* The unused windows are those nobody needs; a window of X is being set up.
Parked(m, X) ==
    /\ Lists(m.unused, {w \in m.live : m.win[w].in_unused})
    /\ \A w \in m.live \ X : /\ m.win[w].fd \in Fds
                             /\ m.win[w].in_unused <=> /\ m.win[w].contexts = {}
                                                       /\ ~m.win[w].keep_always
    /\ m.last_unused \in ToSet(m.unused) \cup {NoWindow}

Agree(m, X) == Paired(m) /\ Filed(m) /\ Parked(m, X)

\* Every window maps the file its descriptor stands for.
Mapped(m, f) ==
    \A w \in m.live : m.win[w].fd \in Fds =>
       f[m.win[w].fd] # NoFile /\ m.win[w].maps = f[m.win[w].fd].id

Given == [win : Windows, fd : Fds, id : 0..MaxOpens, reg : [offset : Nat, size : Nat]]

\* The region r lies in its window and in its file.
Backed(r, m, f) ==
    /\ r \in Given
    /\ r.win \in m.live
    /\ m.win[r.win].fd = r.fd
    /\ m.win[r.win].offset <= r.reg.offset
    /\ r.reg.offset + r.reg.size <= m.win[r.win].offset + m.win[r.win].size
    /\ r.reg.offset + r.reg.size <= f[r.fd].size

\* What contexts hold is in the window they hold, and what was given with
\* keep_always is in a window that is kept.
HeldBacked(h, m, f) ==
    \A c \in Contexts :
       h[c] = NoRegion \/ (Backed(h[c], m, f) /\ m.window[c] = h[c].win)

KeptBacked(k, m, f) ==
    \A fd \in Fds : \A r \in k[fd] :
       Backed(r, m, f) /\ r.fd = fd /\ m.win[r.win].keep_always

FilesOK ==
    /\ opened \in 0..MaxOpens
    /\ file \in [Fds -> [id : 0..MaxOpens, size : Nat, stat : Nat]]
    /\ \A fd \in Fds : /\ file[fd].stat <= file[fd].size
                       /\ file[fd] # NoFile => file[fd].size # 0

MMapInv ==
    /\ cache \in Cache /\ cache.unmapped = {} /\ Agree(cache, {})
    /\ FilesOK /\ Mapped(cache, file)
    /\ DOMAIN held = Contexts /\ HeldBacked(held, cache, file)
    /\ DOMAIN kept = Fds /\ KeptBacked(kept, cache, file)

-----------------------------------------------------------------------------
(* A window goes                                                           *)

\* The parts of the cache have their types.
LEMMA CacheTypes ==
    ASSUME NEW m \in Cache
    PROVE  /\ m.live \subseteq Windows /\ m.win \in [Windows -> Win]
           /\ m.window \in [Contexts -> Windows \cup {NoWindow}]
           /\ m.windows \in [Fds -> Seq(Windows)]
           /\ m.unused \in Seq(Windows) /\ m.last_unused \in Windows \cup {NoWindow}
           /\ m.unmapped \subseteq Windows
BY DEF Cache

\* The fields of a window have their types.
LEMMA WinTypes ==
    ASSUME NEW m \in Cache, NEW w \in Windows
    PROVE  /\ m.win[w] \in Win /\ m.win[w].fd \in Fds \cup {NoWindow}
           /\ m.win[w].offset \in Nat /\ m.win[w].size \in Nat
           /\ m.win[w].keep_always \in BOOLEAN /\ m.win[w].in_unused \in BOOLEAN
           /\ m.win[w].contexts \subseteq Contexts
<1>1. m.win[w] \in Win
  BY CacheTypes
<1> QED
  BY <1>1 DEF Win

\* A window that was zeroed is a window, and is none of the marks.
LEMMA ZeroWindow ==
    /\ Zero \in Win /\ Zero.fd \notin Fds /\ Zero.in_unused = FALSE
    /\ Zero.contexts = {} /\ NoWindow \notin Windows
BY CacheAssumption DEF Zero, Win, NoWindow, Windows

\* The fields of the cache n, in which the window w of m is no longer used: its
\* record is cleared, and it is free or about to be used again.
Retired(m, n, w) ==
    /\ n \in Cache
    /\ n.live \in {m.live, m.live \ {w}}
    /\ n.win = [m.win EXCEPT ![w] = Zero]
    /\ n.windows = [m.windows EXCEPT ![m.win[w].fd] = Unlinked(@, w)]
    /\ n.unused = IF m.win[w].in_unused THEN Unlinked(m.unused, w) ELSE m.unused
    /\ n.last_unused = IF m.win[w].in_unused /\ m.last_unused = w
                       THEN UnusedPrev(m, w) ELSE m.last_unused
    /\ n.window = [c \in Contexts |->
                     IF c \in m.win[w].contexts THEN NoWindow ELSE m.window[c]]
    /\ n.unmapped = m.unmapped \cup {w}

\* What is before w in the list of unused windows.
LEMMA UnusedPrevListed ==
    ASSUME NEW m \in Cache, Agree(m, {}), NEW w
    PROVE  UnusedPrev(m, w) \in (ToSet(m.unused) \ {w}) \cup {NoWindow}
<1> DEFINE before == {i \in 1..Len(m.unused) - 1 : m.unused[i + 1] = w}
<1>1. CASE before = {}
  BY <1>1 DEF UnusedPrev
<1>2. CASE before # {}
  <2>1. PICK i \in before : UnusedPrev(m, w) = m.unused[i]
    BY <1>2 DEF UnusedPrev
  <2>2. i \in DOMAIN m.unused /\ i + 1 \in DOMAIN m.unused /\ i # i + 1
    BY <2>1, CacheTypes
  <2>3. m.unused[i] # m.unused[i + 1]
    BY <2>2 DEF Agree, Parked, Lists, IsInjective
  <2> QED
    BY <2>1, <2>2, <2>3 DEF ToSet
<1> QED
  BY <1>1, <1>2

\* The windows a cache with agreeing lists knows.
LEMMA ListedWindows ==
    ASSUME NEW m \in Cache, Agree(m, {}), NEW w \in m.live
    PROVE  /\ w \in Windows /\ m.win[w].fd \in Fds
           /\ Lists(m.windows[m.win[w].fd], {v \in m.live : m.win[v].fd = m.win[w].fd})
           /\ Lists(m.unused, {v \in m.live : m.win[v].in_unused})
           /\ m.win[w].contexts = {c \in Contexts : m.window[c] = w}
BY CacheTypes DEF Agree, Parked, Filed, Paired

\* The parts of the cache without a window have their types.
LEMMA RetiredTypes ==
    ASSUME NEW m \in Cache, Agree(m, {}), NEW w \in m.live
    PROVE  /\ [m.win EXCEPT ![w] = Zero] \in [Windows -> Win]
           /\ [m.windows EXCEPT ![m.win[w].fd] = Unlinked(@, w)] \in [Fds -> Seq(Windows)]
           /\ (IF m.win[w].in_unused THEN Unlinked(m.unused, w) ELSE m.unused)
                \in Seq(Windows)
           /\ (IF m.win[w].in_unused /\ m.last_unused = w
               THEN UnusedPrev(m, w) ELSE m.last_unused) \in Windows \cup {NoWindow}
           /\ [c \in Contexts |-> IF c \in m.win[w].contexts THEN NoWindow ELSE m.window[c]]
                \in [Contexts -> Windows \cup {NoWindow}]
           /\ m.unmapped \cup {w} \subseteq Windows
<1>1. /\ w \in Windows /\ m.win[w].fd \in Fds
      /\ Lists(m.windows[m.win[w].fd], {v \in m.live : m.win[v].fd = m.win[w].fd})
      /\ Lists(m.unused, {v \in m.live : m.win[v].in_unused})
  BY ListedWindows
<1>2. /\ m.live \subseteq Windows /\ m.win \in [Windows -> Win]
      /\ m.window \in [Contexts -> Windows \cup {NoWindow}]
      /\ m.windows \in [Fds -> Seq(Windows)]
      /\ m.unused \in Seq(Windows) /\ m.last_unused \in Windows \cup {NoWindow}
      /\ m.unmapped \subseteq Windows
  BY CacheTypes
<1>3. [m.win EXCEPT ![w] = Zero] \in [Windows -> Win]
  BY <1>1, <1>2, ZeroWindow
<1>4. m.windows[m.win[w].fd] \in Seq(Windows)
  BY <1>1, <1>2
<1>5. Unlinked(m.windows[m.win[w].fd], w) \in Seq(Windows)
  BY <1>1, <1>4, UnlinkedLists
<1>6. ASSUME m.win[w].in_unused PROVE Unlinked(m.unused, w) \in Seq(Windows)
  <2>1. w \in {v \in m.live : m.win[v].in_unused}
    BY <1>6
  <2> QED
    BY <1>1, <1>2, <2>1, UnlinkedLists
<1>7. UnusedPrev(m, w) \in Windows \cup {NoWindow}
  <2>1. ToSet(m.unused) \subseteq Windows
    BY <1>1, <1>2 DEF Lists
  <2> QED
    BY <2>1, UnusedPrevListed
<1> QED
  BY <1>1, <1>2, <1>3, <1>5, <1>6, <1>7

\* What window_unlink() changes.
LEMMA UnlinkFields ==
    ASSUME NEW m \in Cache, Agree(m, {}), NEW w \in m.live
    PROVE  LET u == WindowUnlink(m, w) IN
           /\ u \in Cache
           /\ u.live = m.live /\ u.win = m.win
           /\ u.windows = [m.windows EXCEPT ![m.win[w].fd] = Unlinked(@, w)]
           /\ u.unused = IF m.win[w].in_unused THEN Unlinked(m.unused, w) ELSE m.unused
           /\ u.last_unused = IF m.win[w].in_unused /\ m.last_unused = w
                              THEN UnusedPrev(m, w) ELSE m.last_unused
           /\ u.window = [c \in Contexts |->
                            IF c \in m.win[w].contexts THEN NoWindow ELSE m.window[c]]
           /\ u.unmapped = m.unmapped \cup {w}
<1>1. PICK ws : ws = [m.windows EXCEPT ![m.win[w].fd] = Unlinked(@, w)]
  OBVIOUS
<1>2. PICK un : un = IF m.win[w].in_unused THEN Unlinked(m.unused, w) ELSE m.unused
  OBVIOUS
<1>3. PICK lu : lu = IF m.win[w].in_unused /\ m.last_unused = w
                     THEN UnusedPrev(m, w) ELSE m.last_unused
  OBVIOUS
<1>4. PICK wi : wi = [c \in Contexts |->
                        IF c \in m.win[w].contexts THEN NoWindow ELSE m.window[c]]
  OBVIOUS
<1>5. WindowUnlink(m, w) = [m EXCEPT !.unmapped = m.unmapped \cup {w},
                                     !.windows = ws, !.last_unused = lu,
                                     !.unused = un, !.window = wi]
  BY <1>1, <1>2, <1>3, <1>4 DEF WindowUnlink, Cache
<1>6. /\ ws \in [Fds -> Seq(Windows)] /\ un \in Seq(Windows)
      /\ lu \in Windows \cup {NoWindow} /\ wi \in [Contexts -> Windows \cup {NoWindow}]
      /\ m.unmapped \cup {w} \subseteq Windows
  BY <1>1, <1>2, <1>3, <1>4, RetiredTypes
<1>7. PICK u : u = WindowUnlink(m, w)
  OBVIOUS
<1>8. /\ u \in Cache /\ u.live = m.live /\ u.win = m.win /\ u.windows = ws
      /\ u.unused = un /\ u.last_unused = lu /\ u.window = wi
      /\ u.unmapped = m.unmapped \cup {w}
  BY <1>5, <1>6, <1>7 DEF Cache
<1> QED
  BY <1>1, <1>2, <1>3, <1>4, <1>7, <1>8

\* window_free(), and window_add() where it takes a window again.
LEMMA FreeRetires ==
    ASSUME NEW m \in Cache, Agree(m, {}), NEW w \in m.live
    PROVE  /\ Retired(m, WindowFree(m, w), w)
           /\ WindowFree(m, w).live = m.live \ {w}
           /\ Retired(m, [WindowUnlink(m, w) EXCEPT !.win[w] = Zero], w)
           /\ [WindowUnlink(m, w) EXCEPT !.win[w] = Zero].live = m.live
<1>1. PICK u : u = WindowUnlink(m, w)
  OBVIOUS
<1>2. /\ u \in Cache
      /\ u.live = m.live /\ u.win = m.win
      /\ u.windows = [m.windows EXCEPT ![m.win[w].fd] = Unlinked(@, w)]
      /\ u.unused = IF m.win[w].in_unused THEN Unlinked(m.unused, w) ELSE m.unused
      /\ u.last_unused = IF m.win[w].in_unused /\ m.last_unused = w
                         THEN UnusedPrev(m, w) ELSE m.last_unused
      /\ u.window = [c \in Contexts |->
                       IF c \in m.win[w].contexts THEN NoWindow ELSE m.window[c]]
      /\ u.unmapped = m.unmapped \cup {w}
  BY <1>1, UnlinkFields
<1>3. PICK z : z = [m.win EXCEPT ![w] = Zero] /\ z \in [Windows -> Win]
  BY RetiredTypes
<1>4. m.live \subseteq Windows
  BY CacheTypes
<1>5. PICK n : n = WindowFree(m, w)
  OBVIOUS
<1>6. n = [u EXCEPT !.live = m.live \ {w}, !.win = z]
  BY <1>1, <1>2, <1>3, <1>5 DEF WindowFree, Cache
<1>7. /\ n \in Cache /\ n.live = m.live \ {w} /\ n.win = z /\ n.windows = u.windows
      /\ n.unused = u.unused /\ n.last_unused = u.last_unused /\ n.window = u.window
      /\ n.unmapped = u.unmapped
  BY <1>2, <1>3, <1>4, <1>6 DEF Cache
<1>8. PICK r : r = [u EXCEPT !.win[w] = Zero]
  OBVIOUS
<1>9. r = [u EXCEPT !.win = z]
  BY <1>2, <1>3, <1>8 DEF Cache
<1>10. /\ r \in Cache /\ r.live = m.live /\ r.win = z /\ r.windows = u.windows
       /\ r.unused = u.unused /\ r.last_unused = u.last_unused /\ r.window = u.window
       /\ r.unmapped = u.unmapped
  BY <1>2, <1>3, <1>9 DEF Cache
<1>11. Retired(m, n, w)
  BY <1>2, <1>3, <1>7 DEF Retired
<1>12. Retired(m, r, w)
  BY <1>2, <1>3, <1>10 DEF Retired
<1> QED
  BY <1>1, <1>5, <1>7, <1>8, <1>10, <1>11, <1>12

\* The lists still agree, but for the window that is taken again.
LEMMA RetiredAgrees ==
    ASSUME NEW m \in Cache, Agree(m, {}), NEW w \in m.live, NEW n, Retired(m, n, w)
    PROVE  /\ Agree(n, {w})
           /\ w \notin n.live => Agree(n, {})
           /\ \A v \in n.live \ {w} : v \in m.live /\ n.win[v] = m.win[v]
           /\ n.win[w] = Zero
<1>1. /\ w \in Windows /\ m.win[w].fd \in Fds
      /\ Lists(m.windows[m.win[w].fd], {v \in m.live : m.win[v].fd = m.win[w].fd})
      /\ Lists(m.unused, {v \in m.live : m.win[v].in_unused})
      /\ m.win[w].contexts = {c \in Contexts : m.window[c] = w}
  BY ListedWindows
<1>2. /\ m.live \subseteq Windows /\ m.win \in [Windows -> Win]
      /\ m.window \in [Contexts -> Windows \cup {NoWindow}]
      /\ m.windows \in [Fds -> Seq(Windows)]
      /\ m.unused \in Seq(Windows)
  BY CacheTypes
<1>3. /\ n.live \in {m.live, m.live \ {w}}
      /\ n.win = [m.win EXCEPT ![w] = Zero]
      /\ n.windows = [m.windows EXCEPT ![m.win[w].fd] = Unlinked(@, w)]
      /\ n.window = [c \in Contexts |->
                       IF c \in m.win[w].contexts THEN NoWindow ELSE m.window[c]]
  BY DEF Retired
<1>4. \A v \in n.live \ {w} : v \in m.live /\ n.win[v] = m.win[v]
  BY <1>2, <1>3
<1>5. n.win[w] = Zero
  BY <1>1, <1>2, <1>3
<1>6. Paired(n)
  <2>1. ASSUME NEW v \in n.live
        PROVE  n.win[v].contexts = {c \in Contexts : n.window[c] = v}
    <3>1. v \in Windows /\ v # NoWindow
      BY <1>2, <1>3, ZeroWindow
    <3>2. CASE v = w
      <4>1. {c \in Contexts : n.window[c] = v} = {}
        BY <1>1, <1>3, <3>1, <3>2
      <4> QED
        BY <1>5, <3>2, <4>1, ZeroWindow
    <3>3. CASE v # w
      <4>1. n.win[v].contexts = {c \in Contexts : m.window[c] = v}
        BY <1>4, <3>3 DEF Agree, Paired
      <4>2. \A c \in Contexts : n.window[c] = v <=> m.window[c] = v
        BY <1>1, <1>3, <3>1, <3>3
      <4> QED
        BY <4>1, <4>2
    <3> QED
      BY <3>2, <3>3
  <2>2. ASSUME NEW c \in Contexts PROVE n.window[c] \in n.live \cup {NoWindow}
    <3>1. m.window[c] \in m.live \cup {NoWindow}
      BY DEF Agree, Paired
    <3>2. CASE m.window[c] = w
      BY <1>1, <1>3, <3>2
    <3>3. CASE m.window[c] # w
      <4>1. n.window[c] = m.window[c]
        BY <1>1, <1>3, <3>3
      <4> QED
        BY <1>3, <3>1, <3>3, <4>1
    <3> QED
      BY <3>2, <3>3
  <2> QED
    BY <2>1, <2>2 DEF Paired
<1>7. Filed(n)
  <2> SUFFICES ASSUME NEW fd \in Fds
               PROVE  Lists(n.windows[fd], {v \in n.live : n.win[v].fd = fd})
    BY DEF Filed
  <2>1. {v \in n.live : n.win[v].fd = fd} = {v \in m.live : m.win[v].fd = fd} \ {w}
    <3>1. n.win[w].fd # fd
      BY <1>5, ZeroWindow
    <3>2. n.live \ {w} = m.live \ {w}
      BY <1>3
    <3> QED
      BY <1>4, <3>1, <3>2
  <2>2. Lists(m.windows[fd], {v \in m.live : m.win[v].fd = fd})
    BY DEF Agree, Filed
  <2>3. CASE fd = m.win[w].fd
    <3>1. w \in {v \in m.live : m.win[v].fd = fd}
      BY <2>3
    <3>2. m.windows[fd] \in Seq(Windows)
      BY <1>2
    <3>3. n.windows[fd] = Unlinked(m.windows[fd], w)
      BY <1>2, <1>3, <2>3
    <3> QED
      BY <2>1, <2>2, <3>1, <3>2, <3>3, UnlinkedLists
  <2>4. CASE fd # m.win[w].fd
    <3>1. n.windows[fd] = m.windows[fd]
      BY <1>2, <1>3, <2>4
    <3>2. {v \in m.live : m.win[v].fd = fd} \ {w} = {v \in m.live : m.win[v].fd = fd}
      BY <2>4
    <3> QED
      BY <2>1, <2>2, <3>1, <3>2
  <2> QED
    BY <2>3, <2>4
<1>8. Parked(n, {w})
  <2>1. PICK S : S = {v \in m.live : m.win[v].in_unused}
    OBVIOUS
  <2>2. {v \in n.live : n.win[v].in_unused} = S \ {w}
    <3>1. ~n.win[w].in_unused
      BY <1>5, ZeroWindow
    <3>2. n.live \ {w} = m.live \ {w}
      BY <1>3
    <3> QED
      BY <1>4, <2>1, <3>1, <3>2
  <2>3. /\ n.unused = IF m.win[w].in_unused THEN Unlinked(m.unused, w) ELSE m.unused
        /\ n.last_unused = IF m.win[w].in_unused /\ m.last_unused = w
                           THEN UnusedPrev(m, w) ELSE m.last_unused
    BY DEF Retired
  <2>4. Lists(n.unused, S \ {w})
    <3>1. CASE m.win[w].in_unused
      <4>1. w \in S /\ n.unused = Unlinked(m.unused, w)
        BY <2>1, <2>3, <3>1
      <4>2. m.unused \in Seq(Windows) /\ Lists(m.unused, S)
        BY <1>1, <1>2, <2>1
      <4> QED
        BY <4>1, <4>2, UnlinkedLists
    <3>2. CASE ~m.win[w].in_unused
      <4>1. S \ {w} = S /\ n.unused = m.unused
        BY <2>1, <2>3, <3>2
      <4> QED
        BY <1>1, <2>1, <4>1
    <3> QED
      BY <3>1, <3>2
  <2>5. n.last_unused \in (S \ {w}) \cup {NoWindow}
    <3>1. ToSet(m.unused) = S /\ m.last_unused \in S \cup {NoWindow}
      BY <2>1 DEF Agree, Parked, Lists
    <3>2. CASE m.win[w].in_unused /\ m.last_unused = w
      BY <2>3, <3>1, <3>2, UnusedPrevListed
    <3>3. CASE ~(m.win[w].in_unused /\ m.last_unused = w)
      <4>1. m.last_unused # w
        BY <2>1, <3>1, <3>3, <1>1, ZeroWindow
      <4> QED
        BY <2>3, <3>1, <3>3, <4>1
    <3> QED
      BY <3>2, <3>3
  <2>6. \A v \in n.live \ {w} : /\ n.win[v].fd \in Fds
                                /\ n.win[v].in_unused <=> /\ n.win[v].contexts = {}
                                                          /\ ~n.win[v].keep_always
    BY <1>4 DEF Agree, Parked
  <2>7. ToSet(n.unused) = S \ {w}
    BY <2>4 DEF Lists
  <2> QED
    BY <2>2, <2>4, <2>5, <2>6, <2>7 DEF Parked
<1>9. Agree(n, {w})
  BY <1>6, <1>7, <1>8 DEF Agree
<1>10. ASSUME w \notin n.live PROVE Agree(n, {})
  <2>1. n.live \ {} = n.live \ {w}
    BY <1>10
  <2> QED
    BY <1>9, <2>1 DEF Agree, Parked
<1> QED
  BY <1>4, <1>5, <1>9, <1>10

-----------------------------------------------------------------------------
(* Contexts take windows and leave them                                    *)

\* The windows of n map what those of m do.
SameMapping(m, n) ==
    /\ n.live = m.live /\ n.unmapped = m.unmapped
    /\ \A w \in Windows : /\ n.win[w].fd = m.win[w].fd
                          /\ n.win[w].offset = m.win[w].offset
                          /\ n.win[w].size = m.win[w].size
                          /\ n.win[w].maps = m.win[w].maps
                          /\ n.win[w].keep_always = m.win[w].keep_always

\* context_detach_window()
LEMMA DetachAgrees ==
    ASSUME NEW m \in Cache, Agree(m, {}), NEW c \in Contexts
    PROVE  LET n == ContextDetach(m, c) IN
           /\ n \in Cache /\ Agree(n, {}) /\ SameMapping(m, n)
           /\ n.window = [m.window EXCEPT ![c] = NoWindow]
<1>0. PICK n : n = ContextDetach(m, c)
  OBVIOUS
<1>1. /\ m.live \subseteq Windows /\ m.win \in [Windows -> Win]
      /\ m.window \in [Contexts -> Windows \cup {NoWindow}]
      /\ m.windows \in [Fds -> Seq(Windows)]
      /\ m.unused \in Seq(Windows) /\ m.last_unused \in Windows \cup {NoWindow}
  BY CacheTypes
<1>2. CASE m.window[c] = NoWindow
  <2>1. n = m
    BY <1>0, <1>2 DEF ContextDetach
  <2>2. m.window = [m.window EXCEPT ![c] = NoWindow]
    BY <1>1, <1>2
  <2> QED
    BY <1>0, <2>1, <2>2 DEF SameMapping
<1>3. CASE m.window[c] # NoWindow
  <2>1. PICK w : w = m.window[c]
    OBVIOUS
  <2>2. /\ w \in m.live /\ w \in Windows /\ m.win[w].fd \in Fds
        /\ m.win[w].contexts = {x \in Contexts : m.window[x] = w}
        /\ c \in m.win[w].contexts /\ ~m.win[w].in_unused
    <3>1. w \in m.live
      BY <1>3, <2>1 DEF Agree, Paired
    <3>2. /\ w \in Windows /\ m.win[w].fd \in Fds
          /\ m.win[w].contexts = {x \in Contexts : m.window[x] = w}
      BY <3>1, ListedWindows
    <3>3. c \in m.win[w].contexts
      BY <2>1, <3>2
    <3> QED
      BY <3>1, <3>2, <3>3 DEF Agree, Parked
  <2>3. PICK idle \in BOOLEAN : idle = (m.win[w].contexts = {c} /\ ~m.win[w].keep_always)
    OBVIOUS
  <2>4. PICK v : v = [m.win[w] EXCEPT !.contexts = @ \ {c}, !.in_unused = @ \/ idle]
    OBVIOUS
  <2>5. /\ v \in Win /\ v.contexts = m.win[w].contexts \ {c} /\ v.in_unused = idle
        /\ v.fd = m.win[w].fd /\ v.offset = m.win[w].offset /\ v.size = m.win[w].size
        /\ v.maps = m.win[w].maps /\ v.keep_always = m.win[w].keep_always
    <3>1. m.win[w] \in Win
      BY <2>2, WinTypes
    <3>2. (m.win[w].in_unused \/ idle) = idle
      BY <2>2
    <3> QED
      BY <2>4, <3>1, <3>2 DEF Win
  <2>6. PICK un : un = IF idle THEN <<w>> \o m.unused ELSE m.unused
    OBVIOUS
  <2>7. PICK lu : lu = IF idle /\ m.last_unused = NoWindow THEN w ELSE m.last_unused
    OBVIOUS
  <2>8. n = [m EXCEPT !.window = [m.window EXCEPT ![c] = NoWindow],
                      !.win = [m.win EXCEPT ![w] = v], !.unused = un, !.last_unused = lu]
    <3>1. n = [m EXCEPT !.window[c] = NoWindow,
                        !.win[w] = v,
                        !.unused = IF idle THEN <<w>> \o @ ELSE @,
                        !.last_unused = IF idle /\ @ = NoWindow THEN w ELSE @]
      BY <1>0, <1>3, <2>1, <2>3, <2>4 DEF ContextDetach
    <3> QED
      BY <1>1, <2>2, <2>6, <2>7, <3>1 DEF Cache
  <2>9. /\ Lists(un, {x \in m.live : [m.win EXCEPT ![w] = v][x].in_unused})
        /\ un \in Seq(Windows)
    <3>1. PICK S : S = {x \in m.live : m.win[x].in_unused}
      OBVIOUS
    <3>2. Lists(m.unused, S) /\ w \notin S
      BY <2>2, <3>1 DEF Agree, Parked
    <3>3. {x \in m.live : [m.win EXCEPT ![w] = v][x].in_unused}
            = IF idle THEN S \cup {w} ELSE S
      BY <1>1, <2>2, <2>5, <3>1
    <3>4. CASE idle
      BY <1>1, <2>2, <2>6, <3>2, <3>3, <3>4, LinkedLists, SMTT(20)
    <3>5. CASE ~idle
      BY <1>1, <2>6, <3>2, <3>3, <3>5
    <3> QED
      BY <3>4, <3>5
  <2>10. lu \in ToSet(un) \cup {NoWindow} /\ lu \in Windows \cup {NoWindow}
    <3>1. m.last_unused \in ToSet(m.unused) \cup {NoWindow}
      BY DEF Agree, Parked
    <3>2. CASE idle
      <4>1. Lists(<<w>> \o m.unused, ToSet(m.unused) \cup {w})
        <5>1. Lists(m.unused, ToSet(m.unused)) /\ w \notin ToSet(m.unused)
          BY <2>2 DEF Agree, Parked, Lists
        <5> QED
          BY <1>1, <2>2, <5>1, LinkedLists
      <4>2. ToSet(un) = ToSet(m.unused) \cup {w}
        BY <2>6, <3>2, <4>1 DEF Lists
      <4> QED
        BY <1>1, <2>2, <2>7, <3>1, <4>2
    <3>3. CASE ~idle
      BY <1>1, <2>6, <2>7, <3>1, <3>3
    <3> QED
      BY <3>2, <3>3
  <2>11. /\ n \in Cache /\ n.live = m.live /\ n.unmapped = m.unmapped
         /\ n.windows = m.windows /\ n.unused = un /\ n.last_unused = lu
         /\ n.window = [m.window EXCEPT ![c] = NoWindow]
         /\ n.win = [m.win EXCEPT ![w] = v]
    <3>1. /\ [m.window EXCEPT ![c] = NoWindow] \in [Contexts -> Windows \cup {NoWindow}]
          /\ [m.win EXCEPT ![w] = v] \in [Windows -> Win]
      BY <1>1, <2>2, <2>5
    <3> QED
      BY <2>8, <2>9, <2>10, <3>1 DEF Cache
  <2>12. n.win[w] = v /\ \A x \in Windows : x # w => n.win[x] = m.win[x]
    BY <1>1, <2>2, <2>11
  <2>13. SameMapping(m, n)
    BY <2>2, <2>5, <2>11, <2>12 DEF SameMapping
  <2>14. Paired(n)
    <3>1. ASSUME NEW x \in n.live
          PROVE  n.win[x].contexts = {y \in Contexts : n.window[y] = x}
      <4>0. x \in m.live /\ x \in Windows /\ x # NoWindow
        BY <1>1, <2>11, ZeroWindow
      <4>1. CASE x = w
        BY <1>1, <2>2, <2>5, <2>11, <2>12, <4>0, <4>1
      <4>2. CASE x # w
        <5>1. n.win[x].contexts = {y \in Contexts : m.window[y] = x}
          BY <2>12, <4>0, <4>2 DEF Agree, Paired
        <5>2. \A y \in Contexts : n.window[y] = x <=> m.window[y] = x
          BY <1>1, <2>1, <2>11, <4>0, <4>2
        <5> QED
          BY <5>1, <5>2
      <4> QED
        BY <4>1, <4>2
    <3>2. \A y \in Contexts : n.window[y] \in n.live \cup {NoWindow}
      BY <1>1, <2>11 DEF Agree, Paired
    <3> QED
      BY <3>1, <3>2 DEF Paired
  <2>15. Filed(n)
    <3>1. \A fd \in Fds : {x \in n.live : n.win[x].fd = fd} = {x \in m.live : m.win[x].fd = fd}
      BY <1>1, <2>13 DEF SameMapping
    <3> QED
      BY <2>11, <3>1 DEF Agree, Filed
  <2>16. Parked(n, {})
    <3>1. \A x \in n.live : /\ n.win[x].fd \in Fds
                            /\ n.win[x].in_unused <=> /\ n.win[x].contexts = {}
                                                      /\ ~n.win[x].keep_always
      <4>1. ASSUME NEW x \in n.live
            PROVE  /\ n.win[x].fd \in Fds
                   /\ n.win[x].in_unused <=> /\ n.win[x].contexts = {}
                                             /\ ~n.win[x].keep_always
        <5>1. CASE x = w
          <6>1. v.contexts = {} <=> m.win[w].contexts = {c}
            BY <2>2, <2>5
          <6> QED
            BY <2>2, <2>3, <2>5, <2>12, <5>1, <6>1
        <5>2. CASE x # w
          <6>1. x \in m.live /\ n.win[x] = m.win[x]
            BY <1>1, <2>11, <2>12, <5>2
          <6> QED
            BY <6>1 DEF Agree, Parked
        <5> QED
          BY <5>1, <5>2
      <4> QED
        BY <4>1
    <3> QED
      BY <2>9, <2>10, <2>11, <3>1 DEF Parked
  <2> QED
    BY <1>0, <2>11, <2>13, <2>14, <2>15, <2>16 DEF Agree
<1> QED
  BY <1>2, <1>3

\* A context takes a window that is not in the list of unused windows.
LEMMA HoldAgrees ==
    ASSUME NEW m \in Cache, NEW w \in m.live, Agree(m, {w}), m.win[w].fd \in Fds,
           ~m.win[w].in_unused, NEW c \in Contexts, m.window[c] = NoWindow
    PROVE  LET n == Hold(m, c, w) IN
           /\ n \in Cache /\ Agree(n, {}) /\ SameMapping(m, n)
           /\ n.window = [m.window EXCEPT ![c] = w]
<1>0. PICK n : n = Hold(m, c, w)
  OBVIOUS
<1>1. /\ m.live \subseteq Windows /\ m.win \in [Windows -> Win]
      /\ m.window \in [Contexts -> Windows \cup {NoWindow}]
      /\ w \in Windows /\ w # NoWindow
  BY CacheTypes, ZeroWindow
<1>2. PICK v : v = [m.win[w] EXCEPT !.contexts = @ \cup {c}]
  OBVIOUS
<1>3. /\ v \in Win /\ v.contexts = m.win[w].contexts \cup {c} /\ ~v.in_unused
      /\ v.fd = m.win[w].fd /\ v.offset = m.win[w].offset /\ v.size = m.win[w].size
      /\ v.maps = m.win[w].maps /\ v.keep_always = m.win[w].keep_always
  <2>1. m.win[w] \in Win
    BY <1>1
  <2> QED
    BY <1>2, <2>1 DEF Win
<1>4. n = [m EXCEPT !.window = [m.window EXCEPT ![c] = w],
                    !.win = [m.win EXCEPT ![w] = v]]
  BY <1>0, <1>1, <1>2 DEF Hold, Cache
<1>5. /\ n \in Cache /\ n.live = m.live /\ n.unmapped = m.unmapped
      /\ n.windows = m.windows /\ n.unused = m.unused /\ n.last_unused = m.last_unused
      /\ n.window = [m.window EXCEPT ![c] = w] /\ n.win = [m.win EXCEPT ![w] = v]
  <2>1. /\ [m.window EXCEPT ![c] = w] \in [Contexts -> Windows \cup {NoWindow}]
        /\ [m.win EXCEPT ![w] = v] \in [Windows -> Win]
    BY <1>1, <1>3
  <2> QED
    BY <1>4, <2>1 DEF Cache
<1>6. n.win[w] = v /\ \A x \in Windows : x # w => n.win[x] = m.win[x]
  BY <1>1, <1>5
<1>7. SameMapping(m, n)
  BY <1>1, <1>3, <1>5, <1>6 DEF SameMapping
<1>8. Paired(n)
  <2>1. ASSUME NEW x \in n.live
        PROVE  n.win[x].contexts = {y \in Contexts : n.window[y] = x}
    <3>1. /\ x \in m.live /\ x \in Windows /\ x # NoWindow
          /\ m.win[x].contexts = {y \in Contexts : m.window[y] = x}
      BY <1>1, <1>5, ZeroWindow DEF Agree, Paired
    <3>2. CASE x = w
      BY <1>1, <1>3, <1>5, <1>6, <3>1, <3>2
    <3>3. CASE x # w
      BY <1>1, <1>5, <1>6, <3>1, <3>3
    <3> QED
      BY <3>2, <3>3
  <2>2. \A y \in Contexts : n.window[y] \in n.live \cup {NoWindow}
    BY <1>1, <1>5 DEF Agree, Paired
  <2> QED
    BY <2>1, <2>2 DEF Paired
<1>9. Filed(n)
  <2>1. \A fd \in Fds : {x \in n.live : n.win[x].fd = fd} = {x \in m.live : m.win[x].fd = fd}
    BY <1>1, <1>7 DEF SameMapping
  <2> QED
    BY <1>5, <2>1 DEF Agree, Filed
<1>10. Parked(n, {})
  <2>1. {x \in n.live : n.win[x].in_unused} = {x \in m.live : m.win[x].in_unused}
    BY <1>1, <1>3, <1>5, <1>6
  <2>2. ASSUME NEW x \in n.live
        PROVE  /\ n.win[x].fd \in Fds
               /\ n.win[x].in_unused <=> /\ n.win[x].contexts = {}
                                         /\ ~n.win[x].keep_always
    <3>1. CASE x = w
      BY <1>3, <1>6, <3>1
    <3>2. CASE x # w
      <4>1. x \in m.live \ {w} /\ n.win[x] = m.win[x]
        BY <1>1, <1>5, <1>6, <3>2
      <4> QED
        BY <4>1 DEF Agree, Parked
    <3> QED
      BY <3>1, <3>2
  <2> QED
    BY <1>5, <2>1, <2>2 DEF Agree, Parked
<1> QED
  BY <1>0, <1>5, <1>7, <1>8, <1>9, <1>10 DEF Agree

\* context_attach_window(), of a context without window.
LEMMA AttachAgrees ==
    ASSUME NEW m \in Cache, Agree(m, {}), NEW w \in m.live,
           NEW c \in Contexts, m.window[c] = NoWindow
    PROVE  LET n == ContextAttach(m, c, w) IN
           /\ n \in Cache /\ Agree(n, {}) /\ SameMapping(m, n)
           /\ n.window = [m.window EXCEPT ![c] = w]
<1>1. /\ m.live \subseteq Windows /\ m.win \in [Windows -> Win]
      /\ m.unused \in Seq(Windows) /\ m.last_unused \in Windows \cup {NoWindow}
      /\ w \in Windows /\ w # NoWindow /\ m.win[w].fd \in Fds
  BY CacheTypes, ZeroWindow, ListedWindows
<1>2. ContextDetach(m, c) = m /\ m.window[c] # w
  BY <1>1 DEF ContextDetach
<1>3. PICK e : e = IF m.win[w].in_unused
                   THEN [m EXCEPT !.unused = Unlinked(@, w),
                                  !.last_unused = IF @ = w THEN NoWindow ELSE @,
                                  !.win[w].in_unused = FALSE]
                   ELSE m
  OBVIOUS
<1>4. ContextAttach(m, c, w) = Hold(e, c, w)
  BY <1>2, <1>3 DEF ContextAttach
<1>5. /\ e \in Cache /\ Agree(e, {w}) /\ SameMapping(m, e) /\ e.window = m.window
      /\ ~e.win[w].in_unused
  <2>1. CASE ~m.win[w].in_unused
    BY <1>3, <2>1 DEF Agree, Parked, SameMapping
  <2>2. CASE m.win[w].in_unused
    <3>1. PICK v : v = [m.win[w] EXCEPT !.in_unused = FALSE]
      OBVIOUS
    <3>2. /\ v \in Win /\ v.contexts = m.win[w].contexts /\ ~v.in_unused
          /\ v.fd = m.win[w].fd /\ v.offset = m.win[w].offset /\ v.size = m.win[w].size
          /\ v.maps = m.win[w].maps /\ v.keep_always = m.win[w].keep_always
      <4>1. m.win[w] \in Win
        BY <1>1
      <4> QED
        BY <3>1, <4>1 DEF Win
    <3>3. PICK S : S = {x \in m.live : m.win[x].in_unused}
      OBVIOUS
    <3>4. Lists(m.unused, S) /\ w \in S /\ m.last_unused \in S \cup {NoWindow}
      BY <2>2, <3>3 DEF Agree, Parked, Lists
    <3>5. PICK un : un = Unlinked(m.unused, w)
      OBVIOUS
    <3>6. un \in Seq(Windows) /\ Lists(un, S \ {w})
      BY <1>1, <3>4, <3>5, UnlinkedLists
    <3>7. PICK lu : lu = IF m.last_unused = w THEN NoWindow ELSE m.last_unused
      OBVIOUS
    <3>8. lu \in (S \ {w}) \cup {NoWindow} /\ lu \in Windows \cup {NoWindow}
      BY <1>1, <3>4, <3>7
    <3>9. e = [m EXCEPT !.unused = un, !.last_unused = lu,
                        !.win = [m.win EXCEPT ![w] = v]]
      BY <1>1, <1>3, <2>2, <3>1, <3>5, <3>7 DEF Cache
    <3>10. /\ e \in Cache /\ e.live = m.live /\ e.unmapped = m.unmapped
           /\ e.windows = m.windows /\ e.unused = un /\ e.last_unused = lu
           /\ e.window = m.window /\ e.win = [m.win EXCEPT ![w] = v]
      <4>1. [m.win EXCEPT ![w] = v] \in [Windows -> Win]
        BY <1>1, <3>2
      <4> QED
        BY <3>6, <3>8, <3>9, <4>1 DEF Cache
    <3>11. e.win[w] = v /\ \A x \in Windows : x # w => e.win[x] = m.win[x]
      BY <1>1, <3>10
    <3>12. SameMapping(m, e)
      BY <1>1, <3>2, <3>10, <3>11 DEF SameMapping
    <3>13. \A x \in m.live : e.win[x].contexts = m.win[x].contexts
      BY <1>1, <3>2, <3>11
    <3>14. Paired(e)
      BY <3>10, <3>13 DEF Agree, Paired
    <3>15. Filed(e)
      <4>1. \A fd \in Fds : {x \in e.live : e.win[x].fd = fd}
                              = {x \in m.live : m.win[x].fd = fd}
        BY <1>1, <3>12 DEF SameMapping
      <4> QED
        BY <3>10, <4>1 DEF Agree, Filed
    <3>16. Parked(e, {w})
      <4>1. {x \in e.live : e.win[x].in_unused} = S \ {w}
        BY <1>1, <3>2, <3>3, <3>10, <3>11
      <4>2. ToSet(un) = S \ {w}
        BY <3>6 DEF Lists
      <4>3. \A x \in e.live \ {w} : x \in m.live /\ e.win[x] = m.win[x]
        BY <1>1, <3>10, <3>11
      <4> QED
        BY <3>6, <3>8, <3>10, <4>1, <4>2, <4>3 DEF Agree, Parked
    <3> QED
      BY <3>2, <3>10, <3>11, <3>12, <3>14, <3>15, <3>16 DEF Agree
  <2> QED
    BY <2>1, <2>2
<1>6. PICK n : n = Hold(e, c, w)
  OBVIOUS
<1>7. w \in e.live /\ e.win[w].fd \in Fds /\ e.window[c] = NoWindow
  BY <1>1, <1>5 DEF SameMapping
<1>8. /\ n \in Cache /\ Agree(n, {}) /\ SameMapping(e, n)
      /\ n.window = [e.window EXCEPT ![c] = w]
  BY <1>5, <1>6, <1>7, HoldAgrees
<1>9. SameMapping(m, n)
  BY <1>5, <1>8 DEF SameMapping
<1> QED
  BY <1>4, <1>5, <1>6, <1>8, <1>9

-----------------------------------------------------------------------------
(* The window of a region                                                  *)

\* What is added to a multiple of PAGE to reach one that is larger.
LEMMA NextMultiple ==
    ASSUME NEW a \in Int, NEW b \in Int, NEW p \in Nat \ {0}, a * p < b * p
    PROVE  a * p + p <= b * p
<1>1. a < b
  <2> SUFFICES ASSUME a >= b PROVE FALSE
    OBVIOUS
  <2>1. PICK d \in Nat : a = b + d
    <3>1. a - b \in Nat /\ a = b + (a - b)
      OBVIOUS
    <3> QED
      BY <3>1
  <2>2. a * p = b * p + d * p
    BY <2>1
  <2>3. d * p \in Nat
    OBVIOUS
  <2> QED
    BY <2>2, <2>3
<1>2. PICK d \in Nat : b = a + 1 + d
  <2>1. b - a - 1 \in Nat /\ b = a + 1 + (b - a - 1)
    BY <1>1
  <2> QED
    BY <2>1
<1>3. b * p = a * p + p + d * p
  BY <1>2
<1>4. d * p \in Nat
  OBVIOUS
<1> QED
  BY <1>3, <1>4

\* PAGE_ALIGN() rounds up to the next page.
LEMMA PageAligned ==
    ASSUME NEW n \in Nat
    PROVE  /\ PageAlign(n) \in Nat
           /\ n <= PageAlign(n) /\ PageAlign(n) < n + PAGE
           /\ \E k \in Nat : PageAlign(n) = k * PAGE
<1>1. PAGE \in Nat \ {0}
  BY CacheAssumption
<1>2. PICK k : k = (n + PAGE - 1) \div PAGE
  OBVIOUS
<1>3. n + PAGE - 1 \in Nat
  BY <1>1
<1>4. k \in Nat
  BY <1>1, <1>2, <1>3
<1>5. /\ n + PAGE - 1 = PAGE * k + ((n + PAGE - 1) % PAGE)
      /\ (n + PAGE - 1) % PAGE \in 0..(PAGE - 1)
  BY <1>1, <1>2, <1>3
<1>6. PageAlign(n) = k * PAGE /\ k * PAGE = PAGE * k /\ k * PAGE \in Nat
  BY <1>1, <1>2, <1>4 DEF PageAlign
<1> QED
  BY <1>1, <1>4, <1>5, <1>6

\* add_mmap() asks for a window that has the whole region, if the file has it.
LEMMA AroundCovers ==
    ASSUME NEW reg, reg.offset \in Nat, reg.size \in Nat \ {0},
           NEW st \in Nat, reg.offset + reg.size <= st
    PROVE  LET a == WindowAround(reg, st) IN
           /\ a.offset \in Nat /\ a.size \in Nat /\ a.offset <= reg.offset
           /\ reg.offset + reg.size <= a.offset + a.size
<1>o. PICK o \in Nat, z \in Nat \ {0} : o = reg.offset /\ z = reg.size /\ o + z <= st
  OBVIOUS
<1>0. /\ PAGE \in Nat \ {0} /\ WINDOW_SIZE \in Nat \ {0} /\ WINDOW_SIZE % PAGE = 0
      /\ o \in Nat /\ z \in Nat \ {0}
  BY CacheAssumption
<1>1. PICK q : q = o \div PAGE
  OBVIOUS
<1>2. PICK woffset : woffset = q * PAGE
  OBVIOUS
<1>3. /\ q \in Nat /\ woffset \in Nat /\ woffset <= o /\ o < woffset + PAGE
  <2>1. q \in Nat
    BY <1>0, <1>1
  <2>2. o = PAGE * q + (o % PAGE) /\ o % PAGE \in 0..(PAGE - 1)
    BY <1>0, <1>1
  <2>3. woffset = PAGE * q /\ woffset \in Nat
    BY <1>0, <1>2, <2>1
  <2> QED
    BY <1>0, <2>1, <2>2, <2>3
<1>4. PICK wsize : wsize = PageAlign(z + (o - woffset))
  OBVIOUS
<1>5. /\ wsize \in Nat /\ z + (o - woffset) <= wsize
      /\ \E k \in Nat : wsize = k * PAGE
  <2>1. z + (o - woffset) \in Nat
    BY <1>0, <1>3
  <2> QED
    BY <1>4, <2>1, PageAligned
<1>6. o + z <= woffset + wsize
  BY <1>0, <1>3, <1>5
<1>7. PICK delta : delta = PageAlign((WINDOW_SIZE - wsize) \div 2)
  OBVIOUS
<1>8. PICK start : start = IF ~(wsize < WINDOW_SIZE) THEN woffset
                           ELSE IF delta > o THEN 0 ELSE woffset - delta
  OBVIOUS
<1>9. PICK size : size = IF wsize < WINDOW_SIZE THEN WINDOW_SIZE ELSE wsize
  OBVIOUS
<1>10. start \in Nat /\ size \in Nat /\ start <= o /\ o + z <= start + size
  <2>1. CASE ~(wsize < WINDOW_SIZE)
    BY <1>0, <1>3, <1>5, <1>6, <1>8, <1>9, <2>1
  <2>2. CASE wsize < WINDOW_SIZE
    <3>1. PICK W \in Nat : WINDOW_SIZE = W * PAGE
      <4>1. WINDOW_SIZE = PAGE * (WINDOW_SIZE \div PAGE) + (WINDOW_SIZE % PAGE)
        BY <1>0
      <4>2. PICK W : W = WINDOW_SIZE \div PAGE
        OBVIOUS
      <4>3. W \in Nat
        BY <1>0, <4>2
      <4>4. WINDOW_SIZE = W * PAGE
        BY <1>0, <4>1, <4>2, <4>3
      <4> QED
        BY <4>3, <4>4
    <3>2. PICK k \in Nat : wsize = k * PAGE
      BY <1>5
    <3>3. PICK h : h = (WINDOW_SIZE - wsize) \div 2
      OBVIOUS
    <3>4. h \in Nat /\ 2 * h <= WINDOW_SIZE - wsize
      BY <1>0, <1>5, <2>2, <3>3
    <3>5. delta \in Nat /\ h <= delta /\ delta < h + PAGE /\ \E e \in Nat : delta = e * PAGE
      BY <1>7, <3>3, <3>4, PageAligned
    <3>6. PICK e \in Nat : delta = e * PAGE
      BY <3>5
    <3>7. delta <= WINDOW_SIZE - wsize
      <4>1. wsize + PAGE <= WINDOW_SIZE
        BY <1>0, <2>2, <3>1, <3>2, NextMultiple
      <4>2. PICK g \in Int : g = W - k
        OBVIOUS
      <4>3. g * PAGE = WINDOW_SIZE - wsize
        BY <1>0, <3>1, <3>2, <4>2
      <4>4. ASSUME WINDOW_SIZE - wsize < delta PROVE FALSE
        <5>1. g * PAGE < e * PAGE
          BY <3>6, <4>3, <4>4
        <5>2. g * PAGE + PAGE <= e * PAGE
          BY <1>0, <5>1, NextMultiple
        <5>3. WINDOW_SIZE - wsize + PAGE <= delta
          BY <3>6, <4>3, <5>2
        <5> QED
          BY <1>0, <1>5, <3>4, <3>5, <4>1, <5>3
      <4> QED
        BY <1>0, <1>5, <3>5, <4>4
    <3>8. CASE delta > o
      <4>1. woffset < delta
        BY <1>0, <1>3, <3>5, <3>8
      <4>2. woffset + PAGE <= delta
        BY <1>0, <1>2, <1>3, <3>6, <4>1, NextMultiple
      <4>3. woffset < h
        BY <1>0, <1>3, <3>4, <3>5, <4>2
      <4>4. woffset + wsize <= WINDOW_SIZE
        BY <1>0, <1>3, <1>5, <3>4, <4>3
      <4>5. start = 0 /\ size = WINDOW_SIZE
        BY <1>8, <1>9, <2>2, <3>8
      <4> QED
        BY <1>0, <1>3, <1>5, <1>6, <4>4, <4>5
    <3>9. CASE ~(delta > o)
      <4>1. delta <= woffset
        <5> SUFFICES ASSUME woffset < delta PROVE FALSE
          BY <1>3, <3>5
        <5>1. woffset + PAGE <= delta
          BY <1>0, <1>2, <1>3, <3>6, NextMultiple
        <5> QED
          BY <1>0, <1>3, <3>5, <3>9, <5>1
      <4>2. start = woffset - delta /\ size = WINDOW_SIZE
        BY <1>8, <1>9, <2>2, <3>9
      <4> QED
        BY <1>0, <1>3, <1>5, <1>6, <3>5, <3>7, <4>1, <4>2
    <3> QED
      BY <3>8, <3>9
  <2> QED
    BY <2>1, <2>2
<1>11. PICK b : b = IF start + size > st THEN PageAlign(st - start) ELSE size
  OBVIOUS
<1>12. b \in Nat /\ o + z <= start + b
  <2>1. CASE start + size > st
    <3>1. st - start \in Nat
      BY <1>0, <1>o, <1>10
    <3>2. b \in Nat /\ st - start <= b
      BY <1>11, <2>1, <3>1, PageAligned
    <3> QED
      BY <1>0, <1>o, <1>10, <3>2
  <2>2. CASE ~(start + size > st)
    BY <1>10, <1>11, <2>2
  <2> QED
    BY <2>1, <2>2
<1>13. PICK a : a = WindowAround(reg, st)
  OBVIOUS
<1>14. a = [offset |-> start, size |-> b]
  BY <1>o, <1>1, <1>2, <1>4, <1>7, <1>8, <1>9, <1>11, <1>13 DEF WindowAround
<1> QED
  BY <1>o, <1>10, <1>12, <1>13, <1>14

-----------------------------------------------------------------------------
(* A window is added                                                       *)

\* The lists of m agree about the windows of V, and nothing refers to another.
Apart(m, V) ==
    /\ \A v \in V : m.win[v].contexts = {c \in Contexts : m.window[c] = v}
    /\ \A c \in Contexts : m.window[c] \in V \cup {NoWindow}
    /\ \A fd \in Fds : Lists(m.windows[fd], {v \in V : m.win[v].fd = fd})
    /\ Lists(m.unused, {v \in V : m.win[v].in_unused})
    /\ \A v \in V : /\ m.win[v].fd \in Fds
                    /\ m.win[v].in_unused <=> /\ m.win[v].contexts = {}
                                              /\ ~m.win[v].keep_always
    /\ m.last_unused \in ToSet(m.unused) \cup {NoWindow}

\* window_add(): the window it gives belongs to nobody; if it was in use before,
\* it was an unused one.
LEMMA AddApart ==
    ASSUME NEW m \in Cache, Agree(m, {}), Allocates(m) => m.live # Windows
    PROVE  LET n == WindowAdd(m)
               w == WindowAdded(m)
           IN  /\ n \in Cache /\ w \in Windows
               /\ n.live = m.live \cup {w} /\ Apart(n, m.live \ {w})
               /\ \A v \in m.live \ {w} : n.win[v] = m.win[v]
               /\ n.unmapped \subseteq m.unmapped \cup {w}
               /\ w \in m.live => m.win[w].contexts = {} /\ ~m.win[w].keep_always
               /\ \A c \in Contexts : n.window[c] = m.window[c]
<1>1. PICK n : n = WindowAdd(m)
  OBVIOUS
<1>2. PICK w : w = WindowAdded(m)
  OBVIOUS
<1>3. /\ m.live \subseteq Windows /\ m.win \in [Windows -> Win]
      /\ m.window \in [Contexts -> Windows \cup {NoWindow}]
      /\ m.unused \in Seq(Windows)
  BY CacheTypes
<1>4. CASE Allocates(m)
  <2>1. \E x \in Windows \ m.live : \A y \in Windows \ m.live : x <= y
    <3>1. PICK T : T = Windows \ m.live
      OBVIOUS
    <3>2. T # {}
      BY <1>3, <1>4, <3>1
    <3>3. T \subseteq Nat
      BY <3>1 DEF Windows
    <3>4. \E x \in T : \A y \in T : x <= y
      BY <3>2, <3>3, LeastElement
    <3> QED
      BY <3>1, <3>4
  <2>2. w \in Windows \ m.live
    BY <1>2, <1>4, <2>1 DEF WindowAdded
  <2>3. n = [m EXCEPT !.live = m.live \cup {w}]
    BY <1>1, <1>2, <1>4 DEF WindowAdd
  <2>4. /\ n \in Cache /\ n.live = m.live \cup {w} /\ n.win = m.win /\ n.window = m.window
        /\ n.windows = m.windows /\ n.unused = m.unused /\ n.last_unused = m.last_unused
        /\ n.unmapped = m.unmapped
    BY <1>3, <2>2, <2>3 DEF Cache
  <2>5. m.live \ {w} = m.live
    BY <2>2
  <2>6. Apart(n, m.live)
    <3>1. PICK V : V = m.live
      OBVIOUS
    <3>2. /\ \A v \in V : n.win[v].contexts = {c \in Contexts : n.window[c] = v}
          /\ \A c \in Contexts : n.window[c] \in V \cup {NoWindow}
      BY <2>4, <3>1 DEF Agree, Paired
    <3>3. \A fd \in Fds : Lists(n.windows[fd], {v \in V : n.win[v].fd = fd})
      BY <2>4, <3>1 DEF Agree, Filed
    <3>4. Lists(n.unused, {v \in V : n.win[v].in_unused})
      BY <2>4, <3>1 DEF Agree, Parked
    <3>5. /\ \A v \in V : /\ n.win[v].fd \in Fds
                          /\ n.win[v].in_unused <=> /\ n.win[v].contexts = {}
                                                    /\ ~n.win[v].keep_always
          /\ n.last_unused \in ToSet(n.unused) \cup {NoWindow}
      BY <2>4, <3>1 DEF Agree, Parked
    <3>6. Apart(n, V)
      BY <3>2, <3>3, <3>4, <3>5 DEF Apart
    <3> QED
      BY <3>1, <3>6
  <2> QED
    BY <1>1, <1>2, <2>2, <2>4, <2>5, <2>6
<1>5. CASE ~Allocates(m)
  <2>1. w = m.last_unused /\ m.last_unused # NoWindow
    BY <1>2, <1>5 DEF WindowAdded, Allocates
  <2>2. w \in m.live /\ m.win[w].in_unused
    BY <2>1 DEF Agree, Parked, Lists
  <2>3. m.win[w].contexts = {} /\ ~m.win[w].keep_always
    BY <2>2 DEF Agree, Parked
  <2>4. n = [WindowUnlink(m, w) EXCEPT !.win[w] = Zero]
    BY <1>1, <1>5, <2>1 DEF WindowAdd
  <2>5. Retired(m, n, w) /\ n.live = m.live
    BY <2>2, <2>4, FreeRetires
  <2>6. /\ Agree(n, {w}) /\ n.win[w] = Zero
        /\ \A v \in m.live \ {w} : n.win[v] = m.win[v]
    <3>1. /\ Agree(n, {w}) /\ n.win[w] = Zero
          /\ \A v \in n.live \ {w} : v \in m.live /\ n.win[v] = m.win[v]
      <4>1. Retired(m, n, w) /\ w \in m.live
        BY <2>2, <2>5
      <4> QED
        BY <4>1, RetiredAgrees, ZenonT(30)
    <3>2. n.live = m.live
      BY <2>5
    <3> QED
      BY <3>1, <3>2
  <2>7. /\ n \in Cache /\ n.unmapped = m.unmapped \cup {w}
        /\ \A c \in Contexts : n.window[c] = m.window[c]
    BY <1>3, <2>3, <2>5 DEF Retired
  <2>8. m.live = m.live \cup {w} /\ w \in Windows /\ w # NoWindow
    BY <1>3, <2>2, ZeroWindow
  <2>9. Apart(n, m.live \ {w})
    <3>1. PICK V : V = m.live \ {w}
      OBVIOUS
    <3>2. \A v \in V : n.win[v].contexts = {c \in Contexts : n.window[c] = v}
      BY <2>5, <2>6, <3>1 DEF Agree, Paired
    <3>3. \A c \in Contexts : n.window[c] \in V \cup {NoWindow}
      <4>1. {c \in Contexts : n.window[c] = w} = {}
        BY <2>2, <2>5, <2>6, ZeroWindow DEF Agree, Paired
      <4> QED
        BY <2>5, <2>6, <3>1, <4>1 DEF Agree, Paired
    <3>4. ASSUME NEW fd \in Fds PROVE Lists(n.windows[fd], {v \in V : n.win[v].fd = fd})
      <4>1. {v \in n.live : n.win[v].fd = fd} = {v \in V : n.win[v].fd = fd}
        BY <2>5, <2>6, <3>1, ZeroWindow
      <4> QED
        BY <2>6, <4>1 DEF Agree, Filed
    <3>5. Lists(n.unused, {v \in V : n.win[v].in_unused})
      <4>1. {v \in n.live : n.win[v].in_unused} = {v \in V : n.win[v].in_unused}
        BY <2>5, <2>6, <3>1, ZeroWindow
      <4> QED
        BY <2>6, <4>1 DEF Agree, Parked
    <3>6. /\ \A v \in V : /\ n.win[v].fd \in Fds
                          /\ n.win[v].in_unused <=> /\ n.win[v].contexts = {}
                                                    /\ ~n.win[v].keep_always
          /\ n.last_unused \in ToSet(n.unused) \cup {NoWindow}
      BY <2>5, <2>6, <3>1 DEF Agree, Parked
    <3>7. Apart(n, V)
      BY <3>2, <3>3, <3>4, <3>5, <3>6 DEF Apart
    <3> QED
      BY <3>1, <3>7
  <2> QED
    BY <1>1, <1>2, <2>3, <2>5, <2>6, <2>7, <2>8, <2>9
<1> QED
  BY <1>4, <1>5

\* add_mmap()
LEMMA AddMmapAgrees ==
    ASSUME NEW m \in Cache, Agree(m, {}), Allocates(m) => m.live # Windows,
           NEW c \in Contexts, m.window[c] = NoWindow, NEW fd \in Fds,
           file[fd].id \in 0..MaxOpens, NEW keep \in BOOLEAN,
           NEW a, a.offset \in Nat, a.size \in Nat
    PROVE  LET n == AddMmap(m, c, fd, keep, a)
               w == WindowAdded(m)
           IN  /\ n \in Cache /\ Agree(n, {}) /\ w \in n.live
               /\ n.live = m.live \cup {w} /\ n.window = [m.window EXCEPT ![c] = w]
               /\ n.win[w].fd = fd /\ n.win[w].maps = file[fd].id
               /\ n.win[w].offset = a.offset /\ n.win[w].size = a.size
               /\ n.win[w].keep_always = keep
               /\ \A v \in m.live \ {w} : /\ n.win[v].fd = m.win[v].fd
                                          /\ n.win[v].offset = m.win[v].offset
                                          /\ n.win[v].size = m.win[v].size
                                          /\ n.win[v].maps = m.win[v].maps
                                          /\ n.win[v].keep_always = m.win[v].keep_always
               /\ n.unmapped \subseteq m.unmapped \cup {w}
               /\ w \in m.live => m.win[w].contexts = {} /\ ~m.win[w].keep_always
<1>1. PICK x : x = WindowAdd(m)
  OBVIOUS
<1>2. PICK w : w = WindowAdded(m)
  OBVIOUS
<1>3. PICK V : V = m.live \ {w}
  OBVIOUS
<1>4. /\ x \in Cache /\ w \in Windows
      /\ x.live = m.live \cup {w} /\ Apart(x, V)
      /\ \A v \in V : x.win[v] = m.win[v]
      /\ x.unmapped \subseteq m.unmapped \cup {w}
      /\ w \in m.live => m.win[w].contexts = {} /\ ~m.win[w].keep_always
      /\ \A y \in Contexts : x.window[y] = m.window[y]
  BY <1>1, <1>2, <1>3, AddApart
<1>5. /\ x.win \in [Windows -> Win] /\ x.windows \in [Fds -> Seq(Windows)]
      /\ x.window \in [Contexts -> Windows \cup {NoWindow}]
      /\ m.window \in [Contexts -> Windows \cup {NoWindow}]
      /\ V \subseteq Windows /\ w \notin V /\ w # NoWindow /\ x.live = V \cup {w}
  BY <1>3, <1>4, CacheTypes, ZeroWindow
<1>6. x.window = m.window
  BY <1>4, <1>5
<1>7. PICK r : r = [Zero EXCEPT !.fd = fd, !.offset = a.offset, !.size = a.size,
                                !.maps = file[fd].id, !.keep_always = keep]
  OBVIOUS
<1>8. /\ r \in Win /\ r.fd = fd /\ r.offset = a.offset /\ r.size = a.size
      /\ r.maps = file[fd].id /\ r.keep_always = keep /\ r.contexts = {} /\ ~r.in_unused
  BY <1>7 DEF Zero, Win
<1>9. PICK ws : ws = <<w>> \o x.windows[fd]
  OBVIOUS
<1>10. ws \in Seq(Windows) /\ Lists(ws, {v \in V : x.win[v].fd = fd} \cup {w})
  <2>1. Lists(x.windows[fd], {v \in V : x.win[v].fd = fd}) /\ x.windows[fd] \in Seq(Windows)
    BY <1>4, <1>5 DEF Apart
  <2>2. PICK S : S = {v \in V : x.win[v].fd = fd}
    OBVIOUS
  <2>3. w \notin S /\ w \in Windows
    BY <1>4, <1>5, <2>2
  <2>4. PICK s : s = x.windows[fd]
    OBVIOUS
  <2>5. Lists(s, S) /\ s \in Seq(Windows)
    BY <2>1, <2>2, <2>4
  <2>6. <<w>> \o s \in Seq(Windows) /\ Lists(<<w>> \o s, S \cup {w})
    BY <2>3, <2>5, LinkedLists
  <2> QED
    BY <1>9, <2>2, <2>4, <2>6
<1>11. PICK y : y = [x EXCEPT !.win = [x.win EXCEPT ![w] = r],
                              !.windows = [x.windows EXCEPT ![fd] = ws]]
  OBVIOUS
<1>12. /\ y \in Cache /\ y.live = V \cup {w} /\ y.window = m.window
       /\ y.unmapped = x.unmapped /\ y.unused = x.unused /\ y.last_unused = x.last_unused
       /\ y.win = [x.win EXCEPT ![w] = r] /\ y.windows = [x.windows EXCEPT ![fd] = ws]
  <2>1. /\ [x.win EXCEPT ![w] = r] \in [Windows -> Win]
        /\ [x.windows EXCEPT ![fd] = ws] \in [Fds -> Seq(Windows)]
    BY <1>4, <1>5, <1>8, <1>10
  <2> QED
    BY <1>4, <1>5, <1>6, <1>11, <2>1 DEF Cache
<1>13. y.win[w] = r /\ \A v \in V : y.win[v] = x.win[v]
  BY <1>4, <1>5, <1>12
<1>14. Paired(y)
  <2>1. {z \in Contexts : y.window[z] = w} = {}
    BY <1>4, <1>5, <1>6, <1>12 DEF Apart
  <2>2. \A v \in V : y.win[v].contexts = {z \in Contexts : y.window[z] = v}
    BY <1>4, <1>6, <1>12, <1>13 DEF Apart
  <2>3. \A z \in Contexts : y.window[z] \in y.live \cup {NoWindow}
    BY <1>4, <1>6, <1>12 DEF Apart
  <2> QED
    BY <1>8, <1>12, <1>13, <2>1, <2>2, <2>3 DEF Paired
<1>15. Filed(y)
  <2> SUFFICES ASSUME NEW f \in Fds PROVE Lists(y.windows[f], {v \in y.live : y.win[v].fd = f})
    BY DEF Filed
  <2>1. CASE f = fd
    <3>1. {v \in y.live : y.win[v].fd = f} = {v \in V : x.win[v].fd = fd} \cup {w}
      BY <1>8, <1>12, <1>13, <2>1
    <3>2. y.windows[f] = ws
      BY <1>5, <1>12, <2>1
    <3> QED
      BY <1>10, <3>1, <3>2
  <2>2. CASE f # fd
    <3>1. {v \in y.live : y.win[v].fd = f} = {v \in V : x.win[v].fd = f}
      BY <1>8, <1>12, <1>13, <2>2
    <3>2. y.windows[f] = x.windows[f]
      BY <1>5, <1>12, <2>2
    <3> QED
      BY <1>4, <3>1, <3>2 DEF Apart
  <2> QED
    BY <2>1, <2>2
<1>16. Parked(y, {w})
  <2>1. {v \in y.live : y.win[v].in_unused} = {v \in V : x.win[v].in_unused}
    BY <1>8, <1>12, <1>13
  <2>2. y.live \ {w} = V
    BY <1>5, <1>12
  <2>3. /\ Lists(x.unused, {v \in V : x.win[v].in_unused})
        /\ \A v \in V : /\ x.win[v].fd \in Fds
                        /\ x.win[v].in_unused <=> /\ x.win[v].contexts = {}
                                                  /\ ~x.win[v].keep_always
        /\ x.last_unused \in ToSet(x.unused) \cup {NoWindow}
    BY <1>4 DEF Apart
  <2> QED
    BY <1>12, <1>13, <2>1, <2>2, <2>3 DEF Parked
<1>17. PICK n : n = AddMmap(m, c, fd, keep, a)
  OBVIOUS
<1>18. n = Hold(y, c, w)
  <2>1. [x EXCEPT !.win[w] = r, !.windows[fd] = <<w>> \o @] = y
    BY <1>4, <1>5, <1>9, <1>11 DEF Cache
  <2>2. ContextDetach(y, c) = y
    BY <1>12 DEF ContextDetach
  <2> QED
    BY <1>1, <1>2, <1>7, <1>17, <2>1, <2>2 DEF AddMmap
<1>19. w \in y.live /\ y.win[w].fd \in Fds /\ ~y.win[w].in_unused /\ y.window[c] = NoWindow
  BY <1>8, <1>12, <1>13
<1>20. /\ n \in Cache /\ Agree(n, {}) /\ SameMapping(y, n)
       /\ n.window = [y.window EXCEPT ![c] = w]
  <2>1. Agree(y, {w})
    BY <1>14, <1>15, <1>16 DEF Agree
  <2>2. y \in Cache
    BY <1>12
  <2>3. PICK h : h = Hold(y, c, w)
    OBVIOUS
  <2>4. h \in Cache /\ Agree(h, {}) /\ SameMapping(y, h) /\ h.window = [y.window EXCEPT ![c] = w]
    BY <1>19, <2>1, <2>2, <2>3, HoldAgrees
  <2> QED
    BY <1>18, <2>3, <2>4
<1>21. /\ n.win[w].fd = fd /\ n.win[w].maps = file[fd].id
       /\ n.win[w].offset = a.offset /\ n.win[w].size = a.size
       /\ n.win[w].keep_always = keep
  BY <1>4, <1>8, <1>13, <1>20 DEF SameMapping
<1>22. \A v \in V : /\ n.win[v].fd = m.win[v].fd
                    /\ n.win[v].offset = m.win[v].offset
                    /\ n.win[v].size = m.win[v].size
                    /\ n.win[v].maps = m.win[v].maps
                    /\ n.win[v].keep_always = m.win[v].keep_always
  BY <1>4, <1>5, <1>13, <1>20 DEF SameMapping
<1>23. n.live = m.live \cup {w} /\ n.unmapped = x.unmapped
  BY <1>3, <1>12, <1>20 DEF SameMapping
<1>24. n.window = [m.window EXCEPT ![c] = w]
  BY <1>12, <1>20
<1> QED
  BY <1>2, <1>3, <1>4, <1>17, <1>20, <1>21, <1>22, <1>23, <1>24

-----------------------------------------------------------------------------
(* Windows go one after the other                                          *)

\* The cache r is m without some windows of G; what is left is unchanged.
Shrunk(m, r, G) ==
    /\ r \in Cache /\ Agree(r, {})
    /\ r.live \subseteq m.live /\ m.live \ r.live \subseteq G
    /\ \A w \in r.live : r.win[w] = m.win[w]
    /\ r.unmapped \subseteq m.unmapped \cup (m.live \ r.live)
    /\ \A c \in Contexts :
          m.window[c] \in r.live \cup {NoWindow} => r.window[c] = m.window[c]

\* window_free() of one more window.
LEMMA ShrunkMore ==
    ASSUME NEW m \in Cache, NEW G, NEW r, Shrunk(m, r, G), NEW w \in r.live, w \in G
    PROVE  LET n == WindowFree(r, w) IN
           /\ Shrunk(m, n, G) /\ Len(n.windows[m.win[w].fd]) = Len(r.windows[m.win[w].fd]) - 1
           /\ m.win[w].fd \in Fds
<1>1. PICK n : n = WindowFree(r, w)
  OBVIOUS
<1>2. r \in Cache /\ Agree(r, {})
  BY DEF Shrunk
<1>3. Retired(r, n, w) /\ n.live = r.live \ {w}
  BY <1>1, <1>2, FreeRetires
<1>4. Agree(n, {}) /\ \A v \in n.live \ {w} : v \in r.live /\ n.win[v] = r.win[v]
  <2>1. Retired(r, n, w)
    BY <1>3
  <2>2. /\ Agree(n, {w})
        /\ w \notin n.live => Agree(n, {})
        /\ \A v \in n.live \ {w} : v \in r.live /\ n.win[v] = r.win[v]
        /\ n.win[w] = Zero
    BY <1>2, <2>1, RetiredAgrees
  <2>3. w \notin n.live
    BY <1>3
  <2> QED
    BY <2>2, <2>3
<1>5. /\ w \in Windows /\ r.win[w].fd \in Fds
      /\ Lists(r.windows[r.win[w].fd], {v \in r.live : r.win[v].fd = r.win[w].fd})
      /\ r.win[w].contexts = {c \in Contexts : r.window[c] = w}
  BY <1>2, ListedWindows
<1>6. /\ r.live \subseteq m.live /\ m.live \ r.live \subseteq G
      /\ \A v \in r.live : r.win[v] = m.win[v]
      /\ r.unmapped \subseteq m.unmapped \cup (m.live \ r.live)
      /\ \A c \in Contexts :
            m.window[c] \in r.live \cup {NoWindow} => r.window[c] = m.window[c]
  BY DEF Shrunk
<1>7. /\ n \in Cache /\ n.unmapped = r.unmapped \cup {w}
      /\ n.windows = [r.windows EXCEPT ![r.win[w].fd] = Unlinked(@, w)]
      /\ n.window = [c \in Contexts |->
                       IF c \in r.win[w].contexts THEN NoWindow ELSE r.window[c]]
  BY <1>3 DEF Retired
<1>8. n.live \subseteq m.live /\ m.live \ n.live \subseteq G
  BY <1>3, <1>6
<1>9. \A v \in n.live : n.win[v] = m.win[v]
  BY <1>3, <1>4, <1>6
<1>10. n.unmapped \subseteq m.unmapped \cup (m.live \ n.live)
  BY <1>3, <1>6, <1>7
<1>11. ASSUME NEW c \in Contexts, m.window[c] \in n.live \cup {NoWindow}
       PROVE  n.window[c] = m.window[c]
  <2>1. m.window[c] # w
    BY <1>3, <1>5, <1>11, ZeroWindow
  <2>2. r.window[c] = m.window[c]
    BY <1>3, <1>6, <1>11
  <2>3. c \notin r.win[w].contexts
    BY <1>5, <2>1, <2>2
  <2> QED
    BY <1>7, <2>2, <2>3
<1>12. Shrunk(m, n, G)
  BY <1>4, <1>7, <1>8, <1>9, <1>10, <1>11 DEF Shrunk
<1>13. Len(n.windows[r.win[w].fd]) = Len(r.windows[r.win[w].fd]) - 1
  <2>1. PICK s : s = r.windows[r.win[w].fd]
    OBVIOUS
  <2>2. r.windows \in [Fds -> Seq(Windows)]
    BY <1>2, CacheTypes
  <2>3. s \in Seq(Windows) /\ n.windows[r.win[w].fd] = Unlinked(s, w)
    BY <1>5, <1>7, <2>1, <2>2
  <2>4. PICK S : S = {v \in r.live : r.win[v].fd = r.win[w].fd}
    OBVIOUS
  <2>5. Lists(s, S) /\ w \in S
    BY <1>5, <2>1, <2>4
  <2>6. Len(Unlinked(s, w)) = Len(s) - 1
    BY <2>3, <2>5, UnlinkedLists
  <2> QED
    BY <2>1, <2>3, <2>6
<1>14. r.win[w].fd = m.win[w].fd
  BY <1>6
<1> QED
  BY <1>1, <1>5, <1>12, <1>13, <1>14

\* The windows that make_room() may free.
Idle(m) == {w \in m.live : m.win[w].contexts = {} /\ ~m.win[w].keep_always}

\* One call of make_room().
LEMMA RoomStep ==
    ASSUME NEW m \in Cache, NEW r, Shrunk(m, r, Idle(m)), r.last_unused # NoWindow
    PROVE  Shrunk(m, WindowFree(r, r.last_unused), Idle(m))
<1>1. PICK w : w = r.last_unused
  OBVIOUS
<1>2. w \in r.live /\ r.win[w].in_unused
  <2>1. Lists(r.unused, {v \in r.live : r.win[v].in_unused})
        /\ w \in ToSet(r.unused)
    BY <1>1 DEF Shrunk, Agree, Parked
  <2> QED
    BY <2>1 DEF Lists
<1>3. r.win[w].contexts = {} /\ ~r.win[w].keep_always
  BY <1>2 DEF Shrunk, Agree, Parked
<1>4. w \in Idle(m)
  BY <1>2, <1>3 DEF Shrunk, Idle
<1>5. Shrunk(m, WindowFree(r, w), Idle(m))
  BY <1>2, <1>4, ShrunkMore
<1> QED
  BY <1>1, <1>5

\* make_room(), any number of times.
LEMMA RoomMade ==
    ASSUME NEW m \in Cache, Agree(m, {}), NEW n \in Nat
    PROVE  Shrunk(m, MakeRoom(m, n), Idle(m))
<1> DEFINE S == {x \in Cache : Shrunk(m, x, Idle(m))}
           Step(x) == IF x.last_unused = NoWindow THEN x ELSE WindowFree(x, x.last_unused)
           Room == CHOOSE f : f = [k \in 0..n |-> IF k = 0 THEN m
                                ELSE IF f[k - 1].last_unused = NoWindow THEN f[k - 1]
                                ELSE WindowFree(f[k - 1], f[k - 1].last_unused)]
           g == [x \in Nat \X S |-> Step(x[2])]
<1>1. m \in S
  BY DEF Shrunk
<1>2. ASSUME NEW x \in S PROVE Step(x) \in S
  <2>1. CASE x.last_unused = NoWindow
    BY <2>1
  <2>2. CASE x.last_unused # NoWindow
    <3>1. Shrunk(m, WindowFree(x, x.last_unused), Idle(m))
      BY <2>2, RoomStep
    <3>2. WindowFree(x, x.last_unused) \in Cache
      BY <3>1 DEF Shrunk
    <3> QED
      BY <2>2, <3>1, <3>2
  <2> QED
    BY <2>1, <2>2
<1>3. g \in [Nat \X S -> S]
  <2> HIDE DEF S, Step
  <2> QED
    BY <1>2
<1>4. \E f : Iterates(f, S, g, m, n)
  <2> HIDE DEF S, g
  <2> QED
    BY <1>1, <1>3, Iteration
<1>5. PICK f : Iterates(f, S, g, m, n)
  BY <1>4
<1>6. /\ f \in [0..n -> S] /\ f[0] = m
      /\ \A k \in 1..n : f[k] = g[<<k, f[k - 1]>>]
  <2> HIDE DEF S, g
  <2> QED
    BY <1>5 DEF Iterates
<1>7. ASSUME NEW k \in 1..n PROVE f[k] = Step(f[k - 1])
  <2> HIDE DEF S, Step
  <2>1. k \in Nat /\ k - 1 \in 0..n
    OBVIOUS
  <2>2. <<k, f[k - 1]>> \in Nat \X S
    BY <1>6, <2>1
  <2> QED
    BY <1>6, <2>2
<1>8. f = [k \in 0..n |-> IF k = 0 THEN m ELSE Step(f[k - 1])]
  <2> HIDE DEF S, Step, g
  <2> QED
    BY <1>6, <1>7
<1>9. Room = [k \in 0..n |-> IF k = 0 THEN m ELSE Step(Room[k - 1])]
  BY <1>8
<1>10. MakeRoom(m, n) = Room[n]
  BY DEF MakeRoom
<1>11. \A k \in 0..n : Room[k] \in S
  <2> DEFINE T == {k \in 0..n : Room[k] \in S}
  <2> HIDE DEF Room, S, Step, g
  <2>1. 0 \in T
    BY <1>1, <1>9
  <2>2. ASSUME NEW k \in 1..n, k - 1 \in T PROVE k \in T
    <3>1. k \in 0..n /\ k # 0 /\ Room[k - 1] \in S
      BY <2>2
    <3>2. Room[k] = Step(Room[k - 1])
      BY <1>9, <3>1
    <3> QED
      BY <1>2, <3>1, <3>2
  <2>3. \A k \in 0..n : k \in T
    <3> HIDE DEF T
    <3> QED
      BY <2>1, <2>2, IntervalInduction
  <2> QED
    BY <2>3
<1> QED
  BY <1>10, <1>11


\* The windows that fd_free() frees.
Owned(m, fd) == {w \in m.live : m.win[w].fd = fd}

\* One turn of the loop of fd_free().
LEMMA FdFreeStep ==
    ASSUME NEW m \in Cache, NEW fd \in Fds, NEW r, Shrunk(m, r, Owned(m, fd)),
           Len(r.windows[fd]) # 0
    PROVE  LET n == WindowFree(r, Head(r.windows[fd])) IN
           /\ Shrunk(m, n, Owned(m, fd))
           /\ Len(n.windows[fd]) = Len(r.windows[fd]) - 1
<1>1. PICK s : s = r.windows[fd]
  OBVIOUS
<1>2. r \in Cache /\ Agree(r, {})
  BY DEF Shrunk
<1>3. s \in Seq(Windows)
  BY <1>1, <1>2, CacheTypes
<1>4. PICK S : S = {v \in r.live : r.win[v].fd = fd}
  OBVIOUS
<1>5. Lists(s, S)
  BY <1>1, <1>2, <1>4 DEF Agree, Filed
<1>6. PICK w : w = Head(s)
  OBVIOUS
<1>7. w \in S
  BY <1>1, <1>3, <1>5, <1>6, HeadListed
<1>8. w \in r.live /\ w \in Owned(m, fd) /\ m.win[w].fd = fd
  BY <1>4, <1>7 DEF Shrunk, Owned
<1>9. PICK n : n = WindowFree(r, w)
  OBVIOUS
<1>10. PICK G : G = Owned(m, fd)
  OBVIOUS
<1>11. Shrunk(m, n, G) /\ Len(n.windows[m.win[w].fd]) = Len(r.windows[m.win[w].fd]) - 1
  BY <1>8, <1>9, <1>10, ShrunkMore
<1> QED
  BY <1>1, <1>6, <1>8, <1>9, <1>10, <1>11

\* fd_free() frees the windows of the file, all of them and no other.
LEMMA FdFreed ==
    ASSUME NEW m \in Cache, Agree(m, {}), NEW fd \in Fds
    PROVE  /\ Shrunk(m, FdFree(m, fd), Owned(m, fd))
           /\ FdFree(m, fd).live \cap Owned(m, fd) = {}
<1>0. PICK n \in Nat : n = Len(m.windows[fd])
  <2>1. m.windows[fd] \in Seq(Windows)
    BY CacheTypes
  <2> QED
    BY <2>1
<1> DEFINE S == {x \in Cache : Shrunk(m, x, Owned(m, fd))}
           Step(x) == WindowFree(x, Head(x.windows[fd]))
           Freed == CHOOSE f : f = [k \in 0..Len(m.windows[fd]) |->
                       IF k = 0 THEN m
                       ELSE WindowFree(f[k - 1], Head(f[k - 1].windows[fd]))]
           g == [x \in Nat \X S |-> IF Len(x[2].windows[fd]) # 0 THEN Step(x[2]) ELSE x[2]]
<1>1. m \in S
  BY DEF Shrunk
<1>2. ASSUME NEW x \in S, Len(x.windows[fd]) # 0
      PROVE  Step(x) \in S /\ Len(Step(x).windows[fd]) = Len(x.windows[fd]) - 1
  <2>1. PICK y : y = WindowFree(x, Head(x.windows[fd]))
    OBVIOUS
  <2>2. Shrunk(m, y, Owned(m, fd)) /\ Len(y.windows[fd]) = Len(x.windows[fd]) - 1
    BY <1>2, <2>1, FdFreeStep
  <2>3. y \in Cache
    BY <2>2 DEF Shrunk
  <2> QED
    BY <2>1, <2>2, <2>3
<1>3. g \in [Nat \X S -> S]
  <2> HIDE DEF S, Step
  <2> QED
    BY <1>2
<1>4. \E f : Iterates(f, S, g, m, n)
  <2> HIDE DEF S, g
  <2> QED
    BY <1>1, <1>3, Iteration
<1>5. PICK f : Iterates(f, S, g, m, n)
  BY <1>4
<1>6. /\ f \in [0..n -> S] /\ f[0] = m
      /\ \A k \in 1..n : f[k] = g[<<k, f[k - 1]>>]
  <2> HIDE DEF S, g
  <2> QED
    BY <1>5 DEF Iterates
<1>7. ASSUME NEW k \in 1..n
      PROVE  f[k] = IF Len(f[k - 1].windows[fd]) # 0 THEN Step(f[k - 1]) ELSE f[k - 1]
  <2> HIDE DEF S, Step
  <2>1. k \in Nat /\ k - 1 \in 0..n
    OBVIOUS
  <2>2. <<k, f[k - 1]>> \in Nat \X S
    BY <1>6, <2>1
  <2> QED
    BY <1>6, <2>2
<1>8. \A k \in 0..n : Len(f[k].windows[fd]) = n - k
  <2> DEFINE T == {k \in 0..n : Len(f[k].windows[fd]) = n - k}
  <2> HIDE DEF S, Step, g
  <2>1. 0 \in T
    BY <1>0, <1>6
  <2>2. ASSUME NEW k \in 1..n, k - 1 \in T PROVE k \in T
    <3>1. k - 1 \in 0..n /\ k \in 0..n /\ Len(f[k - 1].windows[fd]) = n - (k - 1)
      BY <2>2
    <3>2. Len(f[k - 1].windows[fd]) # 0 /\ f[k - 1] \in S
      BY <1>6, <3>1
    <3>3. f[k] = Step(f[k - 1])
      BY <1>7, <3>2
    <3>4. Len(f[k].windows[fd]) = Len(f[k - 1].windows[fd]) - 1
      BY <1>2, <3>2, <3>3
    <3> QED
      BY <3>1, <3>4
  <2>3. \A k \in 0..n : k \in T
    <3> HIDE DEF T
    <3> QED
      BY <2>1, <2>2, IntervalInduction
  <2> QED
    BY <2>3
<1>9. ASSUME NEW k \in 1..n PROVE f[k] = Step(f[k - 1])
  <2> HIDE DEF S, Step, g
  <2>1. k - 1 \in 0..n /\ n - (k - 1) # 0
    OBVIOUS
  <2>2. Len(f[k - 1].windows[fd]) # 0
    BY <1>8, <2>1
  <2> QED
    BY <1>7, <2>2
<1>10. f = [k \in 0..n |-> IF k = 0 THEN m ELSE Step(f[k - 1])]
  <2> HIDE DEF S, Step, g
  <2> QED
    BY <1>6, <1>9
<1>11. Freed = [k \in 0..n |-> IF k = 0 THEN m ELSE Step(Freed[k - 1])]
  BY <1>0, <1>10
<1>12. FdFree(m, fd) = Freed[n]
  BY <1>0 DEF FdFree
<1>13. \A k \in 0..n : Freed[k] = f[k]
  <2> DEFINE T == {k \in 0..n : Freed[k] = f[k]}
  <2> HIDE DEF Freed, S, Step, g
  <2>1. 0 \in T
    BY <1>6, <1>11
  <2>2. ASSUME NEW k \in 1..n, k - 1 \in T PROVE k \in T
    <3>1. k \in 0..n /\ k # 0 /\ Freed[k - 1] = f[k - 1]
      BY <2>2
    <3>2. Freed[k] = Step(Freed[k - 1])
      BY <1>11, <3>1
    <3> QED
      BY <1>9, <3>1, <3>2
  <2>3. \A k \in 0..n : k \in T
    <3> HIDE DEF T
    <3> QED
      BY <2>1, <2>2, IntervalInduction
  <2> QED
    BY <2>3
<1>14. PICK r : r = FdFree(m, fd)
  OBVIOUS
<1>15. r = f[n] /\ r \in S /\ Len(r.windows[fd]) = 0
  <2> HIDE DEF Freed, S, Step, g
  <2>1. n \in 0..n /\ n - n = 0
    OBVIOUS
  <2> QED
    BY <1>6, <1>8, <1>12, <1>13, <1>14, <2>1
<1>16. Shrunk(m, r, Owned(m, fd))
  BY <1>15
<1>17. r.live \cap Owned(m, fd) = {}
  <2>1. r \in Cache /\ Lists(r.windows[fd], {w \in r.live : r.win[w].fd = fd})
    BY <1>16 DEF Shrunk, Agree, Filed
  <2>2. PICK s : s = r.windows[fd]
    OBVIOUS
  <2>3. s \in Seq(Windows) /\ Len(s) = 0
    BY <1>15, <2>1, <2>2, CacheTypes
  <2>4. ToSet(s) = {}
    BY <2>3 DEF ToSet
  <2>5. {w \in r.live : r.win[w].fd = fd} = {}
    BY <2>1, <2>2, <2>4 DEF Lists
  <2> QED
    BY <1>16, <2>5 DEF Shrunk, Owned
<1> QED
  BY <1>14, <1>16, <1>17


-----------------------------------------------------------------------------
(* What a call leaves alone                                                *)

\* The windows of m that somebody other than the context c uses.
Used(m, c) ==
    {v \in m.live : \/ m.win[v].keep_always
                    \/ \E x \in Contexts \ {c} : m.window[x] = v}

\* The cache n has the windows of m that others than c use, as they were.
Carries(m, n, c) ==
    /\ \A v \in Used(m, c) :
          /\ v \in n.live /\ v \notin n.unmapped
          /\ n.win[v].fd = m.win[v].fd
          /\ n.win[v].offset = m.win[v].offset
          /\ n.win[v].size = m.win[v].size
          /\ n.win[v].keep_always = m.win[v].keep_always
    /\ \A x \in Contexts \ {c} : n.window[x] = m.window[x]

\* One step of a call after the other.
LEMMA CarriesOn ==
    ASSUME NEW m, NEW n, NEW r, NEW c, Carries(m, n, c), Carries(n, r, c)
    PROVE  Carries(m, r, c)
<1>1. ASSUME NEW v \in Used(m, c) PROVE v \in Used(n, c)
  BY <1>1 DEF Used, Carries
<1> QED
  BY <1>1 DEF Carries

\* Contexts that take and leave windows.
LEMMA CarriesSame ==
    ASSUME NEW m \in Cache, NEW n, SameMapping(m, n), m.unmapped = {}, NEW c,
           \A x \in Contexts \ {c} : n.window[x] = m.window[x]
    PROVE  Carries(m, n, c)
<1>1. ASSUME NEW v \in Used(m, c) PROVE v \in m.live /\ v \in Windows
  BY <1>1, CacheTypes DEF Used
<1> QED
  BY <1>1 DEF Carries, SameMapping

\* make_room() while c has no window.
LEMMA CarriesRoom ==
    ASSUME NEW m \in Cache, Agree(m, {}), m.unmapped = {}, NEW c \in Contexts,
           m.window[c] = NoWindow, NEW n, Shrunk(m, n, Idle(m))
    PROVE  Carries(m, n, c) /\ n.window[c] = NoWindow
<1>1. ASSUME NEW v \in Used(m, c)
      PROVE  v \in n.live /\ v \notin n.unmapped /\ n.win[v] = m.win[v]
  <2>1. v \in m.live
    BY <1>1 DEF Used
  <2>2. m.win[v].contexts = {x \in Contexts : m.window[x] = v}
    BY <2>1 DEF Agree, Paired
  <2>3. v \notin Idle(m)
    BY <1>1, <2>2 DEF Used, Idle
  <2>4. v \in n.live
    BY <2>1, <2>3 DEF Shrunk
  <2> QED
    BY <2>4 DEF Shrunk
<1>2. ASSUME NEW x \in Contexts \ {c} PROVE n.window[x] = m.window[x]
  <2>1. m.window[x] \in m.live \cup {NoWindow}
    BY DEF Agree, Paired
  <2>2. CASE m.window[x] \in m.live
    <3>1. m.window[x] \in Used(m, c)
      BY <2>2 DEF Used
    <3>2. m.window[x] \in n.live
      BY <1>1, <3>1
    <3> QED
      BY <3>2 DEF Shrunk
  <2>3. CASE m.window[x] = NoWindow
    BY <2>3 DEF Shrunk
  <2> QED
    BY <2>1, <2>2, <2>3
<1>3. n.window[c] = NoWindow
  BY DEF Shrunk
<1> QED
  BY <1>1, <1>2, <1>3 DEF Carries

\* The windows of the file behind a descriptor that is closed go, and no other.
LEMMA ClosedGone ==
    ASSUME NEW m \in Cache, Agree(m, {}), m.unmapped = {}, NEW fd \in Fds,
           NEW n, Shrunk(m, n, Owned(m, fd)), NEW v \in m.live, m.win[v].fd # fd
    PROVE  v \in n.live /\ v \notin n.unmapped /\ n.win[v] = m.win[v]
<1>1. v \notin Owned(m, fd)
  BY DEF Owned
<1>2. v \in n.live
  BY <1>1 DEF Shrunk
<1> QED
  BY <1>2 DEF Shrunk

\* The files of the windows that stay.
LEMMA MappedSame ==
    ASSUME NEW m \in Cache, NEW f, Mapped(m, f), NEW n, SameMapping(m, n)
    PROVE  Mapped(n, f)
<1>1. m.live \subseteq Windows
  BY CacheTypes
<1> QED
  BY <1>1 DEF Mapped, SameMapping

\* Fewer windows map what they did.
LEMMA MappedLess ==
    ASSUME NEW m \in Cache, NEW f, Mapped(m, f), NEW G, NEW n, Shrunk(m, n, G)
    PROVE  Mapped(n, f)
BY DEF Mapped, Shrunk

-----------------------------------------------------------------------------
(* The end of a call                                                       *)

\* What the callers hold survives a call that leaves their windows alone.
LEMMA HeldSurvives ==
    ASSUME MMapInv, NEW c \in Contexts, NEW n \in Cache, Carries(cache, n, c)
    PROVE  /\ \A x \in Contexts \ {c} :
                 /\ Survives(held[x], n) = held[x]
                 /\ held[x] = NoRegion \/ (Backed(held[x], n, file)
                                           /\ n.window[x] = held[x].win)
           /\ \A fd \in Fds : \A r \in kept[fd] :
                 /\ Survives(r, n) = r
                 /\ Backed(r, n, file) /\ r.fd = fd /\ n.win[r.win].keep_always
<1>1. ASSUME NEW x \in Contexts \ {c}
      PROVE  /\ Survives(held[x], n) = held[x]
             /\ held[x] = NoRegion \/ (Backed(held[x], n, file)
                                       /\ n.window[x] = held[x].win)
  <2>1. CASE held[x] = NoRegion
    <3>1. held[x].win \notin n.unmapped
      BY <2>1, CacheTypes, ZeroWindow DEF NoRegion
    <3> QED
      BY <2>1, <3>1 DEF Survives
  <2>2. CASE held[x] # NoRegion
    <3>1. Backed(held[x], cache, file) /\ cache.window[x] = held[x].win
      BY <2>2 DEF MMapInv, HeldBacked
    <3>2. held[x].win \in Used(cache, c)
      BY <3>1 DEF Used, Backed
    <3>3. /\ held[x].win \in n.live /\ held[x].win \notin n.unmapped
          /\ n.win[held[x].win].fd = cache.win[held[x].win].fd
          /\ n.win[held[x].win].offset = cache.win[held[x].win].offset
          /\ n.win[held[x].win].size = cache.win[held[x].win].size
      BY <3>2 DEF Carries
    <3>4. n.window[x] = cache.window[x]
      BY DEF Carries
    <3>5. Backed(held[x], n, file)
      BY <3>1, <3>3 DEF Backed
    <3> QED
      BY <3>1, <3>3, <3>4, <3>5 DEF Survives
  <2> QED
    BY <2>1, <2>2
<1>2. ASSUME NEW fd \in Fds, NEW r \in kept[fd]
      PROVE  /\ Survives(r, n) = r
             /\ Backed(r, n, file) /\ r.fd = fd /\ n.win[r.win].keep_always
  <2>1. Backed(r, cache, file) /\ r.fd = fd /\ cache.win[r.win].keep_always
    BY DEF MMapInv, KeptBacked
  <2>2. r.win \in Used(cache, c)
    BY <2>1 DEF Used, Backed
  <2>3. /\ r.win \in n.live /\ r.win \notin n.unmapped
        /\ n.win[r.win].fd = cache.win[r.win].fd
        /\ n.win[r.win].offset = cache.win[r.win].offset
        /\ n.win[r.win].size = cache.win[r.win].size
        /\ n.win[r.win].keep_always = cache.win[r.win].keep_always
    BY <2>2 DEF Carries
  <2>4. Backed(r, n, file)
    BY <2>1, <2>3 DEF Backed
  <2> QED
    BY <2>1, <2>3, <2>4 DEF Survives
<1> QED
  BY <1>1, <1>2

\* The files of f in g: none was closed, truncated or replaced.
SameFiles(f, g) ==
    \A fd \in Fds : f[fd] # NoFile => /\ g[fd] # NoFile /\ g[fd].id = f[fd].id
                                      /\ g[fd].size >= f[fd].size

\* A file that grows, or whose size is asked for again.
LEMMA FilesStay ==
    ASSUME FilesOK, FilesOK', SameFiles(file, file'), NEW m \in Cache, Mapped(m, file)
    PROVE  /\ Mapped(m, file')
           /\ \A r : Backed(r, m, file) => Backed(r, m, file')
<1>1. Mapped(m, file')
  BY DEF Mapped, SameFiles
<1>2. ASSUME NEW r, Backed(r, m, file) PROVE Backed(r, m, file')
  <2>1. r.fd \in Fds /\ r.reg.offset \in Nat /\ r.reg.size \in Nat
    BY <1>2 DEF Backed, Given
  <2>2. file[r.fd] # NoFile
    BY <1>2, <2>1 DEF Backed, Mapped
  <2>3. file'[r.fd].size >= file[r.fd].size
    BY <2>1, <2>2 DEF SameFiles
  <2>4. file'[r.fd].size \in Nat /\ file[r.fd].size \in Nat
    BY <2>1 DEF FilesOK
  <2>5. r.reg.offset + r.reg.size <= file[r.fd].size
    BY <1>2 DEF Backed
  <2>6. r.reg.offset + r.reg.size <= file'[r.fd].size
    BY <2>1, <2>3, <2>4, <2>5
  <2> QED
    BY <1>2, <2>6 DEF Backed
<1> QED
  BY <1>1, <1>2

\* The cache n is m with keep_always set for w if keep is, and the record of the
\* removed mappings cleared.
Settled(m, n, w, keep) ==
    /\ n \in Cache /\ n.unmapped = {}
    /\ n.live = m.live /\ n.window = m.window /\ n.windows = m.windows
    /\ n.unused = m.unused /\ n.last_unused = m.last_unused
    /\ \A v \in Windows :
          /\ n.win[v].fd = m.win[v].fd /\ n.win[v].maps = m.win[v].maps
          /\ n.win[v].offset = m.win[v].offset /\ n.win[v].size = m.win[v].size
          /\ n.win[v].in_unused = m.win[v].in_unused
          /\ n.win[v].contexts = m.win[v].contexts
          /\ n.win[v].keep_always <=> m.win[v].keep_always \/ (keep /\ v = w)

\* A call that only marks its window ends with the cache settled.
LEMMA SettledForms ==
    ASSUME NEW m \in Cache, NEW w \in Windows, NEW keep \in BOOLEAN
    PROVE  /\ Settled(m, [m EXCEPT !.unmapped = {}], w, FALSE)
           /\ Settled(m, [[m EXCEPT !.win[w].keep_always = @ \/ keep] EXCEPT
                            !.unmapped = {}], w, keep)
<1>1. m.win \in [Windows -> Win]
  BY CacheTypes
<1>2. PICK e : e = [m EXCEPT !.unmapped = {}]
  OBVIOUS
<1>3. /\ e \in Cache /\ e.unmapped = {} /\ e.live = m.live /\ e.window = m.window
      /\ e.windows = m.windows /\ e.unused = m.unused
      /\ e.last_unused = m.last_unused /\ e.win = m.win
  BY <1>2 DEF Cache
<1>4. Settled(m, e, w, FALSE)
  BY <1>3 DEF Settled
<1>5. PICK v : v = [m.win[w] EXCEPT !.keep_always = @ \/ keep]
  OBVIOUS
<1>6. m.win[w] \in Win /\ m.win[w].keep_always \in BOOLEAN
  BY WinTypes
<1>7. /\ v \in Win /\ v.fd = m.win[w].fd /\ v.maps = m.win[w].maps
      /\ v.offset = m.win[w].offset /\ v.size = m.win[w].size
      /\ v.in_unused = m.win[w].in_unused /\ v.contexts = m.win[w].contexts
      /\ v.keep_always = (m.win[w].keep_always \/ keep)
  BY <1>5, <1>6 DEF Win
<1>8. PICK z : z = [m.win EXCEPT ![w] = v]
  OBVIOUS
<1>9. z \in [Windows -> Win] /\ z[w] = v /\ \A x \in Windows : x # w => z[x] = m.win[x]
  BY <1>1, <1>7, <1>8
<1>10. PICK n : n = [[m EXCEPT !.win[w].keep_always = @ \/ keep] EXCEPT !.unmapped = {}]
  OBVIOUS
<1>11. n = [m EXCEPT !.win = z, !.unmapped = {}]
  <2>1. [m EXCEPT !.win[w].keep_always = @ \/ keep] = [m EXCEPT !.win = z]
    BY <1>1, <1>5, <1>8 DEF Cache
  <2> QED
    BY <1>10, <2>1 DEF Cache
<1>12. /\ n \in Cache /\ n.unmapped = {} /\ n.live = m.live /\ n.window = m.window
       /\ n.windows = m.windows /\ n.unused = m.unused
       /\ n.last_unused = m.last_unused /\ n.win = z
  BY <1>9, <1>11 DEF Cache
<1>13. ASSUME NEW x \in Windows
       PROVE  /\ n.win[x].fd = m.win[x].fd /\ n.win[x].maps = m.win[x].maps
              /\ n.win[x].offset = m.win[x].offset /\ n.win[x].size = m.win[x].size
              /\ n.win[x].in_unused = m.win[x].in_unused
              /\ n.win[x].contexts = m.win[x].contexts
              /\ n.win[x].keep_always <=> m.win[x].keep_always \/ (keep /\ x = w)
  <2>1. CASE x = w
    BY <1>7, <1>9, <1>12, <2>1
  <2>2. CASE x # w
    BY <1>9, <1>12, <2>2
  <2> QED
    BY <2>1, <2>2
<1>14. Settled(m, n, w, keep)
  BY <1>12, <1>13 DEF Settled
<1> QED
  BY <1>2, <1>4, <1>10, <1>14

\* The lists still agree, and what was backed is.
LEMMA SettledAgrees ==
    ASSUME NEW m \in Cache, Agree(m, {}), NEW w, NEW keep,
           keep => w \in m.live /\ m.win[w].contexts # {}, NEW n, Settled(m, n, w, keep)
    PROVE  /\ Agree(n, {})
           /\ \A f : Mapped(m, f) => Mapped(n, f)
           /\ \A r, f : Backed(r, m, f) => Backed(r, n, f)
<1>1. m.live \subseteq Windows
  BY CacheTypes
<1>2. Paired(n)
  <2>1. Paired(m)
    BY DEF Agree
  <2> QED
    BY <1>1, <2>1 DEF Paired, Settled
<1>3. Filed(n)
  <2> SUFFICES ASSUME NEW fd \in Fds
               PROVE  Lists(n.windows[fd], {v \in n.live : n.win[v].fd = fd})
    BY DEF Filed
  <2>1. {v \in n.live : n.win[v].fd = fd} = {v \in m.live : m.win[v].fd = fd}
    BY <1>1 DEF Settled
  <2>2. n.windows[fd] = m.windows[fd]
    BY DEF Settled
  <2> QED
    BY <2>1, <2>2 DEF Agree, Filed
<1>4. Parked(n, {})
  <2>1. {v \in n.live : n.win[v].in_unused} = {v \in m.live : m.win[v].in_unused}
    BY <1>1 DEF Settled
  <2>2. Lists(n.unused, {v \in n.live : n.win[v].in_unused})
    BY <2>1 DEF Agree, Parked, Settled
  <2>3. ASSUME NEW v \in n.live
        PROVE  /\ n.win[v].fd \in Fds
               /\ n.win[v].in_unused <=> n.win[v].contexts = {} /\ ~n.win[v].keep_always
    <3>1. v \in m.live /\ v \in Windows
      BY <1>1, <2>3 DEF Settled
    <3>2. /\ m.win[v].fd \in Fds
          /\ m.win[v].in_unused <=> m.win[v].contexts = {} /\ ~m.win[v].keep_always
      BY <3>1 DEF Agree, Parked
    <3>3. /\ n.win[v].fd = m.win[v].fd
          /\ n.win[v].in_unused = m.win[v].in_unused
          /\ n.win[v].contexts = m.win[v].contexts
          /\ n.win[v].keep_always <=> m.win[v].keep_always \/ (keep /\ v = w)
      BY <3>1 DEF Settled
    <3> QED
      BY <3>2, <3>3
  <2>4. n.last_unused \in ToSet(n.unused) \cup {NoWindow}
    BY DEF Agree, Parked, Settled
  <2> QED
    BY <2>2, <2>3, <2>4 DEF Parked
<1>5. ASSUME NEW f, Mapped(m, f) PROVE Mapped(n, f)
  BY <1>1, <1>5 DEF Mapped, Settled
<1>6. ASSUME NEW r, NEW f, Backed(r, m, f) PROVE Backed(r, n, f)
  BY <1>1, <1>6 DEF Backed, Settled
<1> QED
  BY <1>2, <1>3, <1>4, <1>5, <1>6 DEF Agree

\* A call returns the region reg, in the window w.
LEMMA ReturnKeeps ==
    ASSUME MMapInv, FilesOK', SameFiles(file, file'),
           NEW c \in Contexts, NEW fd \in Fds, NEW keep \in BOOLEAN,
           NEW reg \in [offset : Nat, size : Nat], NEW n \in Cache, Agree(n, {}),
           Mapped(n, file), Carries(cache, n, c), NEW w \in n.live, n.window[c] = w,
           n.win[w].fd = fd, n.win[w].offset <= reg.offset,
           reg.offset + reg.size <= n.win[w].offset + n.win[w].size,
           reg.offset + reg.size <= file[fd].size,
           Return(n, c, fd, reg, keep, w)
    PROVE  MMapInv'
<1>1. w \in Windows /\ c \in n.win[w].contexts
  BY CacheTypes DEF Agree, Paired
<1>2. PICK r : r = [win |-> w, fd |-> fd, id |-> file[fd].id, reg |-> reg]
  OBVIOUS
<1>3. PICK e : e = [[n EXCEPT !.win[w].keep_always = @ \/ keep] EXCEPT !.unmapped = {}]
  OBVIOUS
<1>4. /\ cache' = e
      /\ held' = [x \in Contexts |-> IF x = c THEN r ELSE Survives(held[x], n)]
      /\ kept' = [x \in Fds |-> {Survives(k, n) : k \in kept[x]} \cup
                                (IF keep /\ x = fd THEN {r} ELSE {})]
  BY <1>2, <1>3 DEF Return
<1>5. Settled(n, e, w, keep)
  BY <1>1, <1>3, SettledForms
<1>6. e \in Cache /\ e.unmapped = {} /\ e.window = n.window
  BY <1>5 DEF Settled
<1>7. /\ Agree(e, {}) /\ Mapped(e, file)
      /\ \A s : Backed(s, n, file) => Backed(s, e, file)
  BY <1>1, <1>5, SettledAgrees
<1>8. FilesOK
  BY DEF MMapInv
<1>9. /\ Mapped(e, file')
      /\ \A s : Backed(s, n, file) => Backed(s, e, file')
  <2>1. Mapped(e, file') /\ \A s : Backed(s, e, file) => Backed(s, e, file')
    BY <1>6, <1>7, <1>8, FilesStay
  <2> QED
    BY <1>7, <2>1
<1>10. Backed(r, n, file)
  <2>1. r \in Given
    BY <1>1, <1>2, <1>8 DEF Given, FilesOK
  <2> QED
    BY <1>2, <2>1 DEF Backed
<1>11. /\ \A x \in Contexts \ {c} :
                 /\ Survives(held[x], n) = held[x]
                 /\ held[x] = NoRegion \/ (Backed(held[x], n, file)
                                           /\ n.window[x] = held[x].win)
       /\ \A x \in Fds : \A k \in kept[x] :
                 /\ Survives(k, n) = k
                 /\ Backed(k, n, file) /\ k.fd = x /\ n.win[k.win].keep_always
  BY HeldSurvives
<1>12. DOMAIN held' = Contexts /\ DOMAIN kept' = Fds
  BY <1>4
<1>13. HeldBacked(held', e, file')
  <2> SUFFICES ASSUME NEW x \in Contexts
               PROVE  held'[x] = NoRegion \/ (Backed(held'[x], e, file')
                                              /\ e.window[x] = held'[x].win)
    BY DEF HeldBacked
  <2>1. CASE x = c
    <3>1. held'[x] = r
      BY <1>4, <2>1
    <3>2. r.win = w
      BY <1>2
    <3> QED
      BY <1>6, <1>9, <1>10, <2>1, <3>1, <3>2
  <2>2. CASE x # c
    <3>1. held'[x] = held[x]
      BY <1>4, <1>11, <2>2
    <3> QED
      BY <1>6, <1>9, <1>11, <2>2, <3>1
  <2> QED
    BY <2>1, <2>2
<1>14. KeptBacked(kept', e, file')
  <2> SUFFICES ASSUME NEW x \in Fds, NEW k \in kept'[x]
               PROVE  Backed(k, e, file') /\ k.fd = x /\ e.win[k.win].keep_always
    BY DEF KeptBacked
  <2>1. k \in kept[x] \/ (keep /\ x = fd /\ k = r)
    <3>1. kept'[x] = {Survives(q, n) : q \in kept[x]} \cup
                     (IF keep /\ x = fd THEN {r} ELSE {})
      BY <1>4
    <3> QED
      BY <1>11, <3>1
  <2>2. CASE k \in kept[x]
    <3>1. Backed(k, n, file) /\ k.fd = x /\ n.win[k.win].keep_always
      BY <1>11, <2>2
    <3>2. k.win \in Windows
      BY <3>1 DEF Backed, Given
    <3>3. e.win[k.win].keep_always
      BY <1>5, <3>1, <3>2 DEF Settled
    <3> QED
      BY <1>9, <3>1, <3>3
  <2>3. CASE keep /\ x = fd /\ k = r
    <3>1. k.win = w /\ k.fd = x
      BY <1>2, <2>3
    <3>2. e.win[w].keep_always
      BY <1>1, <1>5, <2>3 DEF Settled
    <3> QED
      BY <1>9, <1>10, <2>3, <3>1, <3>2
  <2> QED
    BY <2>1, <2>2, <2>3
<1> QED
  BY <1>4, <1>6, <1>7, <1>9, <1>12, <1>13, <1>14 DEF MMapInv

\* A call fails.
LEMMA ErrorKeeps ==
    ASSUME MMapInv, FilesOK', SameFiles(file, file'),
           NEW c \in Contexts, NEW n \in Cache, Agree(n, {}),
           Mapped(n, file), Carries(cache, n, c), ReturnError(n, c)
    PROVE  MMapInv'
<1>3. PICK e : e = [n EXCEPT !.unmapped = {}]
  OBVIOUS
<1>4. /\ cache' = e
      /\ held' = [x \in Contexts |-> IF x = c THEN NoRegion ELSE Survives(held[x], n)]
      /\ kept' = [x \in Fds |-> {Survives(k, n) : k \in kept[x]}]
  BY <1>3 DEF ReturnError
<1>5. /\ e \in Cache /\ e.unmapped = {} /\ e.window = n.window /\ e.live = n.live
      /\ e.win = n.win /\ e.windows = n.windows /\ e.unused = n.unused
      /\ e.last_unused = n.last_unused
  BY <1>3 DEF Cache
<1>6. Settled(n, e, NoWindow, FALSE)
  BY <1>5 DEF Settled
<1>7. /\ Agree(e, {}) /\ Mapped(e, file)
      /\ \A s : Backed(s, n, file) => Backed(s, e, file)
  BY <1>6, SettledAgrees
<1>8. FilesOK
  BY DEF MMapInv
<1>9. /\ Mapped(e, file')
      /\ \A s : Backed(s, n, file) => Backed(s, e, file')
  <2>1. Mapped(e, file') /\ \A s : Backed(s, e, file) => Backed(s, e, file')
    BY <1>5, <1>7, <1>8, FilesStay
  <2> QED
    BY <1>7, <2>1
<1>11. /\ \A x \in Contexts \ {c} :
                 /\ Survives(held[x], n) = held[x]
                 /\ held[x] = NoRegion \/ (Backed(held[x], n, file)
                                           /\ n.window[x] = held[x].win)
       /\ \A x \in Fds : \A k \in kept[x] :
                 /\ Survives(k, n) = k
                 /\ Backed(k, n, file) /\ k.fd = x /\ n.win[k.win].keep_always
  BY HeldSurvives
<1>12. DOMAIN held' = Contexts /\ DOMAIN kept' = Fds
  BY <1>4
<1>13. HeldBacked(held', e, file')
  <2> SUFFICES ASSUME NEW x \in Contexts
               PROVE  held'[x] = NoRegion \/ (Backed(held'[x], e, file')
                                              /\ e.window[x] = held'[x].win)
    BY DEF HeldBacked
  <2>1. CASE x = c
    BY <1>4, <2>1
  <2>2. CASE x # c
    <3>1. held'[x] = held[x]
      BY <1>4, <1>11, <2>2
    <3> QED
      BY <1>5, <1>9, <1>11, <2>2, <3>1
  <2> QED
    BY <2>1, <2>2
<1>14. KeptBacked(kept', e, file')
  <2> SUFFICES ASSUME NEW x \in Fds, NEW k \in kept'[x]
               PROVE  Backed(k, e, file') /\ k.fd = x /\ e.win[k.win].keep_always
    BY DEF KeptBacked
  <2>1. k \in kept[x]
    <3>1. kept'[x] = {Survives(q, n) : q \in kept[x]}
      BY <1>4
    <3> QED
      BY <1>11, <3>1
  <2> QED
    BY <1>5, <1>9, <1>11, <2>1
<1> QED
  BY <1>4, <1>5, <1>7, <1>9, <1>12, <1>13, <1>14 DEF MMapInv

\* add_mmap() takes no window from another.
LEMMA CarriesAdd ==
    ASSUME NEW m \in Cache, Agree(m, {}), NEW c \in Contexts, NEW w, NEW n,
           NEW fd, n.live = m.live \cup {w}, n.window = [m.window EXCEPT ![c] = w],
           \A v \in m.live \ {w} : /\ n.win[v].fd = m.win[v].fd
                                   /\ n.win[v].offset = m.win[v].offset
                                   /\ n.win[v].size = m.win[v].size
                                   /\ n.win[v].maps = m.win[v].maps
                                   /\ n.win[v].keep_always = m.win[v].keep_always,
           n.unmapped \subseteq m.unmapped \cup {w}, m.unmapped \cap m.live = {},
           w \in m.live => m.win[w].contexts = {} /\ ~m.win[w].keep_always
    PROVE  Carries(m, n, c)
<1>1. m.window \in [Contexts -> Windows \cup {NoWindow}]
  BY CacheTypes
<1>2. \A x \in Contexts \ {c} : n.window[x] = m.window[x]
  BY <1>1
<1>3. ASSUME NEW v \in Used(m, c) PROVE v \in m.live /\ v # w
  <2>1. v \in m.live /\ m.win[v].contexts = {x \in Contexts : m.window[x] = v}
    BY <1>3 DEF Used, Agree, Paired
  <2>2. m.win[v].keep_always \/ m.win[v].contexts # {}
    BY <1>3, <2>1 DEF Used
  <2> QED
    BY <2>1, <2>2
<1> QED
  BY <1>2, <1>3 DEF Carries

-----------------------------------------------------------------------------
(* mmap_cache_get()                                                        *)

\* add_mmap() after room was made.
LEMMA AddKeeps ==
    ASSUME MMapInv, FilesOK', SameFiles(file, file'),
           NEW c \in Contexts, NEW fd \in Fds, NEW keep \in BOOLEAN, file[fd] # NoFile,
           NEW reg \in [offset : Nat, size : Nat \ {0}],
           NEW st \in Nat, reg.offset + reg.size <= st, st <= file[fd].size,
           NEW r \in Cache, Agree(r, {}), Mapped(r, file), Carries(cache, r, c),
           r.window[c] = NoWindow, r.unmapped \cap r.live = {},
           Allocates(r) => r.live # Windows,
           Return(AddMmap(r, c, fd, keep, WindowAround(reg, st)),
                  c, fd, reg, keep, WindowAdded(r))
    PROVE  MMapInv'
<1>1. PICK a : a = WindowAround(reg, st)
  OBVIOUS
<1>2. PICK n : n = AddMmap(r, c, fd, keep, a)
  OBVIOUS
<1>3. PICK w : w = WindowAdded(r)
  OBVIOUS
<1>4. reg.offset \in Nat /\ reg.size \in Nat \ {0} /\ reg \in [offset : Nat, size : Nat]
  OBVIOUS
<1>5. /\ a.offset \in Nat /\ a.size \in Nat /\ a.offset <= reg.offset
      /\ reg.offset + reg.size <= a.offset + a.size
  BY <1>1, <1>4, AroundCovers
<1>6. file[fd].id \in 0..MaxOpens /\ file[fd].size \in Nat
  BY DEF MMapInv, FilesOK
<1>7. /\ n \in Cache /\ Agree(n, {}) /\ w \in n.live
      /\ n.live = r.live \cup {w} /\ n.window = [r.window EXCEPT ![c] = w]
      /\ n.win[w].fd = fd /\ n.win[w].maps = file[fd].id
      /\ n.win[w].offset = a.offset /\ n.win[w].size = a.size
      /\ n.win[w].keep_always = keep
      /\ \A v \in r.live \ {w} : /\ n.win[v].fd = r.win[v].fd
                                 /\ n.win[v].offset = r.win[v].offset
                                 /\ n.win[v].size = r.win[v].size
                                 /\ n.win[v].maps = r.win[v].maps
                                 /\ n.win[v].keep_always = r.win[v].keep_always
      /\ n.unmapped \subseteq r.unmapped \cup {w}
      /\ w \in r.live => r.win[w].contexts = {} /\ ~r.win[w].keep_always
  BY <1>2, <1>3, <1>5, <1>6, AddMmapAgrees
<1>8. Carries(r, n, c)
  BY <1>7, CarriesAdd
<1>9. Carries(cache, n, c)
  BY <1>8, CarriesOn
<1>10. Mapped(n, file)
  <2> SUFFICES ASSUME NEW v \in n.live, n.win[v].fd \in Fds
               PROVE  file[n.win[v].fd] # NoFile /\ n.win[v].maps = file[n.win[v].fd].id
    BY DEF Mapped
  <2>1. CASE v = w
    BY <1>7, <2>1
  <2>2. CASE v # w
    BY <1>7, <2>2 DEF Mapped
  <2> QED
    BY <2>1, <2>2
<1>11. n.window[c] = w
  <2>1. r.window \in [Contexts -> Windows \cup {NoWindow}]
    BY CacheTypes
  <2> QED
    BY <1>7, <2>1
<1>12. reg.offset + reg.size <= file[fd].size
  BY <1>4, <1>6
<1>13. Return(n, c, fd, reg, keep, w)
  BY <1>1, <1>2, <1>3
<1>14. /\ n.win[w].fd = fd /\ n.win[w].offset <= reg.offset
       /\ reg.offset + reg.size <= n.win[w].offset + n.win[w].size
  BY <1>5, <1>7
<1>15. n \in Cache /\ Agree(n, {}) /\ w \in n.live
  BY <1>7
<1> QED
  BY <1>4, <1>9, <1>10, <1>11, <1>12, <1>13, <1>14, <1>15, ReturnKeeps

\* mmap_cache_get(), for a region that the file has.
LEMMA GetKeeps ==
    ASSUME MMapInv, FilesOK', SameFiles(file, file'),
           NEW c \in Contexts, NEW fd \in Fds, NEW keep \in BOOLEAN, file[fd] # NoFile,
           NEW reg \in [offset : Nat, size : Nat \ {0}],
           NEW st \in Nat, reg.offset + reg.size <= st, st <= file[fd].size,
           Get(c, fd, reg, keep, st)
    PROVE  MMapInv'
<1>1. reg.offset \in Nat /\ reg.size \in Nat \ {0} /\ reg \in [offset : Nat, size : Nat]
  OBVIOUS
<1>2. reg.offset + reg.size <= file[fd].size
  BY <1>1 DEF MMapInv, FilesOK
<1>3. cache \in Cache /\ cache.unmapped = {} /\ Agree(cache, {}) /\ Mapped(cache, file)
  BY DEF MMapInv
<1>4. CASE TryContext(cache, c, fd, reg) /\ Return(cache, c, fd, reg, keep, cache.window[c])
  <2>1. PICK w : w = cache.window[c]
    OBVIOUS
  <2>2. w \in cache.live
    BY <1>3, <1>4, <2>1 DEF TryContext, Agree, Paired
  <2>3. /\ cache.win[w].fd = fd /\ reg.offset >= cache.win[w].offset
        /\ reg.offset + reg.size <= cache.win[w].offset + cache.win[w].size
    BY <1>4, <2>1 DEF TryContext, WindowMatches
  <2>4. cache.win[w].offset \in Nat
    BY <1>3, <2>2, CacheTypes, WinTypes
  <2>5. Carries(cache, cache, c)
    BY <1>3 DEF Carries, Used
  <2>6. Return(cache, c, fd, reg, keep, w) /\ cache.window[c] = w
    BY <1>4, <2>1
  <2>7. cache.win[w].fd = fd /\ cache.win[w].offset <= reg.offset
    BY <1>1, <2>3, <2>4
  <2> QED
    BY <1>1, <1>2, <1>3, <2>2, <2>3, <2>5, <2>6, <2>7, ReturnKeeps
<1>5. PICK m : m = ContextDetach(cache, c)
  OBVIOUS
<1>6. /\ m \in Cache /\ Agree(m, {}) /\ SameMapping(cache, m)
      /\ m.window = [cache.window EXCEPT ![c] = NoWindow]
  BY <1>3, <1>5, DetachAgrees
<1>7. m.unmapped = {} /\ m.window[c] = NoWindow
      /\ \A x \in Contexts \ {c} : m.window[x] = cache.window[x]
  <2>1. cache.window \in [Contexts -> Windows \cup {NoWindow}]
    BY <1>3, CacheTypes
  <2> QED
    BY <1>3, <1>6, <2>1 DEF SameMapping
<1>a. m \in Cache /\ Agree(m, {})
  BY <1>6
<1>b. m.unmapped = {} /\ m.window[c] = NoWindow
  BY <1>7
<1>8. Carries(cache, m, c)
  BY <1>3, <1>6, <1>7, CarriesSame
<1>9. Mapped(m, file)
  BY <1>3, <1>6, MappedSame
<1>10. PICK hits : hits = FindMmap(m, fd, reg)
  OBVIOUS
<1>11. CASE /\ hits # {}
            /\ LET w == m.windows[fd][CHOOSE i \in hits : \A j \in hits : i <= j]
               IN  Return(ContextAttach(m, c, w), c, fd, reg, keep, w)
  <2>1. m.windows \in [Fds -> Seq(Windows)]
    BY <1>6, CacheTypes
  <2>2. hits \subseteq Nat
    BY <1>10, <2>1 DEF FindMmap
  <2>3. \E i \in hits : \A j \in hits : i <= j
    BY <1>11, <2>2, LeastElement
  <2>4. PICK i \in hits : Return(ContextAttach(m, c, m.windows[fd][i]),
                                 c, fd, reg, keep, m.windows[fd][i])
    BY <1>11, <2>3
  <2>5. PICK w : w = m.windows[fd][i]
    OBVIOUS
  <2>6. /\ i \in DOMAIN m.windows[fd]
        /\ m.win[w].fd = fd /\ reg.offset >= m.win[w].offset
        /\ reg.offset + reg.size <= m.win[w].offset + m.win[w].size
    BY <1>10, <2>4, <2>5 DEF FindMmap, WindowMatches
  <2>7. w \in m.live
    BY <1>6, <2>5, <2>6 DEF Agree, Filed, Lists, ToSet
  <2>8. PICK n : n = ContextAttach(m, c, w)
    OBVIOUS
  <2>9. /\ n \in Cache /\ Agree(n, {}) /\ SameMapping(m, n)
        /\ n.window = [m.window EXCEPT ![c] = w]
    BY <1>a, <1>b, <2>7, <2>8, AttachAgrees
  <2>10. n.window[c] = w /\ \A x \in Contexts \ {c} : n.window[x] = m.window[x]
    <3>1. m.window \in [Contexts -> Windows \cup {NoWindow}]
      BY <1>6, CacheTypes
    <3> QED
      BY <2>9, <3>1
  <2>11. Carries(m, n, c)
    BY <1>6, <1>7, <2>9, <2>10, CarriesSame
  <2>12. Carries(cache, n, c)
    BY <1>8, <2>11, CarriesOn
  <2>13. Mapped(n, file)
    BY <1>6, <1>9, <2>9, MappedSame
  <2>14. w \in Windows /\ w \in n.live /\ m.win[w].offset \in Nat
    BY <1>6, <2>7, <2>9, CacheTypes, WinTypes DEF SameMapping
  <2>15. /\ n.win[w].fd = fd /\ n.win[w].offset <= reg.offset
         /\ reg.offset + reg.size <= n.win[w].offset + n.win[w].size
    BY <1>1, <2>6, <2>9, <2>14 DEF SameMapping
  <2>16. Return(n, c, fd, reg, keep, w)
    BY <2>4, <2>5, <2>8
  <2> QED
    <3>1. n \in Cache /\ Agree(n, {}) /\ n.window[c] = w /\ w \in n.live
      BY <2>9, <2>10, <2>14
    <3>2. reg \in [offset : Nat, size : Nat]
      BY <1>1
    <3> QED
      BY <1>2, <2>12, <2>13, <2>15, <2>16, <3>1, <3>2, ReturnKeeps
<1>12. ASSUME NEW k \in Nat, NEW r, r = MakeRoom(m, k)
       PROVE  /\ r \in Cache /\ Agree(r, {}) /\ Mapped(r, file) /\ Carries(cache, r, c)
              /\ r.window[c] = NoWindow /\ r.unmapped \cap r.live = {}
  <2>1. Shrunk(m, r, Idle(m))
    BY <1>6, <1>12, RoomMade
  <2>2. Carries(m, r, c) /\ r.window[c] = NoWindow
    BY <1>a, <1>b, <2>1, CarriesRoom
  <2>3. Carries(cache, r, c)
    BY <1>8, <2>2, CarriesOn
  <2>4. Mapped(r, file)
    BY <1>6, <1>9, <2>1, MappedLess
  <2> QED
    BY <1>7, <2>1, <2>2, <2>3, <2>4 DEF Shrunk
<1>13. CASE \E k \in 0..MaxNoMem :
               LET r == MakeRoom(m, k) IN
               /\ hits = {}
               /\ Cardinality(m.live) - Cardinality(r.live) = k
               /\ Allocates(r) => r.live # Windows
               /\ Return(AddMmap(r, c, fd, keep, WindowAround(reg, st)),
                         c, fd, reg, keep, WindowAdded(r))
  <2>1. PICK k \in 0..MaxNoMem :
               /\ Allocates(MakeRoom(m, k)) => MakeRoom(m, k).live # Windows
               /\ Return(AddMmap(MakeRoom(m, k), c, fd, keep, WindowAround(reg, st)),
                         c, fd, reg, keep, WindowAdded(MakeRoom(m, k)))
    BY <1>13
  <2>2. PICK r : r = MakeRoom(m, k)
    OBVIOUS
  <2>3. k \in Nat
    BY CacheAssumption
  <2>4. /\ r \in Cache /\ Agree(r, {}) /\ Mapped(r, file) /\ Carries(cache, r, c)
        /\ r.window[c] = NoWindow /\ r.unmapped \cap r.live = {}
    BY <1>12, <2>2, <2>3
  <2>5. /\ Allocates(r) => r.live # Windows
        /\ Return(AddMmap(r, c, fd, keep, WindowAround(reg, st)),
                  c, fd, reg, keep, WindowAdded(r))
    BY <2>1, <2>2
  <2> QED
    BY <2>4, <2>5, AddKeeps
<1>14. CASE \E k \in 1..MaxNoMem :
               LET r == MakeRoom(m, k) IN
               /\ hits = {}
               /\ Cardinality(m.live) - Cardinality(r.live) = k - 1
               /\ ReturnError(r, c)
  <2>1. PICK k \in 1..MaxNoMem : ReturnError(MakeRoom(m, k), c)
    BY <1>14
  <2>2. PICK r : r = MakeRoom(m, k)
    OBVIOUS
  <2>3. k \in Nat
    BY CacheAssumption
  <2>4. r \in Cache /\ Agree(r, {}) /\ Mapped(r, file) /\ Carries(cache, r, c)
    BY <1>12, <2>2, <2>3
  <2>5. ReturnError(r, c)
    BY <2>1, <2>2
  <2> QED
    BY <2>4, <2>5, ErrorKeeps
<1>15. CASE hits = {} /\ ReturnError(m, c)
  BY <1>6, <1>8, <1>9, <1>15, ErrorKeeps
<1> QED
  BY <1>4, <1>5, <1>10, <1>11, <1>13, <1>14, <1>15 DEF Get

-----------------------------------------------------------------------------
(* The steps                                                               *)

\* A step that leaves the cache and the callers alone.
LEMMA CacheStays ==
    ASSUME MMapInv, FilesOK', SameFiles(file, file'), UNCHANGED <<cache, held, kept>>
    PROVE  MMapInv'
<1>1. FilesOK /\ cache \in Cache /\ Mapped(cache, file)
      /\ HeldBacked(held, cache, file) /\ KeptBacked(kept, cache, file)
  BY DEF MMapInv
<1>2. /\ Mapped(cache, file')
      /\ \A r : Backed(r, cache, file) => Backed(r, cache, file')
  BY <1>1, FilesStay
<1>3. HeldBacked(held, cache, file') /\ KeptBacked(kept, cache, file')
  BY <1>1, <1>2 DEF HeldBacked, KeptBacked
<1> QED
  BY <1>2, <1>3 DEF MMapInv

\* The cache that mmap_cache_new() makes.
LEMMA InitKeeps == MMapInit => MMapInv
<1> SUFFICES ASSUME MMapInit PROVE MMapInv
  OBVIOUS
<1>1. PICK e : e = EmptyCache
  OBVIOUS
<1>2. /\ e.live = {} /\ e.win = [w \in Windows |-> Zero]
      /\ e.window = [c \in Contexts |-> NoWindow]
      /\ e.windows = [fd \in Fds |-> <<>>] /\ e.unused = <<>>
      /\ e.last_unused = NoWindow /\ e.unmapped = {}
  BY <1>1 DEF EmptyCache
<1>3. e \in Cache
  <2>1. /\ [w \in Windows |-> Zero] \in [Windows -> Win]
        /\ [c \in Contexts |-> NoWindow] \in [Contexts -> Windows \cup {NoWindow}]
        /\ [fd \in Fds |-> <<>>] \in [Fds -> Seq(Windows)]
        /\ <<>> \in Seq(Windows)
    BY ZeroWindow
  <2> QED
    BY <1>1, <2>1 DEF EmptyCache, Cache
<1>4. Lists(<<>>, {})
  BY DEF Lists, IsInjective, ToSet
<1>5. Paired(e)
  BY <1>2 DEF Paired
<1>6. Filed(e)
  <2> SUFFICES ASSUME NEW fd \in Fds
               PROVE  Lists(e.windows[fd], {w \in e.live : e.win[w].fd = fd})
    BY DEF Filed
  <2>1. e.windows[fd] = <<>> /\ {w \in e.live : e.win[w].fd = fd} = {}
    BY <1>2
  <2> QED
    BY <1>4, <2>1
<1>7. Parked(e, {})
  <2>1. {w \in e.live : e.win[w].in_unused} = {}
    BY <1>2
  <2>2. Lists(e.unused, {w \in e.live : e.win[w].in_unused})
    BY <1>2, <1>4, <2>1
  <2> QED
    BY <1>2, <2>2 DEF Parked
<1>8. Mapped(e, file)
  BY <1>2 DEF Mapped
<1>9. FilesOK
  BY CacheAssumption DEF MMapInit, FilesOK, NoFile
<1>10. cache = e /\ held = [c \in Contexts |-> NoRegion] /\ kept = [fd \in Fds |-> {}]
  BY <1>1 DEF MMapInit
<1>11. HeldBacked(held, e, file) /\ KeptBacked(kept, e, file)
  BY <1>10 DEF HeldBacked, KeptBacked
<1> QED
  BY <1>2, <1>3, <1>5, <1>6, <1>7, <1>8, <1>9, <1>10, <1>11 DEF MMapInv, Agree

\* journal_file_open(): no window has the descriptor yet.
LEMMA OpenKeeps ==
    ASSUME MMapInv, NEW fd \in Fds, Open(fd)
    PROVE  MMapInv'
<1>1. PICK s \in Sizes :
         file' = [file EXCEPT ![fd] = [id |-> opened + 1, size |-> s, stat |-> s]]
  BY DEF Open
<1>2. s \in Nat /\ s # 0 /\ MaxOpens \in Nat
  BY CacheAssumption
<1>3. FilesOK /\ file[fd] = NoFile /\ opened < MaxOpens /\ opened' = opened + 1
  BY DEF Open, MMapInv
<1>4. opened' \in 0..MaxOpens
  BY <1>2, <1>3 DEF FilesOK
<1>5. PICK z : z = [id |-> opened + 1, size |-> s, stat |-> s]
  OBVIOUS
<1>6. /\ z \in [id : 0..MaxOpens, size : Nat, stat : Nat]
      /\ z.stat <= z.size /\ z.size # 0
  BY <1>2, <1>3, <1>4, <1>5
<1>7. /\ file' \in [Fds -> [id : 0..MaxOpens, size : Nat, stat : Nat]]
      /\ file'[fd] = z /\ \A x \in Fds : x # fd => file'[x] = file[x]
  BY <1>1, <1>3, <1>5, <1>6 DEF FilesOK
<1>8. FilesOK'
  <2>1. \A x \in Fds : file'[x].stat <= file'[x].size
                       /\ (file'[x] # NoFile => file'[x].size # 0)
    BY <1>3, <1>6, <1>7 DEF FilesOK
  <2> QED
    BY <1>4, <1>7, <2>1 DEF FilesOK
<1>9. SameFiles(file, file')
  <2> SUFFICES ASSUME NEW x \in Fds, file[x] # NoFile
               PROVE  file'[x] # NoFile /\ file'[x].id = file[x].id
                      /\ file'[x].size >= file[x].size
    BY DEF SameFiles
  <2>1. file'[x] = file[x] /\ file[x].size \in Nat
    BY <1>3, <1>7 DEF FilesOK
  <2> QED
    BY <2>1
<1>10. UNCHANGED <<cache, held, kept>>
  BY DEF Open
<1> QED
  BY <1>8, <1>9, <1>10, CacheStays

\* The file of fd gets another size, or is asked for its size.
LEMMA FileChanges ==
    ASSUME FilesOK, NEW fd \in Fds, file[fd] # NoFile, NEW size \in Nat, NEW st \in Nat,
           file' = [file EXCEPT ![fd] = [id |-> file[fd].id, size |-> size, stat |-> st]],
           opened' = opened, size >= file[fd].size, st <= size
    PROVE  FilesOK' /\ SameFiles(file, file')
<1>1. PICK z : z = [id |-> file[fd].id, size |-> size, stat |-> st]
  OBVIOUS
<1>2. file[fd].size \in Nat /\ file[fd].size # 0 /\ file[fd].id \in 0..MaxOpens
  BY DEF FilesOK
<1>3. /\ z \in [id : 0..MaxOpens, size : Nat, stat : Nat]
      /\ z.stat <= z.size /\ z.size # 0 /\ z.size >= file[fd].size /\ z.id = file[fd].id
  BY <1>1, <1>2
<1>4. z # NoFile
  BY <1>3 DEF NoFile
<1>5. /\ file' \in [Fds -> [id : 0..MaxOpens, size : Nat, stat : Nat]]
      /\ file'[fd] = z /\ \A x \in Fds : x # fd => file'[x] = file[x]
  BY <1>1, <1>3 DEF FilesOK
<1>6. FilesOK'
  <2>1. \A x \in Fds : file'[x].stat <= file'[x].size
                       /\ (file'[x] # NoFile => file'[x].size # 0)
    BY <1>3, <1>5 DEF FilesOK
  <2> QED
    BY <1>5, <2>1 DEF FilesOK
<1>7. SameFiles(file, file')
  <2> SUFFICES ASSUME NEW x \in Fds, file[x] # NoFile
               PROVE  file'[x] # NoFile /\ file'[x].id = file[x].id
                      /\ file'[x].size >= file[x].size
    BY DEF SameFiles
  <2>1. CASE x = fd
    BY <1>3, <1>4, <1>5, <2>1
  <2>2. CASE x # fd
    <3>1. file'[x] = file[x] /\ file[x].size \in Nat
      BY <1>5, <2>2 DEF FilesOK
    <3> QED
      BY <3>1
  <2> QED
    BY <2>1, <2>2
<1> QED
  BY <1>6, <1>7

\* A file that grows backs what it backed.
LEMMA GrowKeeps ==
    ASSUME MMapInv, NEW fd \in Fds, Grow(fd)
    PROVE  MMapInv'
<1>1. PICK s \in Sizes : s > file[fd].size /\ file' = [file EXCEPT ![fd].size = s]
  BY DEF Grow
<1>2. s \in Nat
  BY CacheAssumption
<1>3. FilesOK /\ file[fd] # NoFile /\ opened' = opened /\ UNCHANGED <<cache, held, kept>>
  BY DEF Grow, MMapInv
<1>4. /\ file[fd] \in [id : 0..MaxOpens, size : Nat, stat : Nat]
      /\ file[fd].stat <= file[fd].size
  BY <1>3 DEF FilesOK
<1>5. [file[fd] EXCEPT !.size = s] = [id |-> file[fd].id, size |-> s, stat |-> file[fd].stat]
  BY <1>4
<1>6. file' = [file EXCEPT ![fd] = [id |-> file[fd].id, size |-> s, stat |-> file[fd].stat]]
  BY <1>1, <1>5
<1>7. file[fd].stat \in Nat /\ s >= file[fd].size /\ file[fd].stat <= s
  BY <1>1, <1>2, <1>4
<1>8. FilesOK' /\ SameFiles(file, file')
  BY <1>2, <1>3, <1>6, <1>7, FileChanges
<1> QED
  BY <1>3, <1>8, CacheStays

\* journal_file_move_to()
LEMMA MoveToKeeps ==
    ASSUME MMapInv, NEW fd \in Fds, NEW q \in Requests,
           MoveTo(q.context, fd, Region(q), q.keep)
    PROVE  MMapInv'
<1>1. PICK c, reg, keep : c = q.context /\ reg = Region(q) /\ keep = q.keep
  OBVIOUS
<1>2. /\ c \in Contexts /\ keep \in BOOLEAN /\ reg \in [offset : Nat, size : Nat \ {0}]
  BY <1>1, CacheAssumption DEF Region
<1>3. PICK st : st = Refreshed(fd, reg)
  OBVIOUS
<1>4. /\ file[fd] # NoFile /\ file' = [file EXCEPT ![fd].stat = st] /\ opened' = opened
      /\ IF reg.offset + reg.size > st
         THEN UNCHANGED <<cache, held, kept>>
         ELSE Get(c, fd, reg, keep, st)
  BY <1>1, <1>3 DEF MoveTo
<1>5. /\ FilesOK /\ file[fd] \in [id : 0..MaxOpens, size : Nat, stat : Nat]
      /\ file[fd].stat <= file[fd].size
  BY DEF MMapInv, FilesOK
<1>6. st \in Nat /\ st <= file[fd].size
  BY <1>3, <1>5 DEF Refreshed
<1>7. [file[fd] EXCEPT !.stat = st] = [id |-> file[fd].id, size |-> file[fd].size, stat |-> st]
  BY <1>5
<1>8. file' = [file EXCEPT ![fd] = [id |-> file[fd].id, size |-> file[fd].size, stat |-> st]]
  BY <1>4, <1>7
<1>9. PICK size \in Nat : size = file[fd].size /\ size >= file[fd].size /\ st <= size
  BY <1>5, <1>6
<1>10. file' = [file EXCEPT ![fd] = [id |-> file[fd].id, size |-> size, stat |-> st]]
  BY <1>8, <1>9
<1>11. FilesOK' /\ SameFiles(file, file')
  BY <1>4, <1>5, <1>6, <1>9, <1>10, FileChanges
<1>12. CASE reg.offset + reg.size > st
  BY <1>4, <1>11, <1>12, CacheStays
<1>13. CASE ~(reg.offset + reg.size > st)
  <2>1. reg.offset + reg.size <= st
    BY <1>2, <1>6, <1>13
  <2>2. Get(c, fd, reg, keep, st)
    BY <1>4, <1>13
  <2>3. file[fd] # NoFile
    BY <1>4
  <2> QED
    BY <1>2, <1>6, <1>11, <2>1, <2>2, <2>3, GetKeeps
<1> QED
  BY <1>12, <1>13

\* journal_file_close()
LEMMA CloseKeeps ==
    ASSUME MMapInv, NEW fd \in Fds, Close(fd)
    PROVE  MMapInv'
<1>1. PICK n : n = FdFree(cache, fd)
  OBVIOUS
<1>2. PICK e : e = [n EXCEPT !.unmapped = {}]
  OBVIOUS
<1>3. /\ cache' = e /\ opened' = opened
      /\ held' = [c \in Contexts |->
                    IF held[c] # NoRegion /\ held[c].fd = fd THEN NoRegion
                    ELSE Survives(held[c], n)]
      /\ kept' = [x \in Fds |-> IF x = fd THEN {} ELSE {Survives(k, n) : k \in kept[x]}]
      /\ file' = [file EXCEPT ![fd] = NoFile]
  BY <1>1, <1>2 DEF Close
<1>4. cache \in Cache /\ cache.unmapped = {} /\ Agree(cache, {}) /\ Mapped(cache, file)
      /\ FilesOK /\ HeldBacked(held, cache, file) /\ KeptBacked(kept, cache, file)
  BY DEF MMapInv
<1>5. Shrunk(cache, n, Owned(cache, fd)) /\ n.live \cap Owned(cache, fd) = {}
  BY <1>1, <1>4, FdFreed
<1>6. n \in Cache /\ Agree(n, {})
  BY <1>5 DEF Shrunk
<1>7. /\ e \in Cache /\ e.unmapped = {} /\ e.window = n.window /\ e.live = n.live
      /\ e.win = n.win /\ e.windows = n.windows /\ e.unused = n.unused
      /\ e.last_unused = n.last_unused
  BY <1>2, <1>6 DEF Cache
<1>8. Settled(n, e, NoWindow, FALSE)
  BY <1>7 DEF Settled
<1>9. Agree(e, {})
  BY <1>6, <1>8, SettledAgrees
<1>10. FilesOK'
  <2>1. /\ file' \in [Fds -> [id : 0..MaxOpens, size : Nat, stat : Nat]]
        /\ \A x \in Fds : file'[x] = NoFile \/ file'[x] = file[x]
    BY <1>3, <1>4, CacheAssumption DEF FilesOK, NoFile
  <2>2. \A x \in Fds : file'[x].stat <= file'[x].size
                       /\ (file'[x] # NoFile => file'[x].size # 0)
    BY <1>4, <2>1 DEF FilesOK, NoFile
  <2> QED
    BY <1>3, <1>4, <2>1, <2>2 DEF FilesOK
<1>11. \A x \in Fds : x # fd => file'[x] = file[x]
  BY <1>3, <1>4 DEF FilesOK
<1>12. ASSUME NEW v \in e.live PROVE v \in cache.live /\ e.win[v] = cache.win[v]
                                     /\ e.win[v].fd # fd
  <2>1. v \in cache.live /\ n.win[v] = cache.win[v] /\ v \notin Owned(cache, fd)
    BY <1>5, <1>7, <1>12 DEF Shrunk
  <2> QED
    BY <1>7, <2>1 DEF Owned
<1>13. Mapped(e, file')
  BY <1>4, <1>11, <1>12 DEF Mapped
<1>14. ASSUME NEW r, Backed(r, cache, file), r.fd # fd
       PROVE  Survives(r, n) = r /\ Backed(r, e, file') /\ e.win[r.win] = cache.win[r.win]
              /\ r.win \in n.live
  <2>1. r.win \in cache.live /\ cache.win[r.win].fd # fd /\ r.fd \in Fds
    BY <1>14 DEF Backed, Given
  <2>2. r.win \in n.live /\ r.win \notin n.unmapped /\ n.win[r.win] = cache.win[r.win]
    BY <1>4, <1>5, <2>1, ClosedGone
  <2>3. file'[r.fd] = file[r.fd]
    BY <1>11, <1>14, <2>1
  <2>4. Backed(r, e, file')
    BY <1>7, <1>14, <2>2, <2>3 DEF Backed
  <2> QED
    BY <1>7, <2>2, <2>4 DEF Survives
<1>15. HeldBacked(held', e, file')
  <2> SUFFICES ASSUME NEW x \in Contexts, held'[x] # NoRegion
               PROVE  Backed(held'[x], e, file') /\ e.window[x] = held'[x].win
    BY DEF HeldBacked
  <2>1. held'[x] = IF held[x] # NoRegion /\ held[x].fd = fd THEN NoRegion
                   ELSE Survives(held[x], n)
    BY <1>3
  <2>2. held[x] # NoRegion
    <3> SUFFICES ASSUME held[x] = NoRegion PROVE FALSE
      OBVIOUS
    <3>1. held[x].win \notin n.unmapped
      BY <1>6, CacheTypes, ZeroWindow DEF NoRegion
    <3> QED
      BY <2>1, <3>1 DEF Survives
  <2>3. Backed(held[x], cache, file) /\ cache.window[x] = held[x].win /\ held[x].fd # fd
    BY <1>4, <2>1, <2>2 DEF HeldBacked
  <2>4. Survives(held[x], n) = held[x] /\ Backed(held[x], e, file') /\ held[x].win \in n.live
    BY <1>14, <2>3
  <2>5. n.window[x] = cache.window[x]
    BY <1>5, <2>3, <2>4 DEF Shrunk
  <2> QED
    BY <1>7, <2>1, <2>3, <2>4, <2>5
<1>16. KeptBacked(kept', e, file')
  <2> SUFFICES ASSUME NEW x \in Fds, NEW k \in kept'[x]
               PROVE  Backed(k, e, file') /\ k.fd = x /\ e.win[k.win].keep_always
    BY DEF KeptBacked
  <2>1. x # fd /\ kept'[x] = {Survives(q, n) : q \in kept[x]}
    BY <1>3
  <2>2. PICK q \in kept[x] : k = Survives(q, n)
    BY <2>1
  <2>3. Backed(q, cache, file) /\ q.fd = x /\ cache.win[q.win].keep_always
    BY <1>4, <2>2 DEF KeptBacked
  <2>4. k = q /\ Backed(q, e, file') /\ e.win[q.win] = cache.win[q.win]
    BY <1>14, <2>1, <2>2, <2>3
  <2> QED
    BY <2>3, <2>4
<1>17. DOMAIN held' = Contexts /\ DOMAIN kept' = Fds
  BY <1>3
<1> QED
  BY <1>3, <1>7, <1>9, <1>10, <1>13, <1>15, <1>16, <1>17 DEF MMapInv

-----------------------------------------------------------------------------
(* The theorems                                                            *)

\* The lists of the cache agree, every window maps the file its descriptor
\* stands for, and what the callers have lies in windows that are there: no
\* call of mmap_cache_get(), mmap_cache_close_fd() or of journal_file_open()
\* and journal_file_move_to() breaks it.
THEOREM CacheInvariant == MMapSpec => []MMapInv
<1>1. MMapInit => MMapInv
  BY InitKeeps
<1>2. MMapInv /\ [MMapNext]_mmapVars => MMapInv'
  <2> SUFFICES ASSUME MMapInv, [MMapNext]_mmapVars PROVE MMapInv'
    OBVIOUS
  <2>1. ASSUME NEW fd \in Fds, Open(fd) PROVE MMapInv'
    BY <2>1, OpenKeeps
  <2>2. ASSUME NEW fd \in Fds, Grow(fd) PROVE MMapInv'
    BY <2>2, GrowKeeps
  <2>3. ASSUME NEW fd \in Fds, Close(fd) PROVE MMapInv'
    BY <2>3, CloseKeeps
  <2>4. ASSUME NEW fd \in Fds, NEW q \in Requests,
               MoveTo(q.context, fd, Region(q), q.keep)
        PROVE  MMapInv'
    BY <2>4, MoveToKeeps
  <2>5. CASE UNCHANGED mmapVars
    BY <2>5 DEF mmapVars, MMapInv, FilesOK
  <2> QED
    BY <2>1, <2>2, <2>3, <2>4, <2>5 DEF MMapNext
<1> QED
  BY <1>1, <1>2, PTL DEF MMapSpec

\* The hand-made lists of windows, contexts and unused windows always agree
\* with each other (window_unlink(), context_attach_window(),
\* context_detach_window(), make_room(), fd_free()).
THEOREM ListsAlwaysAgree == MMapSpec => []ListsAgree
<1>1. MMapInv => ListsAgree
  <2> SUFFICES ASSUME MMapInv PROVE ListsAgree
    OBVIOUS
  <2>1. cache \in Cache /\ cache.unmapped = {} /\ Agree(cache, {}) /\ FilesOK
    BY DEF MMapInv
  <2>2. MMapTypeOK
    <3>1. cache.win \in [Windows -> [fd : Fds \cup {NoWindow}, offset : Nat, size : Nat,
                                     maps : 0..MaxOpens, keep_always : BOOLEAN,
                                     in_unused : BOOLEAN, contexts : SUBSET Contexts]]
      BY <2>1, CacheTypes DEF Win
    <3> QED
      BY <2>1, <3>1, CacheTypes DEF MMapTypeOK, FilesOK
  <2>3. /\ \A w \in cache.live : cache.win[w].contexts = {c \in Contexts : cache.window[c] = w}
        /\ \A c \in Contexts : cache.window[c] \in cache.live \cup {NoWindow}
    BY <2>1 DEF Agree, Paired
  <2>4. \A fd \in Fds : /\ IsInjective(cache.windows[fd])
                        /\ ToSet(cache.windows[fd]) = {w \in cache.live : cache.win[w].fd = fd}
    BY <2>1 DEF Agree, Filed, Lists
  <2>5. /\ IsInjective(cache.unused)
        /\ ToSet(cache.unused) = {w \in cache.live : cache.win[w].in_unused}
        /\ cache.last_unused \in ToSet(cache.unused) \cup {NoWindow}
    BY <2>1 DEF Agree, Parked, Lists
  <2>6. \A w \in cache.live :
           cache.win[w].in_unused <=> /\ cache.win[w].contexts = {}
                                      /\ ~cache.win[w].keep_always
    BY <2>1 DEF Agree, Parked
  <2> QED
    BY <2>2, <2>3, <2>4, <2>5, <2>6 DEF ListsAgree
<1> QED
  BY <1>1, CacheInvariant, PTL

\* No region that a caller still has loses its mapping, maps another file than
\* the caller's, or reaches beyond the end of the file (window_add(),
\* make_room(), add_mmap(), mmap_cache_close_fd()).
THEOREM RegionsAlwaysBacked == MMapSpec => []RegionsBacked
<1>1. MMapInv => RegionsBacked
  <2> SUFFICES ASSUME MMapInv PROVE RegionsBacked
    OBVIOUS
  <2>1. Mapped(cache, file) /\ HeldBacked(held, cache, file) /\ KeptBacked(kept, cache, file)
    BY DEF MMapInv
  <2>2. ASSUME NEW r, Backed(r, cache, file)
        PROVE  /\ r # Dangling
               /\ cache.win[r.win].fd = r.fd
               /\ cache.win[r.win].maps = file[r.fd].id
               /\ cache.win[r.win].offset <= r.reg.offset
               /\ r.reg.offset + r.reg.size <= cache.win[r.win].offset + cache.win[r.win].size
               /\ r.reg.offset + r.reg.size <= file[r.fd].size
    <3>1. r.win \in 1..MaxWindows /\ r.fd \in Fds
      BY <2>2 DEF Backed, Given, Windows
    <3>2. r # Dangling
      BY <3>1, CacheAssumption DEF Dangling
    <3> QED
      BY <2>1, <2>2, <3>1, <3>2 DEF Backed, Mapped
  <2>3. NoRegion # Dangling /\ NoRegion.win \notin Windows
    BY DEF NoRegion, Dangling, Windows, NoWindow
  <2>4. ASSUME NEW r \in {held[c] : c \in Contexts} \cup UNION {kept[fd] : fd \in Fds}
        PROVE  r = NoRegion \/ Backed(r, cache, file)
    BY <2>1, <2>4 DEF HeldBacked, KeptBacked
  <2>5. NothingDangles
    BY <2>1, <2>2, <2>3 DEF NothingDangles, HeldBacked, KeptBacked
  <2> QED
    BY <2>2, <2>3, <2>4, <2>5 DEF RegionsBacked
<1> QED
  BY <1>1, CacheInvariant, PTL
=============================================================================
