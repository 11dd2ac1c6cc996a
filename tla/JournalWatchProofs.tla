------------------------- MODULE JournalWatchProofs -------------------------
(***************************************************************************)
(* Proofs about how the reader follows its directory, for any names and    *)
(* subdirectories, any number of changes, any size of the event queue and  *)
(* any interleaving of the daemon's steps with the reader's system calls.  *)
(***************************************************************************)
EXTENDS JournalWatch, Recursion, TLAPS

-----------------------------------------------------------------------------
(* The invariant                                                           *)

\* Functions of which the domain is part of S.
Maps(S, T) == UNION {[D -> T] : D \in SUBSET S}

Inodes == Nat
FileInfos == [ino : Inodes, ready : BOOLEAN]
Masks == {"create", "moved_to", "modify", "delete", "moved_from", "delete_self"}
EventNames == Names \cup Subs \cup {"none"}
Events == [wd : Inodes, mask : Masks, name : EventNames]
Files == Maps(Paths, FileInfos)
Readers == [open : BOOLEAN, no_new_files : BOOLEAN, inotify : BOOLEAN, files : Maps(Paths, Inodes),
            dirs : Maps(Dirs, Inodes), watches : Maps(Inodes, Dirs),
            errors : SUBSET {"ETOOMANYREFS"}, changed : BOOLEAN, got : BOOLEAN,
            opening : Dirs \cup {"none"}]
Scans == [dir : Dirs, must : SUBSET (Names \cup Subs)]
HistFields == {"ops", "drops", "fails", "lost", "unseen", "rotated", "dropped", "unwatched",
               "told", "result"}

WatchTypes ==
    /\ fs \in Files /\ subs \in Maps(Subs, Inodes) /\ inodes \in Inodes
    /\ queue \in Seq(Events) /\ j \in Readers /\ scan \in Seq(Scans)
    /\ DOMAIN hist = HistFields /\ hist.lost \in BOOLEAN

\* A file's directory exists; inodes are not shared, nor used again.
TreeOK ==
    /\ inodes >= RootInode
    /\ \A p \in DOMAIN fs : Exists(p[1])
    /\ \A d \in DOMAIN subs : subs[d] > RootInode /\ subs[d] <= inodes
    /\ \A d, e \in DOMAIN subs : subs[d] = subs[e] => d = e

\* The directories and the watches of reader r refer to each other, and a watch to the
\* directory that has the inode, if there is one.
Fits(r) ==
    /\ \A w \in DOMAIN r.watches :
          w >= RootInode /\ w <= inodes /\ r.watches[w] \in DOMAIN r.dirs /\ r.dirs[r.watches[w]] = w
    /\ \A d \in DOMAIN r.dirs : r.dirs[d] # 0 => /\ r.dirs[d] \in DOMAIN r.watches
                                                 /\ r.watches[r.dirs[d]] = d
    /\ \A d \in DOMAIN subs : subs[d] \in DOMAIN r.watches => r.watches[subs[d]] = d
    /\ RootInode \in DOMAIN r.watches => r.watches[RootInode] = Root
    /\ Root \in DOMAIN r.dirs => r.dirs[Root] \in {0, RootInode}

\* A directory that was opened, and of which a watch is still to be set up, exists and
\* is not found again by the readings under way; the root is the first of all.
OpeningOK ==
    j.opening # "none" =>
      /\ Exists(j.opening)
      /\ \A i \in DOMAIN scan : j.opening \notin scan[i].must
      /\ j.opening = Root => DOMAIN scan = {} /\ DOMAIN j.watches = {}

\* A directory of which the watch failed has none.
FailedOK == \A d \in hist.unwatched : d \in DOMAIN j.dirs => j.dirs[d] = 0

\* The root is watched, will be, or its watch failed.
WantedOK ==
    /\ j.inotify => j.open /\ (RootInode \in DOMAIN j.watches \/ j.opening = Root
                                \/ Root \in hist.unwatched)
    /\ ~j.inotify => DOMAIN j.watches = {} /\ hist.unwatched = {}

WatchesOK == Fits(j) /\ OpeningOK /\ FailedOK /\ WantedOK

\* Of the events that wait: their directory is watched; after the one that says that
\* a directory is gone there is none of it, and its inode is no longer used.
QueueOK ==
    \A i \in DOMAIN queue :
       /\ queue[i].wd \in DOMAIN j.watches
       /\ queue[i].mask = "delete_self" <=> queue[i].name = "none"
       /\ queue[i].name \in Subs => queue[i].wd = RootInode /\ queue[i].mask \in {"create", "delete"}
       /\ queue[i].mask = "delete_self" =>
            /\ queue[i].wd # RootInode
            /\ \A d \in DOMAIN subs : subs[d] # queue[i].wd
            /\ \A k \in DOMAIN queue : queue[k].wd = queue[i].wd => k <= i

\* The root is read only outermost, and only there are subdirectories found by reading;
\* those are not watched yet.
ScanOK ==
    \A i \in DOMAIN scan :
       /\ scan[i].dir = Root => i = Len(scan)
       /\ \A d \in scan[i].must \cap Subs :
            scan[i].dir = Root /\ (d \in DOMAIN j.dirs => j.dirs[d] = 0)

\* What processing event e does, with watches W, to path p: it makes the reader look
\* at it, or forget it.
Adding == {"create", "moved_to", "modify"}
Creates(e, d) == e.name = d /\ e.wd = RootInode /\ e.mask = "create"
Tells(W, e, p) == e.wd \in DOMAIN W /\ W[e.wd] = p[1] /\ e.name = p[2]
Covers(W, e, p) == \/ Tells(W, e, p) /\ e.mask \in Adding
                   \/ p[1] \in Subs /\ Creates(e, p[1])
Removes(W, e, p) == Tells(W, e, p) /\ e.mask \notin Adding

\* The reading that is under way will return directory d, which may be open already,
\* or path p.
ScanReads(d) == d = j.opening \/ \E i \in DOMAIN scan : d \in scan[i].must
Scanned(p) ==
    \/ p[1] \in Subs /\ ScanReads(p[1])
    \/ \E i \in DOMAIN scan : scan[i].dir = p[1] /\ p[2] \in scan[i].must

\* An open file is the one that has the name, or its removal is still to be read.
StaleOK ==
    ~hist.lost =>
      \A p \in DOMAIN j.files \ (hist.unseen \cup hist.rotated) :
        \/ p \in DOMAIN fs /\ fs[p].ino = j.files[p]
        \/ \E i \in DOMAIN queue : Removes(j.watches, queue[i], p)

\* Of a watched directory that is gone this is still to be read.
GoneOK ==
    ~hist.lost =>
      \A w \in DOMAIN j.watches :
        \/ Exists(j.watches[w]) /\ InodeOf(j.watches[w]) = w
        \/ \E i \in DOMAIN queue : queue[i].wd = w /\ queue[i].mask = "delete_self"

\* Events are wanted and none was lost, and the root is past its opendir().
Live == ~hist.lost /\ j.inotify /\ ~j.no_new_files /\ j.opening # Root

\* A directory that is not watched, though no watch failed, will be found, and that
\* after all events of one that had its name.
UnwatchedOK ==
    Live =>
      \A d \in DOMAIN subs : subs[d] \notin DOMAIN j.watches /\ Followed(d) =>
        /\ ScanReads(d) \/ \E k \in DOMAIN queue : Creates(queue[k], d)
        /\ \A i \in DOMAIN queue :
             (queue[i].wd \in DOMAIN j.watches /\ j.watches[queue[i].wd] = d)
             => \E k \in DOMAIN queue : k > i /\ Creates(queue[k], d)

\* A file that is set up, in a directory of which no watch failed, is open, or will be
\* looked at; and that again after every event that makes the reader forget it.
MissingOK ==
    Live /\ j.errors = {} =>
      \A p \in DOMAIN fs : fs[p].ready /\ p \notin hist.dropped /\ Followed(p[1]) =>
        /\ p \in DOMAIN j.files \/ Scanned(p) \/ \E k \in DOMAIN queue : Covers(j.watches, queue[k], p)
        /\ \A i \in DOMAIN queue : Removes(j.watches, queue[i], p) =>
              \E k \in DOMAIN queue : k > i /\ Covers(j.watches, queue[k], p)

\* What was told is what there is, unless a change is noted.
ToldOK == ~j.changed => j.files = hist.told

WatchInv ==
    /\ WatchTypes /\ TreeOK /\ WatchesOK /\ QueueOK /\ ScanOK
    /\ StaleOK /\ GoneOK /\ UnwatchedOK /\ MissingOK /\ ToldOK

-----------------------------------------------------------------------------
(* Functions and sequences                                                 *)

\* What is known of a function of which the domain is part of S.
LEMMA MapsFacts ==
    ASSUME NEW S, NEW T, NEW f \in Maps(S, T)
    PROVE  /\ DOMAIN f \subseteq S /\ f \in [DOMAIN f -> T]
           /\ \A x \in DOMAIN f : x \in S /\ f[x] \in T
<1>1. PICK D \in SUBSET S : f \in [D -> T]
  BY DEF Maps
<1>2. DOMAIN f = D
  BY <1>1
<1> QED
  BY <1>1, <1>2

\* A function from a part of S is such a function.
LEMMA MapsIntro ==
    ASSUME NEW S, NEW T, NEW D, D \subseteq S, NEW f \in [D -> T]
    PROVE  f \in Maps(S, T)
<1>1. D \in SUBSET S
  OBVIOUS
<1> QED
  BY <1>1 DEF Maps

\* With() and Without() make such functions.
LEMMA WithMaps ==
    ASSUME NEW S, NEW T, NEW f, f \in Maps(S, T), NEW x, x \in S, NEW v, v \in T
    PROVE  With(f, x, v) \in Maps(S, T)
<1>1. DOMAIN f \subseteq S /\ \A y \in DOMAIN f : f[y] \in T
  BY MapsFacts
<1>2. PICK g : g = With(f, x, v)
  OBVIOUS
<1>3. g \in [DOMAIN f \cup {x} -> T] /\ DOMAIN f \cup {x} \subseteq S
  BY <1>1, <1>2 DEF With
<1> QED
  BY <1>2, <1>3, MapsIntro

\* A map without some keys is a map.
LEMMA WithoutMaps ==
    ASSUME NEW S, NEW T, NEW f, f \in Maps(S, T), NEW X
    PROVE  Without(f, X) \in Maps(S, T)
<1>1. DOMAIN f \subseteq S /\ \A y \in DOMAIN f : f[y] \in T
  BY MapsFacts
<1>2. PICK g : g = Without(f, X)
  OBVIOUS
<1>3. g \in [DOMAIN f \ X -> T] /\ DOMAIN f \ X \subseteq S
  BY <1>1, <1>2 DEF Without
<1> QED
  BY <1>2, <1>3, MapsIntro

\* The elements of a sequence, and its positions.
LEMMA SeqFacts ==
    ASSUME NEW S, NEW q \in Seq(S)
    PROVE  \A i \in DOMAIN q : i \in Nat /\ i >= 1 /\ i <= Len(q) /\ q[i] \in S
OBVIOUS

\* The indices of a sequence.
LEMMA SeqDomain ==
    ASSUME NEW S, NEW q \in Seq(S)
    PROVE  DOMAIN q = 1 .. Len(q)
OBVIOUS

\* What is left when the first element is taken.
LEMMA TailFacts ==
    ASSUME NEW S, NEW q \in Seq(S), q # <<>>
    PROVE  /\ Tail(q) \in Seq(S) /\ 1 \in DOMAIN q /\ Head(q) = q[1]
           /\ Len(Tail(q)) = Len(q) - 1
           /\ \A k \in DOMAIN Tail(q) : k \in Nat /\ k + 1 \in DOMAIN q /\ Tail(q)[k] = q[k + 1]
           /\ \A i \in DOMAIN q : i # 1 => i - 1 \in DOMAIN Tail(q) /\ Tail(q)[i - 1] = q[i]
OBVIOUS

\* A path and its parts.
LEMMA PathFacts ==
    ASSUME NEW p \in Paths
    PROVE  p[1] \in Dirs /\ p[2] \in Names /\ p = <<p[1], p[2]>>
BY DEF Paths

-----------------------------------------------------------------------------
(* The reader's files and directories                                      *)

\* The inodes of directories that exist.
LEMMA InodeFacts ==
    ASSUME WatchTypes, TreeOK
    PROVE  /\ \A d \in Dirs : Exists(d) => /\ InodeOf(d) \in Nat /\ InodeOf(d) >= RootInode
                                           /\ InodeOf(d) <= inodes
           /\ \A d, e \in Dirs : Exists(d) /\ Exists(e) /\ InodeOf(d) = InodeOf(e) => d = e
           /\ \A d \in DOMAIN subs : d \in Subs /\ d # Root /\ Exists(d) /\ InodeOf(d) = subs[d]
           /\ Exists(Root) /\ InodeOf(Root) = RootInode
           /\ \A d \in Subs : Exists(d) => d \in DOMAIN subs
<1>0. inodes \in Nat
  BY DEF WatchTypes, Inodes
<1>1. DOMAIN subs \subseteq Subs /\ \A d \in DOMAIN subs : subs[d] \in Inodes
  BY MapsFacts DEF WatchTypes
<1>2. Root \notin Subs
  BY WatchAssumption
<1> QED
  BY <1>0, <1>1, <1>2 DEF TreeOK, Exists, InodeOf, Dirs, RootInode, Inodes

\* The fields of a reader.
LEMMA ReaderFacts ==
    ASSUME NEW r \in Readers
    PROVE  /\ r.files \in Maps(Paths, Inodes) /\ r.dirs \in Maps(Dirs, Inodes)
           /\ r.watches \in Maps(Inodes, Dirs)
           /\ r.open \in BOOLEAN /\ r.no_new_files \in BOOLEAN /\ r.inotify \in BOOLEAN
           /\ r.changed \in BOOLEAN /\ r.got \in BOOLEAN
           /\ r.errors \subseteq {"ETOOMANYREFS"} /\ r.opening \in Dirs \cup {"none"}
BY DEF Readers

\* s has the same directories as r, and the same answers to which files are wanted.
SameDirs(r, s) ==
    /\ s.dirs = r.dirs /\ s.watches = r.watches /\ s.inotify = r.inotify
    /\ s.open = r.open /\ s.no_new_files = r.no_new_files /\ s.opening = r.opening

\* What add_file() does.
Opens(r, s, p) ==
    /\ s \in Readers /\ SameDirs(r, s)
    /\ s.errors = {} => r.errors = {}
    /\ \/ s.files = r.files /\ s.changed = r.changed
       \/ /\ p \in DOMAIN fs /\ s.changed
          /\ DOMAIN s.files = DOMAIN r.files \cup {p} /\ s.files[p] = fs[p].ino
          /\ \A x \in DOMAIN r.files : x # p => s.files[x] = r.files[x]
    /\ (p \in DOMAIN fs /\ fs[p].ready /\ ~r.no_new_files /\ s.errors = {}) => p \in DOMAIN s.files

\* add_file() opens a file that can be opened, unless an error is noted, and touches no other.
LEMMA AddFileOpens ==
    ASSUME NEW r \in Readers, NEW p \in Paths, fs \in Files
    PROVE  Opens(r, AddFile(r, p), p)
<1>1. /\ r.files \in Maps(Paths, Inodes)
      /\ DOMAIN r = {"open", "no_new_files", "inotify", "files", "dirs", "watches", "errors",
                     "changed", "got", "opening"}
  BY DEF Readers
<1>2. CASE r.no_new_files \/ p \in DOMAIN r.files
  BY <1>1, <1>2 DEF AddFile, AddAnyFile, Opens, SameDirs
<1>3. CASE ~r.no_new_files /\ p \notin DOMAIN r.files
  <2>1. CASE Cardinality(DOMAIN r.files) >= scope.max
    <3>1. PICK s : s = [r EXCEPT !.errors = @ \cup {"ETOOMANYREFS"}]
      OBVIOUS
    <3>2. s \in Readers /\ SameDirs(r, s) /\ s.files = r.files /\ s.changed = r.changed /\ s.errors # {}
      BY <3>1 DEF Readers, SameDirs
    <3>3. AddFile(r, p) = s
      BY <1>3, <2>1, <3>1 DEF AddFile, AddAnyFile
    <3> QED
      BY <3>2, <3>3 DEF Opens
  <2>2. CASE ~(Cardinality(DOMAIN r.files) >= scope.max) /\ (p \notin DOMAIN fs \/ ~fs[p].ready)
    <3>1. AddFile(r, p) = r
      BY <1>3, <2>2 DEF AddFile, AddAnyFile
    <3> QED
      BY <3>1, <2>2 DEF Opens, SameDirs
  <2>3. CASE ~(Cardinality(DOMAIN r.files) >= scope.max) /\ p \in DOMAIN fs /\ fs[p].ready
    <3>0. fs[p] \in FileInfos
      BY <2>3, MapsFacts DEF Files
    <3>1. fs[p].ino \in Inodes
      BY <3>0 DEF FileInfos
    <3>2. PICK F : F = With(r.files, p, fs[p].ino)
      OBVIOUS
    <3>m. F \in Maps(Paths, Inodes)
      BY <1>1, <3>1, <3>2, WithMaps
    <3>3. /\ DOMAIN F = DOMAIN r.files \cup {p} /\ F[p] = fs[p].ino
          /\ \A x \in DOMAIN r.files : x # p => F[x] = r.files[x]
      BY <3>2 DEF With
    <3>4. PICK s : s = [r EXCEPT !.files = F, !.changed = TRUE]
      OBVIOUS
    <3>5. s \in Readers /\ SameDirs(r, s) /\ s.files = F /\ s.changed /\ s.errors = r.errors
      BY <3>m, <3>4 DEF Readers, SameDirs
    <3>6. AddFile(r, p) = s
      BY <1>3, <2>3, <3>2, <3>4 DEF AddFile, AddAnyFile
    <3> QED
      BY <2>3, <3>3, <3>5, <3>6 DEF Opens
  <2> QED
    BY <2>1, <2>2, <2>3
<1> QED
  BY <1>2, <1>3

\* What remove_file() and remove_file_real() do.
Closes(r, s, p) ==
    /\ s \in Readers /\ SameDirs(r, s) /\ s.errors = r.errors
    /\ DOMAIN s.files = DOMAIN r.files \ {p}
    /\ \A x \in DOMAIN s.files : s.files[x] = r.files[x]
    /\ s.changed \/ (s.files = r.files /\ s.changed = r.changed)

\* remove_file_real() closes the file and touches no other.
LEMMA RemoveFileRealCloses ==
    ASSUME NEW r \in Readers, NEW p
    PROVE  Closes(r, RemoveFileReal(r, p), p)
<1>1. r.files \in Maps(Paths, Inodes)
  BY DEF Readers
<1>2. PICK G, F : G = r.files /\ F = Without(G, {p})
  OBVIOUS
<1>m. F \in Maps(Paths, Inodes)
  BY <1>1, <1>2, WithoutMaps
<1>3. /\ DOMAIN F = DOMAIN r.files \ {p}
      /\ \A x \in DOMAIN F : F[x] = r.files[x]
  BY <1>2 DEF Without
<1>4. PICK s : s = [r EXCEPT !.files = F, !.changed = TRUE]
  OBVIOUS
<1>5. s \in Readers /\ SameDirs(r, s) /\ s.files = F /\ s.changed /\ s.errors = r.errors
  BY <1>m, <1>4 DEF Readers, SameDirs
<1>6. RemoveFileReal(r, p) = s
  BY <1>2, <1>4 DEF RemoveFileReal
<1> QED
  BY <1>3, <1>5, <1>6 DEF Closes

\* remove_file(), too, whether the file is open or not.
LEMMA RemoveFileCloses ==
    ASSUME NEW r \in Readers, NEW p
    PROVE  Closes(r, RemoveFile(r, p), p)
<1>1. CASE p \in DOMAIN r.files
  BY <1>1, RemoveFileRealCloses DEF RemoveFile
<1>2. CASE p \notin DOMAIN r.files
  BY <1>2 DEF RemoveFile, Closes, SameDirs
<1> QED
  BY <1>1, <1>2

\* W is V, or more.
Grows(V, W) == DOMAIN V \subseteq DOMAIN W /\ \A w \in DOMAIN V : W[w] = V[w]

\* Of an event of a watched directory more watches do not change what it does.
LEMMA GrowsKeeps ==
    ASSUME NEW V, NEW W, Grows(V, W), NEW e, e.wd \in DOMAIN V, NEW p
    PROVE  /\ Covers(W, e, p) <=> Covers(V, e, p)
           /\ Removes(W, e, p) <=> Removes(V, e, p)
BY DEF Grows, Covers, Removes, Tells

\* What add_root_directory() and add_directory() do before they read.
Knows(r, s, d, added) ==
    /\ s \in Readers /\ s.files = r.files /\ s.errors = r.errors /\ s.opening = "none"
    /\ s.inotify = r.inotify /\ s.open = r.open /\ s.no_new_files = r.no_new_files
    /\ r.changed => s.changed
    /\ DOMAIN s.dirs = DOMAIN r.dirs \cup {d}
    /\ \A x \in DOMAIN r.dirs : x # d => s.dirs[x] = r.dirs[x]
    /\ Grows(r.watches, s.watches)
    /\ \/ /\ d \in DOMAIN r.dirs /\ r.dirs[d] # 0
          /\ s.dirs[d] = r.dirs[d] /\ DOMAIN s.watches = DOMAIN r.watches
       \/ /\ d \in DOMAIN r.dirs => r.dirs[d] = 0
          /\ ~(r.inotify /\ added)
          /\ s.dirs[d] = 0 /\ DOMAIN s.watches = DOMAIN r.watches
       \/ /\ d \in DOMAIN r.dirs => r.dirs[d] = 0
          /\ r.inotify /\ added /\ InodeOf(d) \notin DOMAIN r.watches
          /\ s.dirs[d] = InodeOf(d) /\ DOMAIN s.watches = DOMAIN r.watches \cup {InodeOf(d)}
          /\ s.watches[InodeOf(d)] = d

\* The directory becomes known, and watched if events are wanted and it can be.
LEMMA KnownKnows ==
    ASSUME WatchTypes, TreeOK, NEW r \in Readers, Fits(r), NEW d \in Dirs, Exists(d),
           NEW added \in BOOLEAN
    PROVE  Knows(r, Known(r, d, added), d, added)
<1> DEFINE new == d \notin DOMAIN r.dirs
<1>1. r.dirs \in Maps(Dirs, Inodes) /\ r.watches \in Maps(Inodes, Dirs) /\ r.changed \in BOOLEAN
  BY DEF Readers
<1>2. InodeOf(d) \in Nat /\ InodeOf(d) >= RootInode /\ InodeOf(d) <= inodes
  BY InodeFacts
<1>3. \A x \in DOMAIN r.dirs : r.dirs[x] \in Inodes
  BY <1>1, MapsFacts
<1>4. PICK wd \in Inodes : wd = IF Unwatched(r, d) THEN IF added THEN InodeOf(d) ELSE 0
                             ELSE IF d \in DOMAIN r.dirs THEN r.dirs[d] ELSE 0
  BY <1>2, <1>3 DEF Inodes
<1>5. PICK D, E : D = r.dirs /\ E = With(D, d, wd)
  OBVIOUS
<1>6. /\ DOMAIN E = DOMAIN r.dirs \cup {d} /\ E[d] = wd
      /\ \A x \in DOMAIN r.dirs : x # d => E[x] = r.dirs[x]
  BY <1>5 DEF With
<1>e. E \in Maps(Dirs, Inodes)
  BY <1>1, <1>5, WithMaps
<1>7. PICK V, W : V = r.watches /\ W = IF wd = 0 THEN V ELSE With(V, wd, d)
  OBVIOUS
<1>8. /\ wd = 0 => W = V
      /\ wd # 0 => /\ DOMAIN W = DOMAIN V \cup {wd} /\ W[wd] = d
                   /\ \A x \in DOMAIN V : x # wd => W[x] = V[x]
  BY <1>7 DEF With
<1>w. W \in Maps(Inodes, Dirs)
  <2>1. With(V, wd, d) \in Maps(Inodes, Dirs)
    BY <1>1, <1>7, WithMaps
  <2> QED
    BY <1>1, <1>7, <2>1
<1>9. PICK c \in BOOLEAN : c = (r.changed \/ new)
  BY <1>1
<1>10. PICK s : s = [r EXCEPT !.dirs = E, !.watches = W, !.changed = c, !.opening = "none"]
  OBVIOUS
<1>11. /\ s \in Readers /\ s.dirs = E /\ s.watches = W /\ s.changed = c
       /\ s.files = r.files /\ s.errors = r.errors /\ s.inotify = r.inotify
       /\ s.open = r.open /\ s.no_new_files = r.no_new_files /\ s.opening = "none"
  BY <1>e, <1>w, <1>10 DEF Readers
<1>12. Known(r, d, added) = s
  BY <1>4, <1>5, <1>7, <1>9, <1>10 DEF Known
<1>c. r.changed => s.changed
  BY <1>9, <1>11
<1>d. /\ DOMAIN s.dirs = DOMAIN r.dirs \cup {d} /\ s.dirs[d] = wd
      /\ \A x \in DOMAIN r.dirs : x # d => s.dirs[x] = r.dirs[x]
  BY <1>6, <1>11
<1>13. CASE ~new /\ r.dirs[d] # 0
  <2>1. wd = r.dirs[d] /\ wd # 0
    BY <1>4, <1>13 DEF Unwatched
  <2>2. wd \in DOMAIN V /\ V[wd] = d
    BY <1>7, <1>13, <2>1 DEF Fits
  <2>3. Grows(r.watches, s.watches) /\ DOMAIN s.watches = DOMAIN r.watches
    BY <1>7, <1>8, <1>11, <2>1, <2>2 DEF Grows
  <2> QED
    BY <1>c, <1>d, <1>11, <1>12, <1>13, <2>1, <2>3 DEF Knows
<1>14. CASE (new \/ r.dirs[d] = 0) /\ ~(r.inotify /\ added)
  <2>1. wd = 0
    BY <1>4, <1>14 DEF Unwatched
  <2>3. Grows(r.watches, s.watches) /\ DOMAIN s.watches = DOMAIN r.watches
    BY <1>7, <1>8, <1>11, <2>1 DEF Grows
  <2> QED
    BY <1>c, <1>d, <1>11, <1>12, <1>14, <2>1, <2>3 DEF Knows
<1>15. CASE (new \/ r.dirs[d] = 0) /\ r.inotify /\ added
  <2>1. wd = InodeOf(d) /\ wd # 0
    BY <1>2, <1>4, <1>15 DEF RootInode, Unwatched
  <2>2. InodeOf(d) \notin DOMAIN r.watches
    <3>1. SUFFICES ASSUME InodeOf(d) \in DOMAIN r.watches PROVE FALSE
      OBVIOUS
    <3>2. r.watches[InodeOf(d)] = d
      BY <3>1 DEF Fits, InodeOf, Exists
    <3>3. d \in DOMAIN r.dirs /\ r.dirs[d] = InodeOf(d)
      BY <3>1, <3>2 DEF Fits
    <3> QED
      BY <3>3, <1>15, <2>1
  <2>3. /\ Grows(r.watches, s.watches) /\ DOMAIN s.watches = DOMAIN r.watches \cup {InodeOf(d)}
        /\ s.watches[InodeOf(d)] = d
    BY <1>7, <1>8, <1>11, <2>1, <2>2 DEF Grows
  <2> QED
    BY <1>c, <1>d, <1>11, <1>12, <1>15, <2>1, <2>2, <2>3 DEF Knows
<1> QED
  BY <1>13, <1>14, <1>15

\* The references between directories and watches are kept.
LEMMA KnowsFits ==
    ASSUME WatchTypes, TreeOK, NEW r \in Readers, Fits(r), NEW d \in Dirs, Exists(d),
           NEW s, NEW added \in BOOLEAN, Knows(r, s, d, added)
    PROVE  Fits(s)
<1>1. InodeOf(d) \in Nat /\ InodeOf(d) >= RootInode /\ InodeOf(d) <= inodes
  BY InodeFacts
<1>2. Root \notin Subs /\ (d = Root => InodeOf(d) = RootInode) /\ (d # Root => InodeOf(d) = subs[d])
      /\ (d # Root => d \in DOMAIN subs /\ d \in Subs)
      /\ \A e \in DOMAIN subs : subs[e] = InodeOf(d) => e = d
  BY WatchAssumption, InodeFacts DEF InodeOf, Exists, Dirs
<1>3. (InodeOf(d) = RootInode) => d = Root
  BY <1>2 DEF TreeOK, RootInode
<1>4. CASE d \in DOMAIN r.dirs /\ r.dirs[d] # 0
  BY <1>4 DEF Fits, Knows, Grows
<1>5. CASE (d \in DOMAIN r.dirs => r.dirs[d] = 0) /\ ~(r.inotify /\ added)
  BY <1>5 DEF Fits, Knows, Grows
<1>6. CASE (d \in DOMAIN r.dirs => r.dirs[d] = 0) /\ r.inotify /\ added
  <2>1. /\ s.dirs[d] = InodeOf(d) /\ DOMAIN s.watches = DOMAIN r.watches \cup {InodeOf(d)}
        /\ s.watches[InodeOf(d)] = d
        /\ DOMAIN s.dirs = DOMAIN r.dirs \cup {d}
        /\ \A x \in DOMAIN r.dirs : x # d => s.dirs[x] = r.dirs[x]
        /\ \A w \in DOMAIN r.watches : s.watches[w] = r.watches[w]
    BY <1>6 DEF Knows, Grows
  <2>2. ASSUME NEW w \in DOMAIN s.watches
        PROVE  /\ w >= RootInode /\ w <= inodes /\ s.watches[w] \in DOMAIN s.dirs
               /\ s.dirs[s.watches[w]] = w
    <3>1. CASE w = InodeOf(d)
      BY <1>1, <2>1, <3>1
    <3>2. CASE w # InodeOf(d)
      <4>1. w \in DOMAIN r.watches /\ s.watches[w] = r.watches[w]
        BY <2>1, <3>2
      <4>2. w >= RootInode /\ w <= inodes /\ r.watches[w] \in DOMAIN r.dirs /\ r.dirs[r.watches[w]] = w
        BY <4>1 DEF Fits
      <4>3. r.watches[w] # d
        BY <1>6, <4>2 DEF RootInode
      <4> QED
        BY <2>1, <4>1, <4>2, <4>3
    <3> QED
      BY <3>1, <3>2
  <2>3. ASSUME NEW x \in DOMAIN s.dirs, s.dirs[x] # 0
        PROVE  s.dirs[x] \in DOMAIN s.watches /\ s.watches[s.dirs[x]] = x
    BY <2>1, <2>3 DEF Fits
  <2>4. \A e \in DOMAIN subs : subs[e] \in DOMAIN s.watches => s.watches[subs[e]] = e
    BY <1>2, <2>1 DEF Fits
  <2>5. RootInode \in DOMAIN s.watches => s.watches[RootInode] = Root
    BY <1>3, <2>1 DEF Fits
  <2>6. Root \in DOMAIN s.dirs => s.dirs[Root] \in {0, RootInode}
    BY <1>2, <2>1 DEF Fits
  <2> QED
    BY <2>2, <2>3, <2>4, <2>5, <2>6 DEF Fits
<1> QED
  BY <1>4, <1>5, <1>6

-----------------------------------------------------------------------------
(* The queue                                                               *)

\* q2 is q, followed by events of the set E.
Follows(q, q2, E) ==
    /\ q2 \in Seq(Events)
    /\ \A i \in DOMAIN q : i \in DOMAIN q2 /\ q2[i] = q[i]
    /\ \A k \in DOMAIN q2 : k \notin DOMAIN q =>
          (\A i \in DOMAIN q : k > i) /\ q2[k] \in E /\ q2[k].wd \in DOMAIN j.watches

EndsWith(q, e) == \E k \in DOMAIN q : q[k] = e /\ \A i \in DOMAIN q : i <= k

\* One event in the queue: at the end, unless it is lost or not watched.
LEMMA EnqueuedFollows ==
    ASSUME NEW q \in Seq(Events), NEW e \in Events
    PROVE  /\ Follows(q, Enqueued(q, e), {e})
           /\ (e.wd \in DOMAIN j.watches /\ ~Loses(q, e)) => EndsWith(Enqueued(q, e), e)
<1>1. CASE e.wd \notin DOMAIN j.watches \/ Repeats(q, e) \/ Len(q) >= scope.queue
  <2>1. Enqueued(q, e) = q
    BY <1>1 DEF Enqueued
  <2>2. Follows(q, q, {e})
    BY DEF Follows
  <2>3. ASSUME e.wd \in DOMAIN j.watches, ~Loses(q, e) PROVE EndsWith(q, e)
    <3>1. q # <<>> /\ Last(q) = e
      BY <1>1, <2>3 DEF Loses, Repeats
    <3>2. Len(q) \in DOMAIN q /\ q[Len(q)] = e /\ \A i \in DOMAIN q : i <= Len(q)
      BY <3>1 DEF Last
    <3> QED
      BY <3>2 DEF EndsWith
  <2> QED
    BY <2>1, <2>2, <2>3
<1>2. CASE ~(e.wd \notin DOMAIN j.watches \/ Repeats(q, e) \/ Len(q) >= scope.queue)
  <2>1. PICK q2 : q2 = Append(q, e)
    OBVIOUS
  <2>2. Enqueued(q, e) = q2
    BY <1>2, <2>1 DEF Enqueued
  <2>3. /\ q2 \in Seq(Events) /\ \A i \in DOMAIN q : i \in DOMAIN q2 /\ q2[i] = q[i]
        /\ \A k \in DOMAIN q2 : k \notin DOMAIN q => (\A i \in DOMAIN q : k > i) /\ q2[k] = e
        /\ Len(q2) \in DOMAIN q2 /\ q2[Len(q2)] = e /\ \A i \in DOMAIN q2 : i <= Len(q2)
    BY <2>1
  <2>4. e.wd \in DOMAIN j.watches
    BY <1>2
  <2>5. Follows(q, q2, {e})
    BY <2>3, <2>4 DEF Follows
  <2>6. EndsWith(q2, e)
    BY <2>3 DEF EndsWith
  <2> QED
    BY <2>2, <2>5, <2>6
<1> QED
  BY <1>1, <1>2

\* A queue that follows one that follows a third follows the third.
LEMMA FollowsTwice ==
    ASSUME NEW q, NEW q1 \in Seq(Events), NEW q2, NEW D, NEW E, q \in Seq(Events),
           Follows(q, q1, D), Follows(q1, q2, E)
    PROVE  Follows(q, q2, D \cup E)
<1>1. \A i \in DOMAIN q : i \in DOMAIN q1 /\ q1[i] = q[i]
  BY DEF Follows
<1>2. \A i \in DOMAIN q : i \in DOMAIN q2 /\ q2[i] = q[i]
  BY <1>1 DEF Follows
<1>3. ASSUME NEW k \in DOMAIN q2, k \notin DOMAIN q
      PROVE  (\A i \in DOMAIN q : k > i) /\ q2[k] \in D \cup E /\ q2[k].wd \in DOMAIN j.watches
  <2>1. CASE k \in DOMAIN q1
    BY <1>3, <2>1 DEF Follows
  <2>2. CASE k \notin DOMAIN q1
    BY <1>1, <1>3, <2>2 DEF Follows
  <2> QED
    BY <2>1, <2>2
<1> QED
  BY <1>2, <1>3 DEF Follows

\* The queue after each of one or two events.
LEMMA QueuedSteps ==
    ASSUME NEW es \in Seq(Events), Len(es) \in {1, 2}
    PROVE  /\ Queued(es)[0] = queue
           /\ \A i \in DOMAIN es : Queued(es)[i] = Enqueued(Queued(es)[i - 1], es[i])
<1> DEFINE q == CHOOSE q : q = [i \in 0 .. Len(es) |->
                                  IF i = 0 THEN queue ELSE Enqueued(q[i - 1], es[i])]
           f == [i \in 0 .. Len(es) |->
                   IF i = 0 THEN queue
                   ELSE IF i = 1 THEN Enqueued(queue, es[1])
                   ELSE Enqueued(Enqueued(queue, es[1]), es[2])]
<1>0. PICK n \in {1, 2} : n = Len(es) /\ DOMAIN es = 1 .. n
  OBVIOUS
<1>1. f = [i \in 0 .. Len(es) |-> IF i = 0 THEN queue ELSE Enqueued(f[i - 1], es[i])]
  <2>1. ASSUME NEW i \in 0 .. Len(es)
        PROVE  f[i] = IF i = 0 THEN queue ELSE Enqueued(f[i - 1], es[i])
    <3>1. i \in {0, 1, 2} /\ (i = 2 => n = 2)
      BY <1>0
    <3>2. f[0] = queue /\ f[1] = Enqueued(queue, es[1])
          /\ (n = 2 => f[2] = Enqueued(Enqueued(queue, es[1]), es[2]))
      BY <1>0
    <3> HIDE DEF f
    <3>3. CASE i = 0
      BY <3>2, <3>3
    <3>4. CASE i = 1
      BY <3>2, <3>4
    <3>5. CASE i = 2
      BY <3>1, <3>2, <3>5
    <3> QED
      BY <3>1, <3>3, <3>4, <3>5
  <2>2. f = [i \in 0 .. Len(es) |-> f[i]]
    OBVIOUS
  <2> HIDE DEF f
  <2> QED
    BY <2>1, <2>2
<1>2. q = [i \in 0 .. Len(es) |-> IF i = 0 THEN queue ELSE Enqueued(q[i - 1], es[i])]
  <2> HIDE DEF f
  <2> QED
    BY <1>1
<1>3. Queued(es) = q
  BY DEF Queued
<1> HIDE DEF q, f
<1>4. 0 \in 0 .. Len(es) /\ \A i \in DOMAIN es : i \in 0 .. Len(es) /\ i # 0
  BY <1>0
<1> QED
  BY <1>2, <1>3, <1>4

\* The events of a change of the daemon.
Tail2(es) == es[Len(es)]

\* The events of a step: nothing queued before is changed, and if nothing is lost they are there.
LEMMA DidFollows ==
    ASSUME WatchTypes, NEW es \in Seq(Events), Len(es) \in {1, 2}, NEW gone, Did(es, gone)
    PROVE  /\ queue \in Seq(Events)
           /\ Follows(queue, queue', {es[i] : i \in DOMAIN es})
           /\ ~hist'.lost =>
                /\ ~hist.lost
                /\ \A i \in DOMAIN es : es[i].wd \in DOMAIN j.watches =>
                      \E k \in DOMAIN queue' : queue'[k] = es[i]
                /\ Tail2(es).wd \in DOMAIN j.watches => EndsWith(queue', Tail2(es))
<1>0. PICK n \in {1, 2} : n = Len(es) /\ DOMAIN es = 1 .. n
  OBVIOUS
<1>1. queue \in Seq(Events) /\ hist.lost \in BOOLEAN /\ DOMAIN hist = HistFields
  BY DEF WatchTypes
<1>2. queue' = Queued(es)[n]
  BY <1>0 DEF Did
<1>3. /\ ~hist'.lost => ~hist.lost
      /\ ~hist'.lost => \A i \in DOMAIN es : ~Loses(Queued(es)[i - 1], es[i])
  BY <1>1 DEF Did, HistFields
<1>4. PICK q0, q1, q2 : q0 = Queued(es)[0] /\ q1 = Queued(es)[1] /\ q2 = Queued(es)[2]
  OBVIOUS
<1>5. PICK e \in Events : e = es[1] /\ 1 \in DOMAIN es
  BY <1>0
<1>6. q0 = queue /\ q1 = Enqueued(queue, e)
  <2>1. Queued(es)[0] = queue /\ Queued(es)[1] = Enqueued(Queued(es)[0], es[1])
    BY <1>5, QueuedSteps
  <2> QED
    BY <1>4, <1>5, <2>1
<1>7. Follows(queue, q1, {e}) /\ q1 \in Seq(Events)
      /\ (e.wd \in DOMAIN j.watches /\ ~Loses(queue, e) => EndsWith(q1, e))
  <2>1. /\ Follows(queue, Enqueued(queue, e), {e})
        /\ (e.wd \in DOMAIN j.watches /\ ~Loses(queue, e)) => EndsWith(Enqueued(queue, e), e)
    BY <1>1, EnqueuedFollows
  <2>2. Follows(queue, q1, {e})
    BY <1>6, <2>1
  <2>3. q1 \in Seq(Events)
    BY <2>2 DEF Follows
  <2> QED
    BY <1>6, <2>1, <2>3
<1>8. ~hist'.lost => ~Loses(queue, e)
  <2>1. ~hist'.lost => ~Loses(Queued(es)[0], es[1])
    BY <1>3, <1>5
  <2> QED
    BY <2>1, <1>4, <1>5, <1>6
<1>9. CASE n = 1
  <2>1. queue' = q1 /\ Tail2(es) = e /\ {es[i] : i \in DOMAIN es} = {e}
    BY <1>0, <1>2, <1>4, <1>5, <1>9 DEF Tail2
  <2>2. \A i \in DOMAIN es : es[i] = e
    BY <1>0, <1>5, <1>9
  <2> QED
    BY <1>1, <1>3, <1>7, <1>8, <2>1, <2>2 DEF EndsWith
<1>10. CASE n = 2
  <2>1. PICK d \in Events : d = es[2] /\ 2 \in DOMAIN es
    BY <1>0, <1>10
  <2>2. queue' = q2 /\ Tail2(es) = d /\ {es[i] : i \in DOMAIN es} = {e} \cup {d}
    BY <1>0, <1>2, <1>4, <1>5, <1>10, <2>1 DEF Tail2
  <2>3. q2 = Enqueued(q1, d)
    <3>1. Queued(es)[2] = Enqueued(Queued(es)[1], es[2])
      BY <2>1, QueuedSteps
    <3> QED
      BY <1>4, <2>1, <3>1
  <2>4. Follows(q1, q2, {d})
        /\ (d.wd \in DOMAIN j.watches /\ ~Loses(q1, d) => EndsWith(q2, d))
    BY <1>7, <2>3, EnqueuedFollows
  <2>5. Follows(queue, q2, {e} \cup {d})
    BY <1>1, <1>7, <2>4, FollowsTwice
  <2>6. ~hist'.lost => ~Loses(q1, d)
    <3>1. ~hist'.lost => ~Loses(Queued(es)[1], es[2])
      BY <1>3, <2>1
    <3> QED
      BY <3>1, <1>4, <2>1
  <2>7. ASSUME ~hist'.lost, e.wd \in DOMAIN j.watches PROVE \E k \in DOMAIN q2 : q2[k] = e
    <3>1. PICK k \in DOMAIN q1 : q1[k] = e
      BY <1>7, <1>8, <2>7 DEF EndsWith
    <3>2. k \in DOMAIN q2 /\ q2[k] = e
      BY <2>4, <3>1 DEF Follows
    <3> QED
      BY <3>2
  <2>8. ASSUME ~hist'.lost, d.wd \in DOMAIN j.watches PROVE EndsWith(q2, d)
    BY <2>4, <2>6, <2>8
  <2>9. \A i \in DOMAIN es : es[i] = e \/ es[i] = d
    BY <1>0, <1>5, <1>10, <2>1
  <2> QED
    BY <1>1, <1>3, <2>2, <2>5, <2>7, <2>8, <2>9 DEF EndsWith
<1> QED
  BY <1>9, <1>10

-----------------------------------------------------------------------------
(* Steps of the reader                                                     *)

\* The parts that only the tree, the queue and the reader's directories matter to.
LEMMA SameTree ==
    ASSUME UNCHANGED <<fs, subs, inodes>>, TreeOK
    PROVE  TreeOK'
BY DEF TreeOK, Exists, RootInode

\* Directories and watches that stay the same fit as before.
LEMMA SameFits ==
    ASSUME UNCHANGED <<subs, inodes>>, Fits(j), j'.dirs = j.dirs, j'.watches = j.watches
    PROVE  Fits(j)'
BY DEF Fits, RootInode

\* What is told and whether files are wanted may change; directories and queue do not.
LEMMA SameWatching ==
    ASSUME UNCHANGED <<fs, subs, inodes, queue>>, WatchInv, j' \in Readers, SameDirs(j, j'),
           hist'.unwatched = hist.unwatched, scan' = scan \/ j.opening = "none"
    PROVE  TreeOK' /\ WatchesOK' /\ QueueOK'
<1>1. TreeOK'
  BY SameTree DEF WatchInv
<1>2. Fits(j)'
  BY SameFits DEF WatchInv, WatchesOK, SameDirs
<1>3. WatchesOK'
  <2>1. OpeningOK'
    BY DEF SameDirs, WatchInv, WatchesOK, OpeningOK, Exists
  <2>2. FailedOK' /\ WantedOK'
    BY DEF SameDirs, WatchInv, WatchesOK, FailedOK, WantedOK, RootInode
  <2> QED
    BY <1>2, <2>1, <2>2 DEF WatchesOK
<1>4. QueueOK'
  BY DEF SameDirs, WatchInv, QueueOK, RootInode
<1> QED
  BY <1>1, <1>3, <1>4

\* The end of a readdir() loop.
LEMMA EndScanPreserves ==
    ASSUME WatchInv, EndScan
    PROVE  WatchInv'
<1>1. scan \in Seq(Scans) /\ scan # <<>> /\ scan[1].must = {} /\ scan' = Tail(scan)
      /\ UNCHANGED <<fs, subs, inodes, queue, j, hist>> /\ j.opening = "none"
  BY DEF WatchInv, WatchTypes, EndScan
<1>2. /\ scan' \in Seq(Scans) /\ 1 \in DOMAIN scan /\ Len(scan') = Len(scan) - 1
      /\ \A k \in DOMAIN scan' : k \in Nat /\ k + 1 \in DOMAIN scan /\ scan'[k] = scan[k + 1]
      /\ \A i \in DOMAIN scan : i # 1 => i - 1 \in DOMAIN scan' /\ scan'[i - 1] = scan[i]
  BY <1>1, TailFacts
<1>3. \A d : ScanReads(d) => ScanReads(d)'
  <2>1. SUFFICES ASSUME NEW d, NEW i \in DOMAIN scan, d \in scan[i].must PROVE ScanReads(d)'
    BY <1>1 DEF ScanReads
  <2>2. i - 1 \in DOMAIN scan' /\ scan'[i - 1] = scan[i]
    BY <1>1, <1>2, <2>1
  <2> QED
    BY <2>1, <2>2 DEF ScanReads
<1>4. \A p : Scanned(p) => Scanned(p)'
  <2>1. SUFFICES ASSUME NEW p, NEW i \in DOMAIN scan, scan[i].dir = p[1] /\ p[2] \in scan[i].must
                 PROVE Scanned(p)'
    BY <1>3 DEF Scanned
  <2>2. i - 1 \in DOMAIN scan' /\ scan'[i - 1] = scan[i]
    BY <1>1, <1>2, <2>1
  <2> QED
    BY <2>1, <2>2 DEF Scanned
<1>5. WatchTypes'
  BY <1>1, <1>2 DEF WatchInv, WatchTypes
<1>6. TreeOK' /\ WatchesOK' /\ QueueOK'
  BY <1>1, SameWatching DEF SameDirs, WatchInv, WatchTypes
<1>7. ScanOK'
  <2>1. SUFFICES ASSUME NEW i \in DOMAIN scan'
                 PROVE  /\ scan'[i].dir = Root => i = Len(scan')
                        /\ \A d \in scan'[i].must \cap Subs :
                             scan'[i].dir = Root /\ (d \in DOMAIN j.dirs => j.dirs[d] = 0)
    BY <1>1 DEF ScanOK
  <2>2. i + 1 \in DOMAIN scan /\ scan'[i] = scan[i + 1] /\ i \in Nat
    BY <1>2
  <2>3. /\ scan[i + 1].dir = Root => i + 1 = Len(scan)
        /\ \A d \in scan[i + 1].must \cap Subs :
             scan[i + 1].dir = Root /\ (d \in DOMAIN j.dirs => j.dirs[d] = 0)
    BY <2>2 DEF WatchInv, ScanOK
  <2> QED
    BY <1>1, <1>2, <2>2, <2>3
<1>8. StaleOK' /\ GoneOK' /\ ToldOK'
  BY <1>1 DEF WatchInv, StaleOK, GoneOK, ToldOK, Exists, InodeOf, Removes, Tells, RootInode
<1>9. UnwatchedOK'
  BY <1>1, <1>3 DEF WatchInv, UnwatchedOK, Live, Creates, Followed
<1>10. MissingOK'
  BY <1>1, <1>4 DEF WatchInv, MissingOK, Live, Followed
<1> QED
  BY <1>5, <1>6, <1>7, <1>8, <1>9, <1>10 DEF WatchInv

\* Nothing but what is told, the noted change and the fact that there was an event.
LEMMA AnswerPreserves ==
    ASSUME WatchInv, UNCHANGED <<fs, subs, inodes, queue, scan>>,
           j' \in Readers, SameDirs(j, j'), j'.files = j.files, j'.errors = j.errors,
           DOMAIN hist' = HistFields, hist'.lost = hist.lost, hist'.unseen = hist.unseen,
           hist'.rotated = hist.rotated, hist'.dropped = hist.dropped,
           hist'.unwatched = hist.unwatched, ToldOK'
    PROVE  WatchInv'
<1>1. WatchTypes'
  BY DEF WatchInv, WatchTypes
<1>2. TreeOK' /\ WatchesOK' /\ QueueOK'
  BY SameWatching
<1>3. j'.dirs = j.dirs /\ j'.watches = j.watches /\ j'.inotify = j.inotify
      /\ j'.no_new_files = j.no_new_files /\ j'.opening = j.opening
  BY DEF SameDirs
<1>4. ScanOK' /\ StaleOK' /\ GoneOK'
  BY <1>3 DEF WatchInv, ScanOK, StaleOK, GoneOK, Exists, InodeOf, RootInode
<1>5. \A d : ScanReads(d)' <=> ScanReads(d)
  BY <1>3 DEF ScanReads
<1>6. \A p : Scanned(p)' <=> Scanned(p)
  BY <1>5 DEF Scanned
<1>7. Live' <=> Live
  BY <1>3 DEF Live
<1>8. UnwatchedOK'
  BY <1>3, <1>5, <1>7 DEF WatchInv, UnwatchedOK, Followed
<1>9. MissingOK'
  BY <1>3, <1>6, <1>7 DEF WatchInv, MissingOK, Followed
<1> QED
  BY <1>1, <1>2, <1>4, <1>8, <1>9 DEF WatchInv

\* sd_journal_process() returns.
LEMMA ProcessReturnsPreserves ==
    ASSUME WatchInv, ProcessReturns
    PROVE  WatchInv'
<1>1. j \in Readers /\ DOMAIN hist = HistFields
  BY DEF WatchInv, WatchTypes
<1>2. /\ j' \in Readers /\ SameDirs(j, j') /\ j'.files = j.files /\ j'.errors = j.errors
  BY <1>1 DEF ProcessReturns, Readers, SameDirs
<1>3. /\ DOMAIN hist' = HistFields /\ hist'.lost = hist.lost /\ hist'.unseen = hist.unseen
      /\ hist'.rotated = hist.rotated /\ hist'.dropped = hist.dropped /\ hist'.told = j.files
      /\ hist'.unwatched = hist.unwatched
  BY <1>1 DEF ProcessReturns, HistFields
<1>4. ToldOK'
  BY <1>2, <1>3 DEF ToldOK
<1>5. UNCHANGED <<fs, subs, inodes, queue, scan>>
  BY DEF ProcessReturns
<1> QED
  BY <1>2, <1>3, <1>4, <1>5, AnswerPreserves

\* The first sd_journal_wait() returns.
LEMMA FirstWaitReturnsPreserves ==
    ASSUME WatchInv, FirstWaitReturns
    PROVE  WatchInv'
<1>1. j \in Readers /\ DOMAIN hist = HistFields
  BY DEF WatchInv, WatchTypes
<1>2. /\ j' \in Readers /\ SameDirs(j, j') /\ j'.files = j.files /\ j'.errors = j.errors
  BY <1>1 DEF FirstWaitReturns, Readers, SameDirs
<1>3. /\ DOMAIN hist' = HistFields /\ hist'.lost = hist.lost /\ hist'.unseen = hist.unseen
      /\ hist'.rotated = hist.rotated /\ hist'.dropped = hist.dropped /\ hist'.told = j.files
      /\ hist'.unwatched = hist.unwatched
  BY <1>1 DEF FirstWaitReturns, HistFields
<1>4. ToldOK'
  BY <1>2, <1>3 DEF ToldOK
<1>5. UNCHANGED <<fs, subs, inodes, queue, scan>>
  BY DEF FirstWaitReturns
<1> QED
  BY <1>2, <1>3, <1>4, <1>5, AnswerPreserves

\* The empty functions.
LEMMA NoMaps ==
    ASSUME NEW S, NEW T
    PROVE  <<>> \in Maps(S, T) /\ DOMAIN <<>> = {}
<1>1. <<>> \in [{} -> T] /\ {} \subseteq S
  OBVIOUS
<1> QED
  BY <1>1, MapsIntro

\* The reader before it is opened.
LEMMA NewReaderFacts ==
    /\ NewReader \in Readers /\ ~NewReader.open /\ ~NewReader.inotify
    /\ DOMAIN NewReader.files = {} /\ NewReader.files = <<>>
    /\ DOMAIN NewReader.dirs = {} /\ DOMAIN NewReader.watches = {}
    /\ NewReader.opening = "none"
<1>1. <<>> \in Maps(Paths, Inodes) /\ <<>> \in Maps(Dirs, Inodes) /\ <<>> \in Maps(Inodes, Dirs)
  BY NoMaps
<1>2. DOMAIN <<>> = {}
  BY NoMaps
<1> QED
  BY <1>1, <1>2 DEF NewReader, Readers

\* A reader that has nothing satisfies what the invariant says of readers.
LEMMA EmptyReader ==
    ASSUME TreeOK', WatchTypes', j' = NewReader, queue' = <<>>, scan' = <<>>, hist'.told = <<>>,
           hist'.unwatched = {}
    PROVE  WatchInv'
<1>1. /\ ~j'.open /\ ~j'.inotify /\ j'.files = <<>>
      /\ DOMAIN j'.files = {} /\ DOMAIN j'.dirs = {} /\ DOMAIN j'.watches = {} /\ j'.opening = "none"
  BY NewReaderFacts
<1>2. DOMAIN queue' = {} /\ DOMAIN scan' = {}
  OBVIOUS
<1>3. WatchesOK'
  BY <1>1 DEF WatchesOK, Fits, OpeningOK, FailedOK, WantedOK
<1>4. QueueOK' /\ ScanOK' /\ StaleOK' /\ GoneOK' /\ ToldOK'
  BY <1>1, <1>2 DEF QueueOK, ScanOK, StaleOK, GoneOK, ToldOK
<1>5. UnwatchedOK' /\ MissingOK'
  BY <1>1 DEF UnwatchedOK, MissingOK, Live, Followed
<1> QED
  BY <1>3, <1>4, <1>5 DEF WatchInv

\* The invariant holds at the beginning.
LEMMA InitEstablishes ==
    ASSUME WatchInit
    PROVE  WatchInv
<1>1. <<>> \in Files /\ <<>> \in Maps(Subs, Inodes) /\ DOMAIN <<>> = {}
  BY NoMaps DEF Files
<1>2. /\ j = NewReader /\ queue = <<>> /\ scan = <<>> /\ fs = <<>> /\ subs = <<>> /\ inodes = RootInode
      /\ hist = HistInit
  BY DEF WatchInit
<1>3. WatchTypes
  BY <1>1, <1>2, NewReaderFacts DEF WatchTypes, HistInit, HistFields, Inodes, RootInode
<1>4. TreeOK
  BY <1>1, <1>2 DEF TreeOK, RootInode
<1>5. /\ ~j.open /\ ~j.inotify /\ j.files = <<>>
      /\ DOMAIN j.files = {} /\ DOMAIN j.dirs = {} /\ DOMAIN j.watches = {} /\ j.opening = "none"
  BY <1>2, NewReaderFacts
<1>6. DOMAIN queue = {} /\ DOMAIN scan = {} /\ hist.told = <<>> /\ hist.unwatched = {}
  BY <1>2 DEF HistInit
<1>7. WatchesOK
  BY <1>5, <1>6 DEF WatchesOK, Fits, OpeningOK, FailedOK, WantedOK
<1>8. QueueOK /\ ScanOK /\ StaleOK /\ GoneOK /\ ToldOK
  BY <1>5, <1>6 DEF QueueOK, ScanOK, StaleOK, GoneOK, ToldOK
<1>9. UnwatchedOK /\ MissingOK
  BY <1>5 DEF UnwatchedOK, MissingOK, Live, Followed
<1> QED
  BY <1>3, <1>4, <1>7, <1>8, <1>9 DEF WatchInv

\* sd_journal_close().
LEMMA ClosePreserves ==
    ASSUME WatchInv, Close
    PROVE  WatchInv'
<1>1. /\ j' = NewReader /\ queue' = <<>> /\ scan' = scan /\ scan = <<>>
      /\ UNCHANGED <<fs, subs, inodes>>
  BY DEF Close, Idle
<1>2. DOMAIN hist' = HistFields /\ hist'.lost = FALSE /\ hist'.told = <<>> /\ hist'.unwatched = {}
  BY DEF Close, HistInit, HistFields
<1>3. TreeOK'
  BY <1>1, SameTree DEF WatchInv
<1>4. WatchTypes'
  <2>1. queue' \in Seq(Events) /\ j' \in Readers /\ scan' \in Seq(Scans)
    BY <1>1, NewReaderFacts
  <2>2. hist'.lost \in BOOLEAN
    BY <1>2
  <2> QED
    BY <1>1, <1>2, <2>1, <2>2 DEF WatchInv, WatchTypes
<1> QED
  BY <1>1, <1>2, <1>3, <1>4, EmptyReader

\* sd_journal_open_files().
LEMMA OpenFilesPreserves ==
    ASSUME WatchInv, NEW P \in SUBSET DOMAIN fs, OpenFiles(P)
    PROVE  WatchInv'
<1>1. /\ j \in Readers /\ ~j.open /\ UNCHANGED <<fs, subs, inodes, queue, scan, hist>>
      /\ fs \in Files /\ WatchTypes
  BY DEF WatchInv, WatchTypes, OpenFiles
<1>2. ~j.inotify /\ DOMAIN j.watches = {} /\ hist.unwatched = {} /\ j.opening = "none"
  BY <1>1 DEF WatchInv, WatchesOK, WantedOK, OpenFiles, Idle
<1>3. PICK F : F = [p \in P |-> fs[p].ino]
  OBVIOUS
<1>4. DOMAIN F = P /\ \A p \in P : F[p] = fs[p].ino /\ p \in DOMAIN fs
  BY <1>3
<1>5. F \in Maps(Paths, Inodes)
  <2>1. DOMAIN fs \subseteq Paths /\ \A p \in DOMAIN fs : fs[p] \in FileInfos
    BY <1>1, MapsFacts DEF Files
  <2>2. \A p \in DOMAIN fs : fs[p].ino \in Inodes
    BY <2>1 DEF FileInfos
  <2>3. F \in [P -> Inodes] /\ P \subseteq Paths
    BY <1>3, <2>1, <2>2
  <2> QED
    BY <2>3, MapsIntro
<1>6. j' = [j EXCEPT !.open = TRUE, !.no_new_files = TRUE, !.changed = TRUE, !.files = F]
  BY <1>3 DEF OpenFiles
<1>7. /\ j' \in Readers /\ j'.dirs = j.dirs /\ j'.watches = j.watches /\ ~j'.inotify
      /\ j'.files = F /\ j'.changed /\ j'.opening = j.opening
  BY <1>1, <1>2, <1>5, <1>6 DEF Readers
<1>8. WatchTypes'
  BY <1>1, <1>7 DEF WatchTypes
<1>9. TreeOK'
  BY <1>1, SameTree DEF WatchInv
<1>10. WatchesOK'
  <2>1. Fits(j)'
    BY <1>1, <1>7, SameFits DEF WatchInv, WatchesOK
  <2> QED
    BY <1>1, <1>2, <1>7, <2>1 DEF WatchesOK, OpeningOK, FailedOK, WantedOK
<1>11. QueueOK' /\ ScanOK' /\ GoneOK'
  BY <1>1, <1>2, <1>7 DEF WatchInv, QueueOK, ScanOK, GoneOK, RootInode
<1>12. StaleOK' /\ ToldOK'
  BY <1>1, <1>4, <1>7 DEF StaleOK, ToldOK
<1>13. UnwatchedOK' /\ MissingOK'
  BY <1>7 DEF UnwatchedOK, MissingOK, Live, Followed
<1> QED
  BY <1>8, <1>9, <1>10, <1>11, <1>12, <1>13 DEF WatchInv

\* A damaged file is dropped.
LEMMA DropDamagedPreserves ==
    ASSUME WatchInv, NEW p, DropDamaged(p)
    PROVE  WatchInv'
<1>1. /\ j \in Readers /\ UNCHANGED <<fs, subs, inodes, queue, scan>> /\ WatchTypes
      /\ DOMAIN hist = HistFields /\ hist.lost \in BOOLEAN
  BY DEF WatchInv, WatchTypes, DropDamaged
<1>2. j' = RemoveFileReal(j, p)
  BY DEF DropDamaged
<1>3. Closes(j, j', p)
  BY <1>1, <1>2, RemoveFileRealCloses
<1>4. /\ DOMAIN hist' = HistFields /\ hist'.lost = hist.lost /\ hist'.unseen = hist.unseen \ {p}
      /\ hist'.rotated = hist.rotated \ {p} /\ hist'.dropped = hist.dropped \cup {p}
      /\ hist'.unwatched = hist.unwatched
      /\ hist'.told = hist.told
  BY <1>1 DEF DropDamaged, HistFields
<1>5. j' \in Readers /\ SameDirs(j, j') /\ j'.errors = j.errors /\ j'.dirs = j.dirs
      /\ j'.watches = j.watches /\ j'.inotify = j.inotify /\ j'.no_new_files = j.no_new_files
      /\ j'.opening = j.opening
      /\ DOMAIN j'.files = DOMAIN j.files \ {p}
      /\ \A x \in DOMAIN j'.files : j'.files[x] = j.files[x]
  BY <1>3 DEF Closes, SameDirs
<1>6. WatchTypes'
  BY <1>1, <1>4, <1>5 DEF WatchTypes
<1>7. TreeOK' /\ WatchesOK' /\ QueueOK'
  BY <1>1, <1>4, <1>5, SameWatching
<1>8. ScanOK' /\ GoneOK'
  BY <1>1, <1>4, <1>5 DEF WatchInv, ScanOK, GoneOK, Exists, InodeOf, RootInode
<1>9. StaleOK'
  <2>1. SUFFICES ASSUME ~hist.lost, NEW x \in DOMAIN j'.files \ (hist'.unseen \cup hist'.rotated)
                 PROVE  \/ x \in DOMAIN fs /\ fs[x].ino = j'.files[x]
                        \/ \E i \in DOMAIN queue : Removes(j.watches, queue[i], x)
    BY <1>1, <1>4, <1>5 DEF StaleOK
  <2>2. x \in DOMAIN j.files \ (hist.unseen \cup hist.rotated) /\ j'.files[x] = j.files[x]
    BY <1>4, <1>5
  <2> QED
    BY <2>1, <2>2 DEF WatchInv, StaleOK
<1>10. Live' <=> Live
  BY <1>1, <1>4, <1>5 DEF Live
<1>11. (\A d : ScanReads(d)' <=> ScanReads(d)) /\ (\A x : Scanned(x)' <=> Scanned(x))
  BY <1>1, <1>5 DEF ScanReads, Scanned
<1>12. UnwatchedOK'
  BY <1>1, <1>4, <1>5, <1>10, <1>11 DEF WatchInv, UnwatchedOK, Followed
<1>13. MissingOK'
  <2>1. SUFFICES ASSUME Live, j.errors = {}, NEW x \in DOMAIN fs, fs[x].ready, x \notin hist'.dropped,
                        Followed(x[1])
                 PROVE  /\ \/ x \in DOMAIN j'.files \/ Scanned(x)
                           \/ \E k \in DOMAIN queue : Covers(j.watches, queue[k], x)
                        /\ \A i \in DOMAIN queue : Removes(j.watches, queue[i], x) =>
                              \E k \in DOMAIN queue : k > i /\ Covers(j.watches, queue[k], x)
    BY <1>1, <1>4, <1>5, <1>10, <1>11 DEF MissingOK, Followed
  <2>2. x # p /\ x \notin hist.dropped
    BY <1>4, <2>1
  <2>3. x \in DOMAIN j.files => x \in DOMAIN j'.files
    BY <1>5, <2>2
  <2> QED
    BY <2>1, <2>2, <2>3 DEF WatchInv, MissingOK, Followed
<1>14. ToldOK'
  BY <1>3, <1>4 DEF WatchInv, ToldOK, Closes
<1> QED
  BY <1>6, <1>7, <1>8, <1>9, <1>12, <1>13, <1>14 DEF WatchInv

-----------------------------------------------------------------------------
(* Reading directories                                                     *)

\* What a reading that begins is bound to return.
LEMMA ScanFacts ==
    ASSUME WatchTypes, NEW d \in Dirs
    PROVE  /\ Scan(d) \in Scans /\ Scan(d).dir = d
           /\ \A p \in DOMAIN fs : p[1] = d => p[2] \in Scan(d).must
           /\ d = Root => \A e \in DOMAIN subs : e \in Scan(d).must
           /\ \A e \in Scan(d).must \cap Subs : d = Root
<1>1. DOMAIN fs \subseteq Paths /\ DOMAIN subs \subseteq Subs
  <2>1. fs \in Maps(Paths, FileInfos) /\ subs \in Maps(Subs, Inodes)
    BY DEF WatchTypes, Files
  <2> QED
    BY <2>1, MapsFacts
<1>2. \A p \in DOMAIN fs : p[2] \in Names
  BY <1>1, PathFacts
<1>3. Names \cap Subs = {}
  BY WatchAssumption
<1>4. PICK A : A = {p[2] : p \in {x \in DOMAIN fs : x[1] = d}}
  OBVIOUS
<1>5. A \subseteq Names /\ \A p \in DOMAIN fs : p[1] = d => p[2] \in A
  BY <1>2, <1>4
<1>6. PICK B : B = IF d = Root THEN DOMAIN subs ELSE {}
  OBVIOUS
<1>7. Scan(d) = [dir |-> d, must |-> A \cup B]
  BY <1>4, <1>6 DEF Scan
<1> QED
  BY <1>1, <1>3, <1>5, <1>6, <1>7 DEF Scans

\* One more directory is read.
LEMMA PushFacts ==
    ASSUME NEW S, NEW s \in Seq(S), NEW x \in S, NEW t, t = <<x>> \o s
    PROVE  /\ t \in Seq(S) /\ Len(t) = Len(s) + 1 /\ 1 \in DOMAIN t /\ t[1] = x
           /\ \A i \in DOMAIN s : i + 1 \in DOMAIN t /\ t[i + 1] = s[i]
           /\ \A k \in DOMAIN t : k # 1 => k - 1 \in DOMAIN s /\ t[k] = s[k - 1]
OBVIOUS

\* The root is opened, to be read with a watch or without: the reader follows no
\* directory yet.
LEMMA OpenRootPreserves ==
    ASSUME WatchInv, ~j.inotify, Idle, NEW r \in Readers, r.dirs = j.dirs,
           r.watches = j.watches, r.files = j.files, r.errors = j.errors, r.open,
           r.changed = j.changed, j' = AddDirectory(r, Root),
           UNCHANGED <<fs, subs, inodes, queue, scan, scope, hist>>
    PROVE  WatchInv'
<1>1. /\ WatchTypes /\ TreeOK /\ DOMAIN j.watches = {} /\ hist.unwatched = {} /\ scan = <<>>
      /\ j \in Readers /\ Fits(j) /\ queue \in Seq(Events)
  BY DEF WatchInv, WatchTypes, WatchesOK, WantedOK, Idle
<1>2. Root \in Dirs /\ Exists(Root) /\ Root # "none"
  BY WatchAssumption DEF Dirs, Exists
<1>3. j' = [r EXCEPT !.opening = Root]
  BY <1>2 DEF AddDirectory
<1>4. /\ j' \in Readers /\ j'.files = j.files /\ j'.errors = j.errors /\ j'.open
      /\ j'.dirs = j.dirs /\ j'.watches = j.watches /\ j'.changed = j.changed
      /\ j'.opening = Root
  BY <1>2, <1>3 DEF Readers
<1>5. DOMAIN queue = {} /\ DOMAIN scan = {}
  BY <1>1 DEF WatchInv, QueueOK
<1>6. WatchTypes'
  BY <1>1, <1>4 DEF WatchTypes
<1>7. TreeOK'
  BY <1>1, SameTree
<1>8. WatchesOK'
  <2>1. Fits(j)'
    BY <1>1, <1>4, SameFits
  <2>2. OpeningOK'
    BY <1>1, <1>4, <1>5 DEF OpeningOK, Exists
  <2>3. FailedOK' /\ WantedOK'
    BY <1>1, <1>4 DEF FailedOK, WantedOK
  <2> QED
    BY <2>1, <2>2, <2>3 DEF WatchesOK
<1>9. QueueOK' /\ ScanOK'
  BY <1>5 DEF QueueOK, ScanOK
<1>10. StaleOK' /\ ToldOK'
  BY <1>4, <1>5 DEF WatchInv, StaleOK, ToldOK
<1>11. GoneOK'
  BY <1>1, <1>4 DEF GoneOK
<1>12. ~Live'
  BY <1>4 DEF Live
<1>13. UnwatchedOK' /\ MissingOK'
  BY <1>12 DEF UnwatchedOK, MissingOK, Followed
<1> QED
  BY <1>6, <1>7, <1>8, <1>9, <1>10, <1>11, <1>13 DEF WatchInv

\* sd_journal_open() and sd_journal_open_directory().
LEMMA OpenDirectoryPreserves ==
    ASSUME WatchInv, OpenDirectory
    PROVE  WatchInv'
<1>1. j \in Readers /\ ~j.open /\ ~j.inotify /\ Idle
  BY DEF WatchInv, WatchTypes, WatchesOK, WantedOK, OpenDirectory
<1>2. PICK r : r = [j EXCEPT !.open = TRUE]
  OBVIOUS
<1>3. /\ r \in Readers /\ r.dirs = j.dirs /\ r.watches = j.watches /\ r.files = j.files
      /\ r.errors = j.errors /\ r.open /\ r.changed = j.changed
  BY <1>1, <1>2 DEF Readers
<1>4. j' = AddDirectory(r, Root) /\ UNCHANGED <<fs, subs, inodes, queue, scan, scope, hist>>
  BY <1>2 DEF OpenDirectory
<1> QED
  BY <1>1, <1>3, <1>4, OpenRootPreserves

\* sd_journal_get_fd().
LEMMA GetFdPreserves ==
    ASSUME WatchInv, GetFd
    PROVE  WatchInv'
<1>1. j \in Readers /\ j.open /\ ~j.inotify /\ Idle
  BY DEF WatchInv, WatchTypes, WatchesOK, WantedOK, GetFd
<1>2. PICK r : r = [j EXCEPT !.inotify = TRUE]
  OBVIOUS
<1>3. /\ r \in Readers /\ r.dirs = j.dirs /\ r.watches = j.watches /\ r.files = j.files
      /\ r.errors = j.errors /\ r.open /\ r.changed = j.changed
  BY <1>1, <1>2 DEF Readers
<1>4. j' = AddDirectory(r, Root) /\ UNCHANGED <<fs, subs, inodes, queue, scan, scope, hist>>
  BY <1>2 DEF GetFd
<1> QED
  BY <1>1, <1>3, <1>4, OpenRootPreserves

\* What is left to be read after name n.
Rest(n) == <<[scan[1] EXCEPT !.must = @ \ {n}]>> \o Tail(scan)

IsRest(rest, n) ==
    /\ rest \in Seq(Scans) /\ DOMAIN rest = DOMAIN scan /\ Len(rest) = Len(scan)
    /\ \A i \in DOMAIN scan :
         /\ rest[i].dir = scan[i].dir /\ rest[i].must \subseteq scan[i].must
         /\ \A x \in scan[i].must : x \in rest[i].must \/ (i = 1 /\ x = n)
    /\ n \notin rest[1].must

\* What is left to scan when a name is taken from the first loop.
LEMMA RestFacts ==
    ASSUME scan \in Seq(Scans), scan # <<>>, NEW n
    PROVE  IsRest(Rest(n), n)
<1>0. PICK rest : rest = Rest(n)
  OBVIOUS
<1>1. PICK s, t : s = [scan[1] EXCEPT !.must = @ \ {n}] /\ t = Tail(scan)
  OBVIOUS
<1>2. 1 \in DOMAIN scan /\ scan[1] \in Scans
  OBVIOUS
<1>3. s \in Scans /\ s.dir = scan[1].dir /\ s.must = scan[1].must \ {n}
  BY <1>1, <1>2 DEF Scans
<1>4. /\ t \in Seq(Scans) /\ Len(t) = Len(scan) - 1
      /\ \A i \in DOMAIN scan : i # 1 => i - 1 \in DOMAIN t /\ t[i - 1] = scan[i]
  BY <1>1, TailFacts
<1>5. /\ rest \in Seq(Scans) /\ Len(rest) = Len(t) + 1 /\ rest[1] = s
      /\ \A k \in DOMAIN rest : k # 1 => rest[k] = t[k - 1]
  <2>1. rest = <<s>> \o t
    BY <1>0, <1>1 DEF Rest
  <2> QED
    BY <1>3, <1>4, <2>1, PushFacts
<1>6. Len(rest) = Len(scan) /\ DOMAIN rest = DOMAIN scan
  BY <1>4, <1>5
<1>7. ASSUME NEW i \in DOMAIN scan
      PROVE  /\ rest[i].dir = scan[i].dir /\ rest[i].must \subseteq scan[i].must
             /\ \A x \in scan[i].must : x \in rest[i].must \/ (i = 1 /\ x = n)
  <2>1. CASE i = 1
    BY <1>3, <1>5, <2>1
  <2>2. CASE i # 1
    <3>1. rest[i] = scan[i]
      BY <1>4, <1>5, <1>6, <2>2
    <3> QED
      BY <3>1
  <2> QED
    BY <2>1, <2>2
<1> QED
  BY <1>0, <1>3, <1>5, <1>6, <1>7 DEF IsRest

\* A subdirectory is found by reading, and opened.
LEMMA ReadSubPreserves ==
    ASSUME WatchInv, NEW n \in Subs, ReadEntry(n)
    PROVE  WatchInv'
<1>1. /\ WatchTypes /\ TreeOK /\ scan \in Seq(Scans) /\ scan # <<>> /\ j \in Readers /\ queue \in Seq(Events)
      /\ UNCHANGED <<fs, subs, inodes, queue, hist>> /\ Names \cap Subs = {} /\ Root \notin Subs
      /\ DOMAIN fs \subseteq Paths /\ DOMAIN subs \subseteq Subs
  <2>1. fs \in Maps(Paths, FileInfos) /\ subs \in Maps(Subs, Inodes)
    BY DEF WatchInv, WatchTypes, Files
  <2>2. DOMAIN fs \subseteq Paths /\ DOMAIN subs \subseteq Subs
    BY <2>1, MapsFacts
  <2> QED
    BY <2>2, WatchAssumption DEF WatchInv, WatchTypes, ReadEntry
<1>2. 1 \in DOMAIN scan /\ scan[1] \in Scans /\ DOMAIN scan = 1 .. Len(scan) /\ Len(scan) \in Nat
  BY <1>1
<1>3. n \in scan[1].must
  <2>1. <<scan[1].dir, n>> \notin DOMAIN fs
    BY <1>1, PathFacts
  <2> QED
    BY <2>1 DEF ReadEntry
<1>4. scan[1].dir = Root /\ (n \in DOMAIN j.dirs => j.dirs[n] = 0) /\ Len(scan) = 1
  BY <1>2, <1>3 DEF WatchInv, ScanOK
<1>5. PICK rs : rs = Rest(n)
  OBVIOUS
<1>6. /\ rs \in Seq(Scans) /\ DOMAIN rs = {1} /\ Len(rs) = 1 /\ 1 \in DOMAIN rs
      /\ rs[1].dir = Root /\ rs[1].must \subseteq scan[1].must
      /\ \A x \in scan[1].must : x \in rs[1].must \/ x = n
      /\ DOMAIN scan = {1} /\ n \notin rs[1].must
  <2>0. IsRest(rs, n)
    BY <1>1, <1>5, RestFacts
  <2>1. /\ rs \in Seq(Scans) /\ DOMAIN rs = DOMAIN scan /\ Len(rs) = Len(scan)
        /\ \A i \in DOMAIN scan :
             /\ rs[i].dir = scan[i].dir /\ rs[i].must \subseteq scan[i].must
             /\ \A x \in scan[i].must : x \in rs[i].must \/ (i = 1 /\ x = n)
        /\ n \notin rs[1].must
    BY <2>0 DEF IsRest
  <2>2. DOMAIN scan = {1}
    BY <1>2, <1>4
  <2> QED
    BY <1>2, <1>4, <2>1, <2>2
<1>7. j' = AddDirectory(j, n) /\ scan' = rs /\ j.opening = "none"
  BY <1>5 DEF ReadEntry, Rest
<1>8. PICK o : o = IF Exists(n) THEN n ELSE "none"
  OBVIOUS
<1>9. n \in Dirs /\ n # Root /\ n # "none" /\ o \in Dirs \cup {"none"} /\ o # Root
      /\ (o # "none" => o = n /\ Exists(n)) /\ (n \in DOMAIN subs => o = n)
  BY <1>1, <1>8, WatchAssumption DEF Dirs, Exists
<1>10. j' = [j EXCEPT !.opening = o]
  BY <1>7, <1>8 DEF AddDirectory
<1>11. /\ j' \in Readers /\ j'.files = j.files /\ j'.errors = j.errors /\ j'.dirs = j.dirs
       /\ j'.watches = j.watches /\ j'.changed = j.changed /\ j'.open = j.open
       /\ j'.inotify = j.inotify /\ j'.no_new_files = j.no_new_files /\ j'.opening = o
  BY <1>1, <1>9, <1>10 DEF Readers
<1>12. WatchTypes'
  BY <1>1, <1>6, <1>7, <1>11 DEF WatchTypes
<1>13. TreeOK'
  BY <1>1, SameTree
<1>14. WatchesOK'
  <2>1. Fits(j)'
    BY <1>1, <1>11, SameFits DEF WatchInv, WatchesOK
  <2>2. OpeningOK'
    BY <1>1, <1>6, <1>7, <1>9, <1>11 DEF OpeningOK, Exists
  <2>3. FailedOK' /\ WantedOK'
    BY <1>1, <1>7, <1>11, WatchAssumption DEF WatchInv, WatchesOK, FailedOK, WantedOK, RootInode, Dirs
  <2> QED
    BY <2>1, <2>2, <2>3 DEF WatchesOK
<1>15. QueueOK'
  BY <1>1, <1>11 DEF WatchInv, QueueOK, RootInode
<1>16. ScanOK'
  BY <1>4, <1>6, <1>7, <1>11 DEF WatchInv, ScanOK
<1>17. StaleOK' /\ GoneOK' /\ ToldOK'
  BY <1>1, <1>11 DEF WatchInv, StaleOK, GoneOK, ToldOK, Exists, InodeOf, RootInode
<1>18. ASSUME NEW d \in DOMAIN subs, ScanReads(d) PROVE ScanReads(d)'
  <2>1. d # "none"
    BY <1>1, WatchAssumption DEF Dirs
  <2>2. d \in scan[1].must
    BY <1>6, <1>7, <1>18, <2>1 DEF ScanReads
  <2> QED
    BY <1>6, <1>7, <1>9, <1>11, <2>2 DEF ScanReads
<1>19. Live' <=> Live
  BY <1>1, <1>7, <1>9, <1>11, WatchAssumption DEF Live, Dirs
<1>20. UnwatchedOK'
  BY <1>1, <1>11, <1>18, <1>19 DEF WatchInv, UnwatchedOK, Creates, RootInode, Followed
<1>21. ASSUME NEW p \in DOMAIN fs, Scanned(p) PROVE Scanned(p)'
  <2>1. p[2] # n /\ (p[1] \in Subs => p[1] \in DOMAIN subs)
    BY <1>1, PathFacts DEF TreeOK, Exists
  <2>2. CASE p[1] \in Subs /\ ScanReads(p[1])
    BY <1>18, <2>1, <2>2 DEF Scanned
  <2>3. CASE \E i \in DOMAIN scan : scan[i].dir = p[1] /\ p[2] \in scan[i].must
    <3>1. scan[1].dir = p[1] /\ p[2] \in scan[1].must
      BY <1>6, <2>3
    <3>2. 1 \in DOMAIN scan' /\ scan'[1].dir = p[1] /\ p[2] \in scan'[1].must
      BY <1>4, <1>6, <1>7, <2>1, <3>1
    <3> QED
      BY <3>2 DEF Scanned
  <2> QED
    BY <1>21, <2>2, <2>3 DEF Scanned
<1>22. MissingOK'
  BY <1>1, <1>11, <1>19, <1>21 DEF WatchInv, MissingOK, Followed
<1> QED
  BY <1>12, <1>13, <1>14, <1>15, <1>16, <1>17, <1>20, <1>22 DEF WatchInv

\* A file is found by reading.
LEMMA ReadFilePreserves ==
    ASSUME WatchInv, NEW n \in Names, ReadEntry(n)
    PROVE  WatchInv'
<1>1. /\ WatchTypes /\ TreeOK /\ scan \in Seq(Scans) /\ scan # <<>> /\ j \in Readers /\ queue \in Seq(Events)
      /\ UNCHANGED <<fs, subs, inodes, queue, hist>> /\ n \notin Subs /\ fs \in Files
      /\ DOMAIN fs \subseteq Paths /\ j.opening = "none"
  <2>1. fs \in Maps(Paths, FileInfos)
    BY DEF WatchInv, WatchTypes, Files
  <2>2. DOMAIN fs \subseteq Paths
    BY <2>1, MapsFacts
  <2> QED
    BY <2>2, WatchAssumption DEF WatchInv, WatchTypes, ReadEntry
<1>2. 1 \in DOMAIN scan /\ scan[1] \in Scans
  BY <1>1
<1>3. PICK p0, rs : p0 = <<scan[1].dir, n>> /\ rs = Rest(n)
  OBVIOUS
<1>4. p0 \in Paths /\ p0[1] = scan[1].dir /\ p0[2] = n
  BY <1>2, <1>3 DEF Scans, Paths
<1>5. /\ rs \in Seq(Scans) /\ DOMAIN rs = DOMAIN scan /\ Len(rs) = Len(scan)
      /\ \A i \in DOMAIN scan :
           /\ rs[i].dir = scan[i].dir /\ rs[i].must \subseteq scan[i].must
           /\ \A x \in scan[i].must : x \in rs[i].must \/ (i = 1 /\ x = n)
  <2>0. IsRest(rs, n)
    BY <1>1, <1>3, RestFacts
  <2> QED
    BY <2>0 DEF IsRest
<1>6. j' = AddFile(j, p0) /\ scan' = rs
  BY <1>1, <1>3 DEF ReadEntry, Rest
<1>7. Opens(j, j', p0)
  BY <1>1, <1>4, <1>6, AddFileOpens
<1>8. /\ j' \in Readers /\ SameDirs(j, j') /\ j'.dirs = j.dirs /\ j'.watches = j.watches
      /\ j'.inotify = j.inotify /\ j'.no_new_files = j.no_new_files /\ j'.opening = j.opening
      /\ j'.errors = {} => j.errors = {}
      /\ DOMAIN j.files \subseteq DOMAIN j'.files
  BY <1>7 DEF Opens, SameDirs
<1>9. WatchTypes'
  BY <1>1, <1>5, <1>6, <1>8 DEF WatchTypes
<1>10. TreeOK' /\ WatchesOK' /\ QueueOK'
  BY <1>1, <1>8, SameWatching
<1>11. ScanOK'
  BY <1>5, <1>6, <1>8 DEF WatchInv, ScanOK
<1>12. GoneOK'
  BY <1>1, <1>8 DEF WatchInv, GoneOK, Exists, InodeOf, RootInode
<1>13. StaleOK'
  BY <1>1, <1>7, <1>8 DEF WatchInv, StaleOK, Opens
<1>14. ToldOK'
  BY <1>1, <1>7 DEF WatchInv, ToldOK, Opens
<1>15. \A d \in Subs : ScanReads(d) => ScanReads(d)'
  BY <1>1, <1>5, <1>6, <1>8 DEF ScanReads
<1>16. Live' <=> Live
  BY <1>1, <1>8 DEF Live
<1>17. UnwatchedOK'
  BY <1>1, <1>8, <1>15, <1>16, InodeFacts DEF WatchInv, UnwatchedOK, Followed
<1>18. ASSUME NEW p \in DOMAIN fs, Scanned(p), p # p0 PROVE Scanned(p)'
  <2>1. p = <<p[1], p[2]>>
    BY <1>1, PathFacts
  <2>2. ~(p[1] = scan[1].dir /\ p[2] = n)
    BY <1>3, <1>18, <2>1
  <2> QED
    BY <1>5, <1>6, <1>15, <1>18, <2>2 DEF Scanned
<1>19. MissingOK'
  <2>1. SUFFICES ASSUME Live, j'.errors = {}, NEW p \in DOMAIN fs, fs[p].ready, p \notin hist.dropped,
                        Followed(p[1])
                 PROVE  /\ \/ p \in DOMAIN j'.files \/ Scanned(p)'
                           \/ \E k \in DOMAIN queue : Covers(j.watches, queue[k], p)
                        /\ \A i \in DOMAIN queue : Removes(j.watches, queue[i], p) =>
                              \E k \in DOMAIN queue : k > i /\ Covers(j.watches, queue[k], p)
    BY <1>1, <1>8, <1>16 DEF MissingOK, Followed
  <2>2. CASE p = p0
    <3>1. p \in DOMAIN j'.files
      BY <1>7, <2>1, <2>2 DEF Opens, Live
    <3> QED
      BY <1>8, <2>1, <3>1 DEF WatchInv, MissingOK, Followed
  <2>3. CASE p # p0
    BY <1>8, <1>18, <2>1, <2>3 DEF WatchInv, MissingOK, Followed
  <2> QED
    BY <2>2, <2>3
<1> QED
  BY <1>9, <1>10, <1>11, <1>12, <1>13, <1>14, <1>17, <1>19 DEF WatchInv

-----------------------------------------------------------------------------
(* Watching directories                                                    *)

\* What WatchDirectory does with directory d, whether the watch is added or fails.
Watches(d, added) ==
    /\ d \in Dirs /\ Exists(d) /\ d = j.opening /\ d # "none"
    /\ Knows(j, j', d, added) /\ (~added => Unwatched(j, d))
    /\ hist'.unwatched = IF added THEN hist.unwatched \ {d} ELSE hist.unwatched \cup {d}
    /\ DOMAIN hist' = HistFields /\ hist'.lost = hist.lost /\ hist'.unseen = hist.unseen
    /\ hist'.rotated = hist.rotated /\ hist'.dropped = hist.dropped /\ hist'.told = hist.told
    /\ scan' = IF d = Root /\ j.no_new_files THEN scan ELSE <<Scan(d)>> \o scan
    /\ UNCHANGED <<fs, subs, inodes, queue>>

\* From opendir() to the first readdir() the directory becomes known, and watched or not.
LEMMA WatchDirectoryFacts ==
    ASSUME WatchInv, WatchDirectory
    PROVE  \E added \in BOOLEAN : Watches(j.opening, added)
<1>1. PICK d : d = j.opening
  OBVIOUS
<1>2. /\ WatchTypes /\ TreeOK /\ j \in Readers /\ Fits(j) /\ d # "none" /\ Exists(d)
      /\ DOMAIN hist = HistFields
  BY <1>1 DEF WatchInv, WatchTypes, WatchesOK, OpeningOK, WatchDirectory
<1>3. d \in Dirs
  BY <1>1, <1>2, ReaderFacts
<1>4. PICK added \in BOOLEAN :
         /\ j' = Known(j, d, added) /\ (~added => Unwatched(j, d))
         /\ hist' = IF added THEN [hist EXCEPT !.unwatched = @ \ {d}]
                    ELSE [hist EXCEPT !.fails = @ + 1, !.unwatched = @ \cup {d}]
  <2>1. CASE j' = Known(j, d, TRUE) /\ hist' = [hist EXCEPT !.unwatched = @ \ {d}]
    BY <2>1
  <2>2. CASE /\ Unwatched(j, d) /\ j' = Known(j, d, FALSE)
             /\ hist' = [hist EXCEPT !.fails = @ + 1, !.unwatched = @ \cup {d}]
    BY <2>2
  <2> QED
    BY <1>1, <2>1, <2>2 DEF WatchDirectory
<1>5. Knows(j, j', d, added)
  BY <1>2, <1>3, <1>4, KnownKnows
<1>6. /\ hist'.unwatched = IF added THEN hist.unwatched \ {d} ELSE hist.unwatched \cup {d}
      /\ DOMAIN hist' = HistFields /\ hist'.lost = hist.lost /\ hist'.unseen = hist.unseen
      /\ hist'.rotated = hist.rotated /\ hist'.dropped = hist.dropped /\ hist'.told = hist.told
  <2>1. CASE added
    BY <1>2, <1>4, <2>1 DEF HistFields
  <2>2. CASE ~added
    BY <1>2, <1>4, <2>2 DEF HistFields
  <2> QED
    BY <2>1, <2>2
<1>7. /\ scan' = IF d = Root /\ j.no_new_files THEN scan ELSE <<Scan(d)>> \o scan
      /\ UNCHANGED <<fs, subs, inodes, queue>>
  BY <1>1 DEF WatchDirectory
<1>8. Watches(d, added)
  BY <1>1, <1>2, <1>3, <1>4, <1>5, <1>6, <1>7 DEF Watches
<1> QED
  BY <1>1, <1>8

\* Parts that more watches leave alone.
LEMMA MoreWatches ==
    ASSUME WatchInv, NEW d \in Dirs, Exists(d), NEW added \in BOOLEAN, Knows(j, j', d, added),
           UNCHANGED <<fs, subs, inodes>>, hist'.told = hist.told
    PROVE  /\ TreeOK' /\ Fits(j)' /\ ToldOK'
           /\ Grows(j.watches, j'.watches)
           /\ \A w \in DOMAIN j'.watches : w \in DOMAIN j.watches
                 \/ (w = InodeOf(d) /\ j'.watches[w] = d)
<1>1. WatchTypes /\ TreeOK /\ j \in Readers /\ Fits(j)
  BY DEF WatchInv, WatchTypes, WatchesOK
<1>2. TreeOK'
  BY <1>1, SameTree
<1>3. Fits(j')
  BY <1>1, KnowsFits
<1>4. Fits(j)'
  BY <1>3 DEF Fits, RootInode
<1>5. Grows(j.watches, j'.watches) /\ j'.files = j.files /\ (j.changed => j'.changed)
  BY DEF Knows
<1>6. \A w \in DOMAIN j'.watches : w \in DOMAIN j.watches
           \/ (w = InodeOf(d) /\ j'.watches[w] = d)
  BY DEF Knows
<1>7. ToldOK'
  BY <1>5 DEF WatchInv, ToldOK
<1> QED
  BY <1>2, <1>4, <1>5, <1>6, <1>7

\* The root is watched, or its watch fails, and its reading begins.
LEMMA WatchRootPreserves ==
    ASSUME WatchInv, NEW added \in BOOLEAN, Watches(Root, added)
    PROVE  WatchInv'
<1>1. /\ WatchTypes /\ TreeOK /\ DOMAIN j.watches = {} /\ queue \in Seq(Events) /\ DOMAIN scan = {}
      /\ j \in Readers /\ scan \in Seq(Scans) /\ j.opening = Root
  BY WatchAssumption DEF WatchInv, WatchTypes, WatchesOK, OpeningOK, Watches
<1>2. Root \in Dirs /\ Exists(Root) /\ InodeOf(Root) = RootInode /\ Root \notin Subs
  BY WatchAssumption DEF Dirs, Exists, InodeOf
<1>3. scan = <<>>
  BY <1>1
<1>4. /\ Knows(j, j', Root, added) /\ UNCHANGED <<fs, subs, inodes, queue>>
      /\ scan' = IF j.no_new_files THEN <<>> ELSE <<Scan(Root)>> \o <<>>
      /\ DOMAIN hist' = HistFields /\ hist'.lost = hist.lost /\ hist'.unseen = hist.unseen
      /\ hist'.rotated = hist.rotated /\ hist'.dropped = hist.dropped /\ hist'.told = hist.told
      /\ hist'.unwatched = IF added THEN hist.unwatched \ {Root} ELSE hist.unwatched \cup {Root}
      /\ ~added => j.inotify /\ (Root \in DOMAIN j.dirs => j.dirs[Root] = 0)
  BY <1>3 DEF Watches, Unwatched
<1>5. DOMAIN queue = {}
  BY <1>1 DEF WatchInv, QueueOK
<1>6. \A d \in DOMAIN j.dirs : j.dirs[d] = 0
  BY <1>1 DEF WatchInv, WatchesOK, Fits
<1>7. /\ j' \in Readers /\ j'.files = j.files /\ j'.errors = j.errors /\ j'.open = j.open
      /\ j'.inotify = j.inotify /\ j'.no_new_files = j.no_new_files /\ j'.opening = "none"
      /\ j.changed => j'.changed
      /\ \A d \in DOMAIN j'.dirs : d # Root => j'.dirs[d] = 0
      /\ IF j.inotify /\ added THEN DOMAIN j'.watches = {RootInode} /\ j'.watches[RootInode] = Root
                               ELSE DOMAIN j'.watches = {} /\ j'.dirs[Root] = 0
  BY <1>1, <1>2, <1>4, <1>6 DEF Knows
<1>8. PICK sc : sc = Scan(Root)
  OBVIOUS
<1>9. /\ sc \in Scans /\ sc.dir = Root
      /\ \A p \in DOMAIN fs : p[1] = Root => p[2] \in sc.must
      /\ \A e \in DOMAIN subs : e \in sc.must
  BY <1>1, <1>2, <1>8, ScanFacts
<1>10. /\ scan' \in Seq(Scans)
       /\ \A i \in DOMAIN scan' : i = 1 /\ scan'[i] = sc /\ Len(scan') = 1
       /\ ~j.no_new_files => 1 \in DOMAIN scan' /\ scan'[1] = sc
  BY <1>4, <1>8, <1>9
<1>11. WatchTypes'
  BY <1>1, <1>4, <1>7, <1>10 DEF WatchTypes
<1>12. TreeOK' /\ Fits(j)' /\ ToldOK'
  BY <1>2, <1>4, MoreWatches
<1>13. WatchesOK'
  <2>1. OpeningOK'
    BY <1>7 DEF OpeningOK
  <2>2. FailedOK'
    BY <1>4, <1>7 DEF FailedOK
  <2>3. j.inotify => j.open
    BY DEF WatchInv, WatchesOK, WantedOK
  <2>4. ~j.inotify => hist.unwatched = {} /\ added
    BY <1>4 DEF WatchInv, WatchesOK, WantedOK
  <2>5. WantedOK'
    BY <1>4, <1>7, <2>3, <2>4 DEF WantedOK, RootInode
  <2> QED
    BY <1>12, <2>1, <2>2, <2>5 DEF WatchesOK
<1>14. QueueOK'
  BY <1>4, <1>5 DEF QueueOK
<1>15. ScanOK'
  BY <1>2, <1>7, <1>9, <1>10 DEF ScanOK
<1>16. StaleOK'
  BY <1>4, <1>5, <1>7 DEF WatchInv, StaleOK
<1>17. GoneOK'
  BY <1>7 DEF GoneOK, Exists, InodeOf, RootInode
<1>18. Live' => ~j.no_new_files
  BY <1>7 DEF Live
<1>19. UnwatchedOK'
  BY <1>4, <1>5, <1>9, <1>10, <1>18 DEF UnwatchedOK, ScanReads, Followed
<1>20. MissingOK'
  <2>1. ASSUME Live', NEW p \in DOMAIN fs PROVE Scanned(p)'
    <3>1. p[1] = Root \/ p[1] \in DOMAIN subs
      BY <1>1 DEF TreeOK, Exists
    <3>2. p[1] = Root => p[2] \in sc.must
      BY <1>9
    <3>3. p[1] \in DOMAIN subs => p[1] \in sc.must /\ p[1] \in Subs
      BY <1>1, <1>9, InodeFacts
    <3> QED
      BY <1>9, <1>10, <1>18, <2>1, <3>1, <3>2, <3>3 DEF Scanned, ScanReads
  <2> QED
    BY <1>4, <1>5, <2>1 DEF MissingOK, Followed
<1> QED
  BY <1>11, <1>12, <1>13, <1>14, <1>15, <1>16, <1>17, <1>19, <1>20 DEF WatchInv

\* A subdirectory is watched, or its watch fails, and its reading begins.
LEMMA WatchSubPreserves ==
    ASSUME WatchInv, NEW n \in Subs, NEW added \in BOOLEAN, Watches(n, added)
    PROVE  WatchInv'
<1>1. /\ WatchTypes /\ TreeOK /\ scan \in Seq(Scans) /\ j \in Readers /\ queue \in Seq(Events)
      /\ Names \cap Subs = {} /\ Root \notin Subs /\ DOMAIN fs \subseteq Paths
      /\ DOMAIN subs \subseteq Subs
  <2>1. fs \in Maps(Paths, FileInfos) /\ subs \in Maps(Subs, Inodes)
    BY DEF WatchInv, WatchTypes, Files
  <2>2. DOMAIN fs \subseteq Paths /\ DOMAIN subs \subseteq Subs
    BY <2>1, MapsFacts
  <2> QED
    BY <2>2, WatchAssumption DEF WatchInv, WatchTypes
<1>2. /\ n \in Dirs /\ n # Root /\ n \in DOMAIN subs /\ InodeOf(n) = subs[n] /\ Fits(j)
      /\ j.opening = n /\ Exists(n) /\ n # "none"
  BY <1>1 DEF Dirs, Exists, InodeOf, WatchInv, WatchesOK, Watches
<1>3. /\ Knows(j, j', n, added) /\ UNCHANGED <<fs, subs, inodes, queue>>
      /\ scan' = <<Scan(n)>> \o scan
      /\ DOMAIN hist' = HistFields /\ hist'.lost = hist.lost /\ hist'.unseen = hist.unseen
      /\ hist'.rotated = hist.rotated /\ hist'.dropped = hist.dropped /\ hist'.told = hist.told
      /\ hist'.unwatched = IF added THEN hist.unwatched \ {n} ELSE hist.unwatched \cup {n}
      /\ ~added => j.inotify /\ (n \in DOMAIN j.dirs => j.dirs[n] = 0)
  BY <1>2 DEF Watches, Unwatched
<1>4. /\ TreeOK' /\ Fits(j)' /\ ToldOK' /\ Grows(j.watches, j'.watches)
      /\ \A w \in DOMAIN j'.watches : w \in DOMAIN j.watches
            \/ (w = InodeOf(n) /\ j'.watches[w] = n)
  BY <1>2, <1>3, MoreWatches
<1>5. /\ j' \in Readers /\ j'.files = j.files /\ j'.errors = j.errors /\ j'.open = j.open
      /\ j'.inotify = j.inotify /\ j'.no_new_files = j.no_new_files /\ j'.opening = "none"
      /\ \A x \in DOMAIN j'.dirs : x # n => x \in DOMAIN j.dirs /\ j'.dirs[x] = j.dirs[x]
  BY <1>3 DEF Knows
<1>6. /\ ~j.inotify => DOMAIN j'.watches = DOMAIN j.watches
      /\ ~added => j'.dirs[n] = 0
      /\ (j.inotify /\ added /\ (n \in DOMAIN j.dirs => j.dirs[n] = 0)) => subs[n] \in DOMAIN j'.watches
  BY <1>2, <1>3 DEF Knows
<1>7. PICK sc : sc = Scan(n)
  OBVIOUS
<1>8. /\ sc \in Scans /\ sc.dir = n /\ sc.must \cap Subs = {}
      /\ \A p \in DOMAIN fs : p[1] = n => p[2] \in sc.must
  BY <1>1, <1>2, <1>7, ScanFacts
<1>9. /\ scan' \in Seq(Scans) /\ Len(scan') = Len(scan) + 1 /\ 1 \in DOMAIN scan' /\ scan'[1] = sc
      /\ \A i \in DOMAIN scan : i + 1 \in DOMAIN scan' /\ scan'[i + 1] = scan[i]
      /\ \A k \in DOMAIN scan' : k # 1 => k - 1 \in DOMAIN scan /\ scan'[k] = scan[k - 1]
  BY <1>1, <1>3, <1>7, <1>8, PushFacts
<1>10. WatchTypes'
  BY <1>1, <1>3, <1>5, <1>9 DEF WatchTypes
<1>11. WatchesOK'
  <2>1. OpeningOK'
    BY <1>5 DEF OpeningOK
  <2>2. FailedOK'
    BY <1>3, <1>5, <1>6 DEF WatchInv, WatchesOK, FailedOK
  <2>3. WantedOK'
    <3>1. j.inotify => j.open /\ (RootInode \in DOMAIN j'.watches \/ Root \in hist'.unwatched)
      BY <1>2, <1>3, <1>4 DEF WatchInv, WatchesOK, WantedOK, Grows
    <3>2. ~j.inotify => DOMAIN j'.watches = {} /\ hist'.unwatched = {}
      BY <1>3, <1>6 DEF WatchInv, WatchesOK, WantedOK
    <3> QED
      BY <1>5, <3>1, <3>2 DEF WantedOK, RootInode
  <2> QED
    BY <1>4, <2>1, <2>2, <2>3 DEF WatchesOK
<1>12. QueueOK'
  BY <1>3, <1>4 DEF WatchInv, QueueOK, Grows, RootInode
<1>13. ScanOK'
  <2>1. SUFFICES ASSUME NEW k \in DOMAIN scan'
                 PROVE  /\ scan'[k].dir = Root => k = Len(scan')
                        /\ \A d \in scan'[k].must \cap Subs :
                             scan'[k].dir = Root /\ (d \in DOMAIN j'.dirs => j'.dirs[d] = 0)
    BY DEF ScanOK
  <2>2. CASE k = 1
    BY <1>2, <1>8, <1>9, <2>2
  <2>3. CASE k # 1
    <3>1. k - 1 \in DOMAIN scan /\ scan'[k] = scan[k - 1]
      BY <1>9, <2>3
    <3>2. PICK i \in DOMAIN scan : i = k - 1
      BY <3>1
    <3>3. /\ scan[i].dir = Root => i = Len(scan)
          /\ \A d \in scan[i].must \cap Subs :
               scan[i].dir = Root /\ (d \in DOMAIN j.dirs => j.dirs[d] = 0)
      BY DEF WatchInv, ScanOK
    <3>4. n \notin scan[i].must
      BY <1>2 DEF WatchInv, WatchesOK, OpeningOK
    <3>5. scan'[k].dir = Root => k = Len(scan')
      BY <1>1, <1>9, <3>1, <3>2, <3>3
    <3> QED
      BY <1>5, <3>1, <3>2, <3>3, <3>4, <3>5
  <2> QED
    BY <2>2, <2>3
<1>14. \A i \in DOMAIN queue : queue[i].wd \in DOMAIN j.watches
  BY DEF WatchInv, QueueOK
<1>15. \A i \in DOMAIN queue : \A p :
          /\ Covers(j'.watches, queue[i], p) <=> Covers(j.watches, queue[i], p)
          /\ Removes(j'.watches, queue[i], p) <=> Removes(j.watches, queue[i], p)
  BY <1>4, <1>14, GrowsKeeps
<1>16. StaleOK'
  BY <1>3, <1>5, <1>15 DEF WatchInv, StaleOK
<1>17. GoneOK'
  <2>1. SUFFICES ASSUME ~hist.lost, NEW w \in DOMAIN j'.watches
                 PROVE  \/ Exists(j'.watches[w]) /\ InodeOf(j'.watches[w]) = w
                        \/ \E i \in DOMAIN queue : queue[i].wd = w /\ queue[i].mask = "delete_self"
    BY <1>3 DEF GoneOK, Exists, InodeOf, RootInode
  <2>2. CASE w \in DOMAIN j.watches
    BY <1>4, <2>1, <2>2 DEF WatchInv, GoneOK, Grows
  <2>3. CASE w = InodeOf(n) /\ j'.watches[w] = n
    BY <1>2, <2>3
  <2> QED
    BY <1>4, <2>2, <2>3
<1>18. Live' => Live
  BY <1>2, <1>3, <1>5 DEF Live
<1>19. \A d : d # n /\ Followed(d)' => Followed(d)
  BY <1>2, <1>3 DEF Followed
<1>20. Followed(n)' => added /\ Root \notin hist.unwatched
  BY <1>2, <1>3 DEF Followed
<1>21. n \in hist.unwatched => \A w \in DOMAIN j.watches : j.watches[w] # n
  BY <1>2 DEF WatchInv, WatchesOK, FailedOK, Fits, RootInode
<1>22. ASSUME NEW d, d # n, ScanReads(d) PROVE ScanReads(d)'
  <2>1. PICK i \in DOMAIN scan : d \in scan[i].must
    BY <1>2, <1>22 DEF ScanReads
  <2>2. i + 1 \in DOMAIN scan' /\ d \in scan'[i + 1].must
    BY <1>9, <2>1
  <2> QED
    BY <2>2 DEF ScanReads
<1>23. UnwatchedOK'
  <2>1. SUFFICES ASSUME Live, NEW d \in DOMAIN subs, subs[d] \notin DOMAIN j'.watches, Followed(d)'
                 PROVE  /\ ScanReads(d)' \/ \E k \in DOMAIN queue : Creates(queue[k], d)
                        /\ \A i \in DOMAIN queue :
                             (queue[i].wd \in DOMAIN j'.watches /\ j'.watches[queue[i].wd] = d)
                             => \E k \in DOMAIN queue : k > i /\ Creates(queue[k], d)
    BY <1>3, <1>18 DEF UnwatchedOK, Creates, RootInode, Followed
  <2>2. subs[d] \notin DOMAIN j.watches
    BY <1>4, <2>1 DEF Grows
  <2>3. \A i \in DOMAIN queue : j'.watches[queue[i].wd] = j.watches[queue[i].wd]
    BY <1>4, <1>14 DEF Grows
  <2>4. CASE d # n
    BY <1>14, <1>19, <1>22, <2>1, <2>2, <2>3, <2>4 DEF WatchInv, UnwatchedOK, Followed
  <2>5. CASE d = n
    <3>1. added /\ n \in DOMAIN j.dirs /\ j.dirs[n] # 0
      BY <1>6, <1>20, <2>1, <2>5 DEF Live
    <3>2. Followed(n)
      BY <1>20, <2>1, <2>5, <3>1 DEF Followed, WatchInv, WatchesOK, FailedOK
    <3>3. PICK w \in DOMAIN j.watches : w = j.dirs[n] /\ j.watches[w] = n
      BY <1>2, <3>1 DEF Fits
    <3>4. PICK i \in DOMAIN queue : queue[i].wd = w
      BY <1>2, <2>1, <2>2, <2>5, <3>3 DEF WatchInv, GoneOK, Live
    <3>5. \A l \in DOMAIN queue :
             (queue[l].wd \in DOMAIN j.watches /\ j.watches[queue[l].wd] = n)
             => \E k \in DOMAIN queue : k > l /\ Creates(queue[k], n)
      BY <2>1, <2>2, <2>5, <3>2 DEF WatchInv, UnwatchedOK, Followed
    <3> QED
      BY <1>14, <2>3, <2>5, <3>3, <3>4, <3>5
  <2> QED
    BY <2>4, <2>5
<1>24. ASSUME NEW p \in DOMAIN fs, Scanned(p) PROVE Scanned(p)'
  <2>1. CASE p[1] = n
    BY <1>8, <1>9, <2>1 DEF Scanned
  <2>2. CASE p[1] # n /\ p[1] \in Subs /\ ScanReads(p[1])
    BY <1>22, <2>2 DEF Scanned
  <2>3. CASE \E i \in DOMAIN scan : scan[i].dir = p[1] /\ p[2] \in scan[i].must
    <3>1. PICK i \in DOMAIN scan : scan[i].dir = p[1] /\ p[2] \in scan[i].must
      BY <2>3
    <3>2. i + 1 \in DOMAIN scan' /\ scan'[i + 1].dir = p[1] /\ p[2] \in scan'[i + 1].must
      BY <1>9, <3>1
    <3> QED
      BY <3>2 DEF Scanned
  <2> QED
    BY <1>24, <2>1, <2>2, <2>3 DEF Scanned
<1>25. MissingOK'
  <2>1. SUFFICES ASSUME Live, j.errors = {}, NEW p \in DOMAIN fs, fs[p].ready,
                        p \notin hist.dropped, Followed(p[1])'
                 PROVE  /\ p \in DOMAIN j.files \/ Scanned(p)'
                           \/ \E k \in DOMAIN queue : Covers(j.watches, queue[k], p)
                        /\ \A i \in DOMAIN queue : Removes(j.watches, queue[i], p) =>
                              \E k \in DOMAIN queue : k > i /\ Covers(j.watches, queue[k], p)
    BY <1>3, <1>5, <1>15, <1>18 DEF MissingOK, Followed
  <2>2. CASE Followed(p[1])
    BY <1>24, <2>1, <2>2 DEF WatchInv, MissingOK, Followed
  <2>3. CASE ~Followed(p[1])
    <3>1. p[1] = n
      BY <1>19, <2>1, <2>3
    <3>2. n \in hist.unwatched
      BY <1>20, <2>1, <2>3, <3>1 DEF Followed
    <3>3. Scanned(p)'
      BY <1>8, <1>9, <2>1, <3>1 DEF Scanned
    <3>4. \A i \in DOMAIN queue : ~Removes(j.watches, queue[i], p)
      BY <1>21, <3>1, <3>2 DEF Removes, Tells
    <3> QED
      BY <3>3, <3>4
  <2> QED
    BY <2>2, <2>3
<1> QED
  BY <1>4, <1>10, <1>11, <1>12, <1>13, <1>16, <1>17, <1>23, <1>25 DEF WatchInv

\* inotify_add_watch() of the directory that was opened, and the first readdir().
LEMMA WatchDirectoryPreserves ==
    ASSUME WatchInv, WatchDirectory
    PROVE  WatchInv'
<1>1. PICK added \in BOOLEAN : Watches(j.opening, added)
  BY WatchDirectoryFacts
<1>2. j.opening = Root \/ j.opening \in Subs
  BY <1>1 DEF Watches, Dirs
<1> QED
  BY <1>1, <1>2, WatchRootPreserves, WatchSubPreserves

-----------------------------------------------------------------------------
(* Events                                                                  *)

\* One event less: positions move by one.
Popped ==
    /\ queue \in Seq(Events) /\ queue' \in Seq(Events)
    /\ 1 \in DOMAIN queue /\ Head(queue) = queue[1]
    /\ \A k \in DOMAIN queue' : k \in Nat /\ k + 1 \in DOMAIN queue /\ queue'[k] = queue[k + 1]
    /\ \A i \in DOMAIN queue : i \in Nat /\ i >= 1
         /\ (i # 1 => i - 1 \in DOMAIN queue' /\ queue'[i - 1] = queue[i])

\* What is left in the queue when the first event is read.
LEMMA HeadPopped ==
    ASSUME WatchTypes, queue # <<>>, queue' = Tail(queue)
    PROVE  Popped
<1>1. queue \in Seq(Events)
  BY DEF WatchTypes
<1>2. /\ Tail(queue) \in Seq(Events) /\ 1 \in DOMAIN queue /\ Head(queue) = queue[1]
      /\ \A k \in DOMAIN Tail(queue) :
           k \in Nat /\ k + 1 \in DOMAIN queue /\ Tail(queue)[k] = queue[k + 1]
      /\ \A i \in DOMAIN queue :
           i # 1 => i - 1 \in DOMAIN Tail(queue) /\ Tail(queue)[i - 1] = queue[i]
  BY <1>1, TailFacts
<1>3. \A i \in DOMAIN queue : i \in Nat /\ i >= 1
  BY <1>1, SeqFacts
<1> QED
  BY <1>1, <1>2, <1>3 DEF Popped

\* An event that is not the first is still in the queue, and the order is kept.
LEMMA PoppedFacts ==
    ASSUME Popped
    PROVE  /\ \A k \in DOMAIN queue : k # 1 => \E l \in DOMAIN queue' : queue'[l] = queue[k]
           /\ \A i \in DOMAIN queue' : \A k \in DOMAIN queue :
                k > i + 1 => \E l \in DOMAIN queue' : l > i /\ queue'[l] = queue[k]
<1>1. ASSUME NEW k \in DOMAIN queue, k # 1 PROVE \E l \in DOMAIN queue' : queue'[l] = queue[k]
  <2>1. k - 1 \in DOMAIN queue' /\ queue'[k - 1] = queue[k]
    BY <1>1 DEF Popped
  <2> QED
    BY <2>1
<1>2. ASSUME NEW i \in DOMAIN queue', NEW k \in DOMAIN queue, k > i + 1
      PROVE  \E l \in DOMAIN queue' : l > i /\ queue'[l] = queue[k]
  <2>1. i \in Nat /\ k \in Nat
    BY DEF Popped
  <2>2. k # 1 /\ k - 1 > i
    BY <1>2, <2>1
  <2>3. k - 1 \in DOMAIN queue' /\ queue'[k - 1] = queue[k]
    BY <2>2 DEF Popped
  <2> QED
    BY <2>2, <2>3
<1> QED
  BY <1>1, <1>2

\* What was to come after an event that is still in the queue still comes after it.
LEMMA PoppedMissing ==
    ASSUME Popped, NEW W, NEW p,
           \A i \in DOMAIN queue : Removes(W, queue[i], p) =>
              \E k \in DOMAIN queue : k > i /\ Covers(W, queue[k], p)
    PROVE  \A i \in DOMAIN queue' : Removes(W, queue'[i], p) =>
              \E k \in DOMAIN queue' : k > i /\ Covers(W, queue'[k], p)
<1>1. SUFFICES ASSUME NEW i \in DOMAIN queue', Removes(W, queue'[i], p)
               PROVE  \E k \in DOMAIN queue' : k > i /\ Covers(W, queue'[k], p)
  OBVIOUS
<1>2. i + 1 \in DOMAIN queue /\ queue'[i] = queue[i + 1]
  BY DEF Popped
<1>3. PICK k \in DOMAIN queue : k > i + 1 /\ Covers(W, queue[k], p)
  BY <1>1, <1>2
<1>4. PICK l \in DOMAIN queue' : l > i /\ queue'[l] = queue[k]
  BY <1>3, PoppedFacts
<1> QED
  BY <1>3, <1>4

\* What is known of the queue remains true of the rest, if that is still watched.
LEMMA PoppedQueue ==
    ASSUME WatchInv, Popped, UNCHANGED subs,
           \A i \in DOMAIN queue : i # 1 => queue[i].wd \in DOMAIN j'.watches
    PROVE  QueueOK'
<1>1. SUFFICES ASSUME NEW i \in DOMAIN queue'
      PROVE  /\ queue'[i].wd \in DOMAIN j'.watches
             /\ queue'[i].mask = "delete_self" <=> queue'[i].name = "none"
             /\ queue'[i].name \in Subs =>
                   queue'[i].wd = RootInode /\ queue'[i].mask \in {"create", "delete"}
             /\ queue'[i].mask = "delete_self" =>
                  /\ queue'[i].wd # RootInode
                  /\ \A d \in DOMAIN subs : subs[d] # queue'[i].wd
                  /\ \A k \in DOMAIN queue' : queue'[k].wd = queue'[i].wd => k <= i
  BY DEF QueueOK, RootInode
<1>2. i \in Nat /\ i + 1 \in DOMAIN queue /\ queue'[i] = queue[i + 1] /\ i + 1 # 1
  <2>1. i \in Nat /\ i + 1 \in DOMAIN queue /\ queue'[i] = queue[i + 1] /\ i + 1 \in Nat
    BY DEF Popped
  <2>2. i \in DOMAIN queue' => i >= 1
    BY SeqFacts DEF Popped
  <2> QED
    BY <2>1, <2>2
<1>3. /\ queue[i + 1].mask = "delete_self" <=> queue[i + 1].name = "none"
      /\ queue[i + 1].name \in Subs =>
            queue[i + 1].wd = RootInode /\ queue[i + 1].mask \in {"create", "delete"}
      /\ queue[i + 1].mask = "delete_self" =>
           /\ queue[i + 1].wd # RootInode
           /\ \A d \in DOMAIN subs : subs[d] # queue[i + 1].wd
           /\ \A k \in DOMAIN queue : queue[k].wd = queue[i + 1].wd => k <= i + 1
  BY <1>2 DEF WatchInv, QueueOK
<1>4. ASSUME queue[i + 1].mask = "delete_self", NEW k \in DOMAIN queue', queue'[k].wd = queue'[i].wd
      PROVE  k <= i
  <2>1. k \in Nat /\ k + 1 \in DOMAIN queue /\ queue'[k] = queue[k + 1]
    BY DEF Popped
  <2>2. k + 1 <= i + 1
    BY <1>2, <1>3, <1>4, <2>1
  <2> QED
    BY <1>2, <2>1, <2>2
<1> QED
  BY <1>2, <1>3, <1>4

\* An event that does not end the watching of a directory; one that was made is opened.
LEMMA PlainEvent ==
    ASSUME WatchInv, Popped, UNCHANGED <<fs, subs, inodes, scan>>, scan = <<>>, j.opening = "none",
           j' \in Readers, j'.dirs = j.dirs, j'.watches = j.watches, j'.inotify = j.inotify,
           j'.open = j.open, j'.no_new_files = j.no_new_files,
           j'.opening = "none" \/ (j'.opening \in Subs /\ Exists(j'.opening)),
           hist'.lost = hist.lost, hist'.unwatched = hist.unwatched,
           queue[1].mask # "delete_self", \A d \in DOMAIN subs : Creates(queue[1], d) => d = j'.opening
    PROVE  TreeOK' /\ WatchesOK' /\ QueueOK' /\ ScanOK' /\ GoneOK' /\ UnwatchedOK'
<1>1. j.opening # Root /\ j'.opening # Root /\ DOMAIN scan = {} /\ DOMAIN subs \subseteq Subs
      /\ "none" \notin Subs
  <2>1. subs \in Maps(Subs, Inodes)
    BY DEF WatchInv, WatchTypes
  <2>2. DOMAIN subs \subseteq Subs
    BY <2>1, MapsFacts
  <2>3. scan = <<>>
    OBVIOUS
  <2>4. DOMAIN scan = {}
    BY <2>3
  <2> QED
    BY <2>2, <2>4, WatchAssumption DEF Dirs
<1>2. TreeOK'
  BY SameTree DEF WatchInv
<1>3. WatchesOK'
  <2>1. Fits(j)'
    BY SameFits DEF WatchInv, WatchesOK
  <2>2. OpeningOK'
    BY <1>1 DEF OpeningOK, Exists
  <2>3. FailedOK' /\ WantedOK'
    BY <1>1 DEF WatchInv, WatchesOK, FailedOK, WantedOK, RootInode
  <2> QED
    BY <2>1, <2>2, <2>3 DEF WatchesOK
<1>4. QueueOK'
  <2>1. \A i \in DOMAIN queue : i # 1 => queue[i].wd \in DOMAIN j'.watches
    BY DEF WatchInv, QueueOK
  <2> QED
    BY <2>1, PoppedQueue
<1>5. ScanOK'
  BY <1>1 DEF ScanOK
<1>6. GoneOK'
  <2>1. SUFFICES ASSUME ~hist.lost, NEW w \in DOMAIN j.watches
                 PROVE  \/ Exists(j.watches[w]) /\ InodeOf(j.watches[w]) = w
                        \/ \E i \in DOMAIN queue' : queue'[i].wd = w /\ queue'[i].mask = "delete_self"
    BY DEF GoneOK, Exists, InodeOf, RootInode
  <2>2. CASE \E i \in DOMAIN queue : queue[i].wd = w /\ queue[i].mask = "delete_self"
    <3>1. PICK i \in DOMAIN queue : queue[i].wd = w /\ queue[i].mask = "delete_self"
      BY <2>2
    <3>2. PICK l \in DOMAIN queue' : queue'[l] = queue[i]
      BY <3>1, PoppedFacts
    <3> QED
      BY <3>1, <3>2
  <2> QED
    BY <2>1, <2>2 DEF WatchInv, GoneOK
<1>7. UnwatchedOK'
  <2>1. SUFFICES ASSUME Live, NEW d \in DOMAIN subs, subs[d] \notin DOMAIN j.watches, Followed(d)
                 PROVE  /\ ScanReads(d)' \/ \E k \in DOMAIN queue' : Creates(queue'[k], d)
                        /\ \A i \in DOMAIN queue' :
                             (queue'[i].wd \in DOMAIN j.watches /\ j.watches[queue'[i].wd] = d)
                             => \E k \in DOMAIN queue' : k > i /\ Creates(queue'[k], d)
    BY <1>1 DEF UnwatchedOK, Live, Creates, RootInode, Followed
  <2>2. /\ ScanReads(d) \/ \E k \in DOMAIN queue : Creates(queue[k], d)
        /\ \A i \in DOMAIN queue :
             (queue[i].wd \in DOMAIN j.watches /\ j.watches[queue[i].wd] = d)
             => \E k \in DOMAIN queue : k > i /\ Creates(queue[k], d)
    BY <2>1 DEF WatchInv, UnwatchedOK, Followed
  <2>3. ~ScanReads(d)
    BY <1>1, <2>1 DEF ScanReads
  <2>4. ASSUME NEW k \in DOMAIN queue, Creates(queue[k], d)
        PROVE  ScanReads(d)' \/ \E l \in DOMAIN queue' : Creates(queue'[l], d)
    <3>1. CASE k = 1
      BY <2>4, <3>1 DEF ScanReads
    <3>2. CASE k # 1
      <4>1. PICK l \in DOMAIN queue' : queue'[l] = queue[k]
        BY <3>2, PoppedFacts
      <4> QED
        BY <2>4, <4>1
    <3> QED
      BY <3>1, <3>2
  <2>5. ASSUME NEW i \in DOMAIN queue', queue'[i].wd \in DOMAIN j.watches, j.watches[queue'[i].wd] = d
        PROVE  \E k \in DOMAIN queue' : k > i /\ Creates(queue'[k], d)
    <3>1. i + 1 \in DOMAIN queue /\ queue'[i] = queue[i + 1]
      BY DEF Popped
    <3>2. PICK k \in DOMAIN queue : k > i + 1 /\ Creates(queue[k], d)
      BY <2>2, <2>5, <3>1
    <3>3. PICK l \in DOMAIN queue' : l > i /\ queue'[l] = queue[k]
      BY <3>2, PoppedFacts
    <3> QED
      BY <3>2, <3>3
  <2> QED
    BY <2>2, <2>3, <2>4, <2>5
<1> QED
  BY <1>2, <1>3, <1>4, <1>5, <1>6, <1>7

\* What every event does to the history.
LEMMA EventHistory ==
    ASSUME WatchInv, ProcessInotifyEvent
    PROVE  /\ WatchTypes /\ TreeOK /\ Popped /\ scan = <<>> /\ j.opening = "none"
           /\ UNCHANGED <<fs, subs, inodes>>
           /\ DOMAIN hist' = HistFields /\ hist'.lost = hist.lost /\ hist.lost \in BOOLEAN
           /\ hist'.dropped = hist.dropped /\ hist'.told = hist.told
           /\ hist'.unwatched = hist.unwatched /\ hist'.unseen = hist.unseen \cap DOMAIN j'.files
           /\ hist'.rotated = hist.rotated \cap DOMAIN j'.files
           /\ queue[1] \in Events /\ queue[1].wd \in DOMAIN j.watches
           /\ DOMAIN fs \subseteq Paths /\ DOMAIN j.files \subseteq Paths
           /\ DOMAIN subs \subseteq Subs /\ Names \cap Subs = {} /\ "none" \notin Names \cup Subs
<1>1. WatchTypes /\ TreeOK /\ DOMAIN hist = HistFields /\ hist.lost \in BOOLEAN
  BY DEF WatchInv, WatchTypes
<1>2. scan = <<>> /\ j.opening = "none" /\ queue # <<>> /\ queue' = Tail(queue) /\ UNCHANGED <<fs, subs, inodes>>
  BY DEF ProcessInotifyEvent, Idle
<1>3. hist' = [hist EXCEPT !.unseen = @ \cap DOMAIN j'.files, !.rotated = @ \cap DOMAIN j'.files]
  BY DEF ProcessInotifyEvent
<1>4. /\ DOMAIN hist' = HistFields /\ hist'.lost = hist.lost
      /\ hist'.dropped = hist.dropped /\ hist'.told = hist.told
      /\ hist'.unwatched = hist.unwatched /\ hist'.unseen = hist.unseen \cap DOMAIN j'.files
      /\ hist'.rotated = hist.rotated \cap DOMAIN j'.files
  BY <1>1, <1>3 DEF HistFields
<1>5. Popped
  BY <1>1, <1>2, HeadPopped
<1>6. queue[1] \in Events /\ queue[1].wd \in DOMAIN j.watches
  BY <1>5, SeqFacts DEF Popped, WatchInv, QueueOK
<1>7. fs \in Maps(Paths, FileInfos) /\ subs \in Maps(Subs, Inodes) /\ j.files \in Maps(Paths, Inodes)
  BY <1>1 DEF WatchTypes, Files, Readers
<1>8. DOMAIN fs \subseteq Paths /\ DOMAIN j.files \subseteq Paths /\ DOMAIN subs \subseteq Subs
  BY <1>7, MapsFacts
<1> QED
  BY <1>1, <1>2, <1>4, <1>5, <1>6, <1>8, WatchAssumption DEF Dirs

\* The types after an event.
LEMMA EventTypes ==
    ASSUME WatchInv, ProcessInotifyEvent, j' \in Readers, scan' \in Seq(Scans)
    PROVE  WatchTypes'
BY EventHistory DEF WatchTypes, Popped

\* The file of an event is opened, if it can be.
LEMMA AddEventPreserves ==
    ASSUME WatchInv, ProcessInotifyEvent, queue[1].name \in Names, queue[1].mask \in Adding
    PROVE  WatchInv'
<1> DEFINE e == queue[1]
           p == <<j.watches[e.wd], e.name>>
           r == [j EXCEPT !.got = TRUE]
<1>1. /\ WatchTypes /\ TreeOK /\ Popped /\ scan = <<>> /\ j.opening = "none"
      /\ UNCHANGED <<fs, subs, inodes>>
      /\ DOMAIN hist' = HistFields /\ hist'.lost = hist.lost /\ hist.lost \in BOOLEAN
      /\ hist'.dropped = hist.dropped /\ hist'.told = hist.told
      /\ hist'.unwatched = hist.unwatched /\ hist'.unseen = hist.unseen \cap DOMAIN j'.files
      /\ hist'.rotated = hist.rotated \cap DOMAIN j'.files
      /\ queue[1] \in Events /\ queue[1].wd \in DOMAIN j.watches
      /\ DOMAIN fs \subseteq Paths /\ DOMAIN j.files \subseteq Paths
      /\ DOMAIN subs \subseteq Subs /\ Names \cap Subs = {} /\ "none" \notin Names \cup Subs
  BY EventHistory
<1>2. fs \in Files /\ j \in Readers /\ Head(queue) = queue[1]
  BY <1>1 DEF WatchTypes, Popped
<1>3. j' = AddFile(r, p) /\ scan' = scan
  BY <1>1, <1>2 DEF ProcessInotifyEvent, Adding
<1>4. PICK pp, rr : pp = p /\ rr = r
  OBVIOUS
<1>5. pp \in Paths /\ pp[1] = j.watches[e.wd] /\ pp[2] = e.name
  <2>1. j.watches \in Maps(Inodes, Dirs)
    BY <1>2 DEF Readers
  <2>2. PICK W, w : W = j.watches /\ w = e.wd
    OBVIOUS
  <2>3. W \in Maps(Inodes, Dirs) /\ w \in DOMAIN W
    BY <1>1, <2>1, <2>2
  <2>4. W[w] \in Dirs
    BY <2>3, MapsFacts
  <2>5. j.watches[e.wd] \in Dirs /\ e.name \in Names
    BY <2>2, <2>4
  <2> QED
    BY <1>4, <2>5 DEF Paths
<1>6. /\ rr \in Readers /\ SameDirs(j, rr) /\ rr.files = j.files /\ rr.errors = j.errors
      /\ rr.changed = j.changed
  BY <1>2, <1>4 DEF Readers, SameDirs
<1> HIDE DEF p, r
<1>7. Opens(rr, j', pp)
  BY <1>2, <1>3, <1>4, <1>5, <1>6, AddFileOpens
<1>8. /\ j' \in Readers /\ j'.dirs = j.dirs /\ j'.watches = j.watches
      /\ j'.inotify = j.inotify /\ j'.no_new_files = j.no_new_files
      /\ j'.open = j.open /\ j'.opening = j.opening
      /\ j'.errors = {} => j.errors = {}
      /\ DOMAIN j.files \subseteq DOMAIN j'.files
      /\ \A x \in DOMAIN j'.files : \/ x \in DOMAIN j.files /\ j'.files[x] = j.files[x]
                                    \/ x \in DOMAIN fs /\ j'.files[x] = fs[x].ino
      /\ (pp \in DOMAIN fs /\ fs[pp].ready /\ ~j.no_new_files /\ j'.errors = {}) => pp \in DOMAIN j'.files
      /\ ~j'.changed => ~j.changed /\ j'.files = j.files
  BY <1>6, <1>7 DEF Opens, SameDirs
<1>9. WatchTypes'
  BY <1>1, <1>3, <1>8, EventTypes DEF WatchTypes
<1>10. e.mask # "delete_self" /\ \A d \in DOMAIN subs : ~Creates(e, d)
  BY <1>1 DEF Creates, Adding
<1>11. TreeOK' /\ WatchesOK' /\ QueueOK' /\ ScanOK' /\ GoneOK' /\ UnwatchedOK'
  BY <1>1, <1>3, <1>8, <1>10, PlainEvent
<1>12. StaleOK'
  <2>1. SUFFICES ASSUME ~hist.lost, NEW x \in DOMAIN j'.files \ (hist'.unseen \cup hist'.rotated)
                 PROVE  \/ x \in DOMAIN fs /\ fs[x].ino = j'.files[x]
                        \/ \E i \in DOMAIN queue' : Removes(j.watches, queue'[i], x)
    BY <1>1, <1>8 DEF StaleOK
  <2>2. CASE x \in DOMAIN j.files /\ j'.files[x] = j.files[x]
    <3>1. x \in DOMAIN j.files \ (hist.unseen \cup hist.rotated)
      BY <1>1, <2>2
    <3>2. CASE \E i \in DOMAIN queue : Removes(j.watches, queue[i], x)
      <4>1. PICK i \in DOMAIN queue : Removes(j.watches, queue[i], x)
        BY <3>2
      <4>2. i # 1
        BY <4>1 DEF Removes
      <4>3. PICK l \in DOMAIN queue' : queue'[l] = queue[i]
        BY <1>1, <4>2, PoppedFacts
      <4> QED
        BY <4>1, <4>3
    <3> QED
      BY <2>1, <2>2, <3>1, <3>2 DEF WatchInv, StaleOK
  <2> QED
    BY <1>8, <2>2
<1>13. MissingOK'
  <2>0. Live' <=> Live
    BY <1>1, <1>8 DEF Live
  <2>s. \A x : Scanned(x)' <=> Scanned(x)
    BY <1>3, <1>8 DEF Scanned, ScanReads
  <2>1. SUFFICES ASSUME Live, j'.errors = {}, NEW x \in DOMAIN fs, fs[x].ready, x \notin hist.dropped,
                        Followed(x[1])
                 PROVE  /\ \/ x \in DOMAIN j'.files \/ Scanned(x)
                           \/ \E k \in DOMAIN queue' : Covers(j.watches, queue'[k], x)
                        /\ \A i \in DOMAIN queue' : Removes(j.watches, queue'[i], x) =>
                              \E k \in DOMAIN queue' : k > i /\ Covers(j.watches, queue'[k], x)
    BY <1>1, <1>8, <2>0, <2>s DEF MissingOK, Followed
  <2>2. /\ x \in DOMAIN j.files \/ Scanned(x) \/ \E k \in DOMAIN queue : Covers(j.watches, queue[k], x)
        /\ \A i \in DOMAIN queue : Removes(j.watches, queue[i], x) =>
              \E k \in DOMAIN queue : k > i /\ Covers(j.watches, queue[k], x)
    BY <1>8, <2>1 DEF WatchInv, MissingOK, Followed
  <2>3. \A i \in DOMAIN queue' : Removes(j.watches, queue'[i], x) =>
              \E k \in DOMAIN queue' : k > i /\ Covers(j.watches, queue'[k], x)
    BY <1>1, <2>2, PoppedMissing
  <2>4. CASE x = pp
    BY <1>8, <2>1, <2>3, <2>4 DEF Live
  <2>5. CASE x # pp
    <3>1. ~Covers(j.watches, e, x)
      <4>1. x = <<x[1], x[2]>> /\ pp = <<pp[1], pp[2]>>
        BY <1>1, <1>5, PathFacts
      <4>2. ~Tells(j.watches, e, x)
        BY <1>5, <2>5, <4>1 DEF Tells
      <4>3. ~(x[1] \in Subs /\ Creates(e, x[1]))
        BY <1>1 DEF Creates
      <4> QED
        BY <4>2, <4>3 DEF Covers
    <3>2. ASSUME NEW k \in DOMAIN queue, Covers(j.watches, queue[k], x)
          PROVE  \E l \in DOMAIN queue' : Covers(j.watches, queue'[l], x)
      <4>1. PICK l \in DOMAIN queue' : queue'[l] = queue[k]
        BY <1>1, <3>1, <3>2, PoppedFacts
      <4> QED
        BY <3>2, <4>1
    <3> QED
      BY <1>8, <2>2, <2>3, <3>2
  <2> QED
    BY <2>4, <2>5
<1>14. ToldOK'
  BY <1>1, <1>8 DEF WatchInv, ToldOK
<1> QED
  BY <1>9, <1>11, <1>12, <1>13, <1>14 DEF WatchInv

\* The file of an event is closed, if it is open.
LEMMA RemoveEventPreserves ==
    ASSUME WatchInv, ProcessInotifyEvent, queue[1].name \in Names, queue[1].mask \notin Adding
    PROVE  WatchInv'
<1> DEFINE e == queue[1]
           p == <<j.watches[e.wd], e.name>>
           r == [j EXCEPT !.got = TRUE]
<1>1. /\ WatchTypes /\ TreeOK /\ Popped /\ scan = <<>> /\ j.opening = "none"
      /\ UNCHANGED <<fs, subs, inodes>>
      /\ DOMAIN hist' = HistFields /\ hist'.lost = hist.lost /\ hist.lost \in BOOLEAN
      /\ hist'.dropped = hist.dropped /\ hist'.told = hist.told
      /\ hist'.unwatched = hist.unwatched /\ hist'.unseen = hist.unseen \cap DOMAIN j'.files
      /\ hist'.rotated = hist.rotated \cap DOMAIN j'.files
      /\ queue[1] \in Events /\ queue[1].wd \in DOMAIN j.watches
      /\ DOMAIN fs \subseteq Paths /\ DOMAIN j.files \subseteq Paths
      /\ DOMAIN subs \subseteq Subs /\ Names \cap Subs = {} /\ "none" \notin Names \cup Subs
  BY EventHistory
<1>2. j \in Readers /\ Head(queue) = queue[1] /\ 1 \in DOMAIN queue
  BY <1>1 DEF WatchTypes, Popped
<1>3. j' = RemoveFile(r, p) /\ scan' = scan
  BY <1>1, <1>2 DEF ProcessInotifyEvent, Adding
<1>4. PICK pp, rr : pp = p /\ rr = r
  OBVIOUS
<1>5. pp = <<j.watches[e.wd], e.name>> /\ pp[1] = j.watches[e.wd] /\ pp[2] = e.name
  BY <1>4
<1>6. /\ rr \in Readers /\ SameDirs(j, rr) /\ rr.files = j.files /\ rr.errors = j.errors
      /\ rr.changed = j.changed
  BY <1>2, <1>4 DEF Readers, SameDirs
<1> HIDE DEF p, r
<1>7. Closes(rr, j', pp)
  BY <1>3, <1>4, <1>6, RemoveFileCloses
<1>8. /\ j' \in Readers /\ j'.dirs = j.dirs /\ j'.watches = j.watches
      /\ j'.inotify = j.inotify /\ j'.no_new_files = j.no_new_files
      /\ j'.open = j.open /\ j'.opening = j.opening
      /\ j'.errors = j.errors
      /\ DOMAIN j'.files = DOMAIN j.files \ {pp}
      /\ \A x \in DOMAIN j'.files : j'.files[x] = j.files[x]
      /\ ~j'.changed => ~j.changed /\ j'.files = j.files
  BY <1>6, <1>7 DEF Closes, SameDirs
<1>9. WatchTypes'
  BY <1>1, <1>3, <1>8, EventTypes DEF WatchTypes
<1>10. e.mask # "delete_self" /\ \A d \in DOMAIN subs : ~Creates(e, d)
  BY <1>1, <1>2 DEF Creates, WatchInv, QueueOK
<1>11. TreeOK' /\ WatchesOK' /\ QueueOK' /\ ScanOK' /\ GoneOK' /\ UnwatchedOK'
  BY <1>1, <1>3, <1>8, <1>10, PlainEvent
<1>12. \A x \in Paths : x # pp => ~Tells(j.watches, e, x)
  BY <1>5, PathFacts DEF Tells
<1>13. StaleOK'
  <2>1. SUFFICES ASSUME ~hist.lost, NEW x \in DOMAIN j'.files \ (hist'.unseen \cup hist'.rotated)
                 PROVE  \/ x \in DOMAIN fs /\ fs[x].ino = j'.files[x]
                        \/ \E i \in DOMAIN queue' : Removes(j.watches, queue'[i], x)
    BY <1>1, <1>8 DEF StaleOK
  <2>2. x \in DOMAIN j.files \ (hist.unseen \cup hist.rotated) /\ x # pp /\ j'.files[x] = j.files[x]
        /\ x \in Paths
    BY <1>1, <1>8, <2>1
  <2>3. ASSUME NEW i \in DOMAIN queue, Removes(j.watches, queue[i], x)
        PROVE  \E l \in DOMAIN queue' : Removes(j.watches, queue'[l], x)
    <3>1. i # 1
      BY <1>12, <2>2, <2>3 DEF Removes
    <3>2. PICK l \in DOMAIN queue' : queue'[l] = queue[i]
      BY <1>1, <3>1, PoppedFacts
    <3> QED
      BY <2>3, <3>2
  <2> QED
    BY <2>1, <2>2, <2>3 DEF WatchInv, StaleOK
<1>14. MissingOK'
  <2>0. Live' <=> Live
    BY <1>1, <1>8 DEF Live
  <2>s. \A x : Scanned(x)' <=> Scanned(x)
    BY <1>3, <1>8 DEF Scanned, ScanReads
  <2>1. SUFFICES ASSUME Live, j.errors = {}, NEW x \in DOMAIN fs, fs[x].ready, x \notin hist.dropped,
                        Followed(x[1])
                 PROVE  /\ \/ x \in DOMAIN j'.files \/ Scanned(x)
                           \/ \E k \in DOMAIN queue' : Covers(j.watches, queue'[k], x)
                        /\ \A i \in DOMAIN queue' : Removes(j.watches, queue'[i], x) =>
                              \E k \in DOMAIN queue' : k > i /\ Covers(j.watches, queue'[k], x)
    BY <1>1, <1>8, <2>0, <2>s DEF MissingOK, Followed
  <2>2. /\ x \in DOMAIN j.files \/ Scanned(x) \/ \E k \in DOMAIN queue : Covers(j.watches, queue[k], x)
        /\ \A i \in DOMAIN queue : Removes(j.watches, queue[i], x) =>
              \E k \in DOMAIN queue : k > i /\ Covers(j.watches, queue[k], x)
    BY <2>1 DEF WatchInv, MissingOK, Followed
  <2>3. \A i \in DOMAIN queue' : Removes(j.watches, queue'[i], x) =>
              \E k \in DOMAIN queue' : k > i /\ Covers(j.watches, queue'[k], x)
    BY <1>1, <2>2, PoppedMissing
  <2>4. ~Covers(j.watches, e, x)
    BY <1>1 DEF Covers, Creates
  <2>5. ASSUME NEW k \in DOMAIN queue, Covers(j.watches, queue[k], x)
        PROVE  \E l \in DOMAIN queue' : Covers(j.watches, queue'[l], x)
    <3>1. PICK l \in DOMAIN queue' : queue'[l] = queue[k]
      BY <1>1, <2>4, <2>5, PoppedFacts
    <3> QED
      BY <2>5, <3>1
  <2>6. CASE x = pp
    <3>1. Removes(j.watches, e, x)
      BY <1>1, <1>5, <2>6 DEF Removes, Tells
    <3>2. PICK k \in DOMAIN queue : Covers(j.watches, queue[k], x)
      BY <1>2, <2>2, <3>1
    <3> QED
      BY <2>3, <2>5, <3>2
  <2>7. CASE x # pp
    BY <1>8, <2>2, <2>3, <2>5, <2>7
  <2> QED
    BY <2>6, <2>7
<1>15. ToldOK'
  BY <1>1, <1>8 DEF WatchInv, ToldOK
<1> QED
  BY <1>9, <1>11, <1>13, <1>14, <1>15 DEF WatchInv

\* An event of a subdirectory: one that was made is opened.
LEMMA SubEventPreserves ==
    ASSUME WatchInv, ProcessInotifyEvent, queue[1].name \in Subs
    PROVE  WatchInv'
<1> DEFINE e == queue[1]
           r == [j EXCEPT !.got = TRUE]
<1>1. /\ WatchTypes /\ TreeOK /\ Popped /\ scan = <<>> /\ j.opening = "none"
      /\ UNCHANGED <<fs, subs, inodes>>
      /\ DOMAIN hist' = HistFields /\ hist'.lost = hist.lost /\ hist.lost \in BOOLEAN
      /\ hist'.dropped = hist.dropped /\ hist'.told = hist.told
      /\ hist'.unwatched = hist.unwatched /\ hist'.unseen = hist.unseen \cap DOMAIN j'.files
      /\ hist'.rotated = hist.rotated \cap DOMAIN j'.files
      /\ queue[1] \in Events /\ queue[1].wd \in DOMAIN j.watches
      /\ DOMAIN fs \subseteq Paths /\ DOMAIN j.files \subseteq Paths
      /\ DOMAIN subs \subseteq Subs /\ Names \cap Subs = {} /\ "none" \notin Names \cup Subs
  BY EventHistory
<1>2. j \in Readers /\ Head(queue) = queue[1] /\ 1 \in DOMAIN queue
  BY <1>1 DEF WatchTypes, Popped
<1>3. e.mask # "delete_self"
  BY <1>1, <1>2 DEF WatchInv, QueueOK
<1>4. PICK o, rr : rr = r /\ o = IF e.mask = "create" THEN IF Exists(e.name) THEN e.name ELSE "none"
                                ELSE j.opening
  OBVIOUS
<1>o. /\ o = "none" \/ (o \in Subs /\ Exists(o))
      /\ e.mask = "create" /\ Exists(e.name) => o = e.name
      /\ o \in Dirs \cup {"none"} /\ o # Root /\ j.opening # Root
  BY <1>1, <1>4, WatchAssumption DEF Dirs
<1>r. rr \in Readers /\ rr.dirs = j.dirs /\ rr.watches = j.watches /\ rr.files = j.files
      /\ rr.errors = j.errors /\ rr.changed = j.changed /\ rr.inotify = j.inotify
      /\ rr.open = j.open /\ rr.no_new_files = j.no_new_files /\ rr.opening = j.opening
  BY <1>2, <1>4 DEF Readers
<1>j. j' = [rr EXCEPT !.opening = o] /\ scan' = scan
  <2>1. scan' = scan
    BY DEF ProcessInotifyEvent
  <2>2. CASE e.mask = "create"
    <3>1. j' = AddDirectory(rr, e.name)
      BY <1>1, <1>2, <1>3, <1>4, <2>2 DEF ProcessInotifyEvent
    <3> QED
      BY <1>4, <2>1, <2>2, <3>1 DEF AddDirectory
  <2>3. CASE e.mask # "create"
    <3>1. j' = rr
      BY <1>1, <1>2, <1>3, <1>4, <2>3 DEF ProcessInotifyEvent
    <3>2. o = rr.opening
      BY <1>4, <1>r, <2>3
    <3>3. [rr EXCEPT !.opening = rr.opening] = rr
      BY <1>r DEF Readers
    <3> QED
      BY <2>1, <3>1, <3>2, <3>3
  <2> QED
    BY <2>2, <2>3
<1> HIDE DEF r
<1>5. /\ j' \in Readers /\ j'.dirs = j.dirs /\ j'.watches = j.watches /\ j'.files = j.files
      /\ j'.inotify = j.inotify /\ j'.no_new_files = j.no_new_files /\ j'.open = j.open
      /\ j'.errors = j.errors /\ j'.changed = j.changed /\ j'.opening = o
  BY <1>o, <1>r, <1>j DEF Readers
<1>6. WatchTypes'
  BY <1>1, <1>5, <1>j, EventTypes DEF WatchTypes
<1>7. \A d \in DOMAIN subs : Creates(e, d) => d = o
  BY <1>o DEF Creates, Exists
<1>8. TreeOK' /\ WatchesOK' /\ QueueOK' /\ ScanOK' /\ GoneOK' /\ UnwatchedOK'
  BY <1>1, <1>3, <1>5, <1>7, <1>j, <1>o, PlainEvent
<1>9. \A x \in Paths : ~Tells(j.watches, e, x)
  BY <1>1, PathFacts DEF Tells
<1>10. StaleOK'
  <2>1. SUFFICES ASSUME ~hist.lost, NEW x \in DOMAIN j.files \ (hist'.unseen \cup hist'.rotated)
                 PROVE  \/ x \in DOMAIN fs /\ fs[x].ino = j.files[x]
                        \/ \E i \in DOMAIN queue' : Removes(j.watches, queue'[i], x)
    BY <1>1, <1>5 DEF StaleOK
  <2>2. x \in DOMAIN j.files \ (hist.unseen \cup hist.rotated) /\ x \in Paths
    BY <1>1, <1>5, <2>1
  <2>3. ASSUME NEW i \in DOMAIN queue, Removes(j.watches, queue[i], x)
        PROVE  \E l \in DOMAIN queue' : Removes(j.watches, queue'[l], x)
    <3>1. i # 1
      BY <1>9, <2>2, <2>3 DEF Removes
    <3>2. PICK l \in DOMAIN queue' : queue'[l] = queue[i]
      BY <1>1, <3>1, PoppedFacts
    <3> QED
      BY <2>3, <3>2
  <2> QED
    BY <2>1, <2>2, <2>3 DEF WatchInv, StaleOK
<1>11. MissingOK'
  <2>0. Live' <=> Live
    BY <1>1, <1>5, <1>o DEF Live
  <2>1. SUFFICES ASSUME Live, j.errors = {}, NEW x \in DOMAIN fs, fs[x].ready, x \notin hist.dropped,
                        Followed(x[1])
                 PROVE  /\ \/ x \in DOMAIN j.files \/ Scanned(x)'
                           \/ \E k \in DOMAIN queue' : Covers(j.watches, queue'[k], x)
                        /\ \A i \in DOMAIN queue' : Removes(j.watches, queue'[i], x) =>
                              \E k \in DOMAIN queue' : k > i /\ Covers(j.watches, queue'[k], x)
    BY <1>1, <1>5, <2>0 DEF MissingOK, Followed
  <2>2. /\ x \in DOMAIN j.files \/ Scanned(x) \/ \E k \in DOMAIN queue : Covers(j.watches, queue[k], x)
        /\ \A i \in DOMAIN queue : Removes(j.watches, queue[i], x) =>
              \E k \in DOMAIN queue : k > i /\ Covers(j.watches, queue[k], x)
    BY <2>1 DEF WatchInv, MissingOK, Followed
  <2>3. \A i \in DOMAIN queue' : Removes(j.watches, queue'[i], x) =>
              \E k \in DOMAIN queue' : k > i /\ Covers(j.watches, queue'[k], x)
    BY <1>1, <2>2, PoppedMissing
  <2>s. ~Scanned(x)
    <3>1. scan = <<>>
      BY <1>1
    <3>2. DOMAIN scan = {}
      BY <3>1
    <3> QED
      BY <1>1, <3>2 DEF Scanned, ScanReads
  <2>4. Covers(j.watches, e, x) => Scanned(x)'
    <3>1. Exists(x[1])
      BY <1>1 DEF TreeOK
    <3>2. Covers(j.watches, e, x) => x[1] \in Subs /\ Creates(e, x[1])
      BY <1>1, <1>9 DEF Covers
    <3>3. Creates(e, x[1]) => x[1] = o
      BY <1>o, <3>1 DEF Creates
    <3> QED
      BY <1>5, <3>2, <3>3 DEF Scanned, ScanReads
  <2>5. ASSUME NEW k \in DOMAIN queue, Covers(j.watches, queue[k], x), k # 1
        PROVE  \E l \in DOMAIN queue' : Covers(j.watches, queue'[l], x)
    <3>1. PICK l \in DOMAIN queue' : queue'[l] = queue[k]
      BY <1>1, <2>5, PoppedFacts
    <3> QED
      BY <2>5, <3>1
  <2> QED
    BY <2>2, <2>3, <2>s, <2>4, <2>5
<1>12. ToldOK'
  BY <1>1, <1>5 DEF WatchInv, ToldOK
<1> QED
  BY <1>6, <1>8, <1>10, <1>11, <1>12 DEF WatchInv

\* A watched directory is gone.
LEMMA GoneEventPreserves ==
    ASSUME WatchInv, ProcessInotifyEvent, queue[1].mask = "delete_self"
    PROVE  WatchInv'
<1> DEFINE e == queue[1]
           r == [j EXCEPT !.got = TRUE]
<1>1. /\ WatchTypes /\ TreeOK /\ Popped /\ scan = <<>> /\ j.opening = "none"
      /\ UNCHANGED <<fs, subs, inodes>>
      /\ DOMAIN hist' = HistFields /\ hist'.lost = hist.lost /\ hist.lost \in BOOLEAN
      /\ hist'.dropped = hist.dropped /\ hist'.told = hist.told
      /\ hist'.unwatched = hist.unwatched /\ hist'.unseen = hist.unseen \cap DOMAIN j'.files
      /\ hist'.rotated = hist.rotated \cap DOMAIN j'.files
      /\ queue[1] \in Events /\ queue[1].wd \in DOMAIN j.watches
      /\ DOMAIN fs \subseteq Paths /\ DOMAIN j.files \subseteq Paths
      /\ DOMAIN subs \subseteq Subs /\ Names \cap Subs = {} /\ "none" \notin Names \cup Subs
  BY EventHistory
<1>2. j \in Readers /\ Head(queue) = queue[1] /\ 1 \in DOMAIN queue
      /\ \A i \in DOMAIN queue : i \in Nat /\ i >= 1
  BY <1>1 DEF WatchTypes, Popped
<1>s. scan = <<>> /\ DOMAIN scan = {}
  <2>1. scan = <<>>
    BY <1>1
  <2> QED
    BY <2>1
<1>3. /\ e.name = "none" /\ e.wd # RootInode
      /\ \A d \in DOMAIN subs : subs[d] # e.wd
      /\ \A k \in DOMAIN queue : queue[k].wd = e.wd => k <= 1
      /\ \A i \in DOMAIN queue : queue[i].wd \in DOMAIN j.watches
  BY <1>2 DEF WatchInv, QueueOK
<1>4. PICK w, d, rr : w = e.wd /\ d = j.watches[w] /\ rr = r
  OBVIOUS
<1>5. /\ rr \in Readers /\ rr.dirs = j.dirs /\ rr.watches = j.watches /\ rr.files = j.files
      /\ rr.errors = j.errors /\ rr.changed = j.changed /\ rr.inotify = j.inotify
      /\ rr.open = j.open /\ rr.no_new_files = j.no_new_files /\ rr.opening = j.opening
  BY <1>2, <1>4 DEF Readers
<1>6. /\ Fits(j) /\ w \in DOMAIN j.watches /\ d \in DOMAIN j.dirs /\ j.dirs[d] = w /\ w # 0
      /\ w # RootInode /\ d # Root
  <2>1. w \in DOMAIN j.watches /\ Fits(j) /\ w # RootInode
    BY <1>1, <1>3, <1>4 DEF WatchInv, WatchesOK
  <2>2. d \in DOMAIN j.dirs /\ j.dirs[d] = w /\ w >= RootInode
    BY <1>4, <2>1 DEF Fits
  <2>3. w # 0
    BY <2>2 DEF RootInode
  <2> QED
    BY <2>1, <2>2, <2>3 DEF Fits
<1>7. j' = RemoveDirectory(rr, d) /\ scan' = scan
  BY <1>1, <1>2, <1>3, <1>4 DEF ProcessInotifyEvent
<1> HIDE DEF r
<1>8. PICK D, W : D = Without(j.dirs, {d}) /\ W = Without(j.watches, {w})
  OBVIOUS
<1>9. D \in Maps(Dirs, Inodes) /\ W \in Maps(Inodes, Dirs)
  <2>1. j.dirs \in Maps(Dirs, Inodes) /\ j.watches \in Maps(Inodes, Dirs)
    BY <1>2 DEF Readers
  <2> QED
    BY <1>8, <2>1, WithoutMaps
<1>10. /\ DOMAIN D = DOMAIN j.dirs \ {d} /\ \A x \in DOMAIN D : D[x] = j.dirs[x]
       /\ DOMAIN W = DOMAIN j.watches \ {w} /\ \A x \in DOMAIN W : W[x] = j.watches[x]
  BY <1>8 DEF Without
<1>11. j' = [rr EXCEPT !.dirs = D, !.watches = W]
  BY <1>5, <1>6, <1>7, <1>8 DEF RemoveDirectory
<1>12. /\ j' \in Readers /\ j'.dirs = D /\ j'.watches = W /\ j'.files = j.files
       /\ j'.errors = j.errors /\ j'.changed = j.changed /\ j'.inotify = j.inotify
       /\ j'.open = j.open /\ j'.no_new_files = j.no_new_files /\ j'.opening = j.opening
  BY <1>5, <1>9, <1>11 DEF Readers
<1>13. WatchTypes'
  BY <1>1, <1>7, <1>12, EventTypes DEF WatchTypes
<1>14. TreeOK' /\ ToldOK'
  BY <1>1, <1>12, SameTree DEF WatchInv, ToldOK
<1>15. Fits(j)'
  <2>1. ASSUME NEW x \in DOMAIN W
        PROVE  x >= RootInode /\ x <= inodes /\ W[x] \in DOMAIN D /\ D[W[x]] = x
    BY <1>6, <1>10, <2>1 DEF Fits
  <2>2. ASSUME NEW x \in DOMAIN D, D[x] # 0 PROVE D[x] \in DOMAIN W /\ W[D[x]] = x
    <3>1. x \in DOMAIN j.dirs /\ x # d /\ D[x] = j.dirs[x]
      BY <1>10
    <3>2. j.dirs[x] \in DOMAIN j.watches /\ j.watches[j.dirs[x]] = x
      BY <1>6, <2>2, <3>1 DEF Fits
    <3>3. j.dirs[x] # w
      BY <1>4, <3>1, <3>2
    <3> QED
      BY <1>10, <3>1, <3>2, <3>3
  <2>3. \A x \in DOMAIN subs : subs[x] \in DOMAIN W => W[subs[x]] = x
    BY <1>6, <1>10 DEF Fits
  <2>4. RootInode \in DOMAIN W => W[RootInode] = Root
    BY <1>6, <1>10 DEF Fits
  <2>5. Root \in DOMAIN D => D[Root] \in {0, RootInode}
    BY <1>6, <1>10 DEF Fits
  <2> QED
    BY <1>1, <1>12, <2>1, <2>2, <2>3, <2>4, <2>5 DEF Fits, RootInode
<1>16. WatchesOK'
  <2>1. OpeningOK'
    BY <1>1, <1>12 DEF OpeningOK
  <2>2. FailedOK'
    BY <1>1, <1>10, <1>12 DEF WatchInv, WatchesOK, FailedOK
  <2>3. WantedOK'
    BY <1>1, <1>6, <1>10, <1>12 DEF WatchInv, WatchesOK, WantedOK, RootInode
  <2> QED
    BY <1>15, <2>1, <2>2, <2>3 DEF WatchesOK
<1>17. \A i \in DOMAIN queue : i # 1 => queue[i].wd # w /\ queue[i].wd \in DOMAIN W
  <2>1. \A i \in DOMAIN queue : i # 1 => ~(i <= 1)
    BY <1>2
  <2>2. \A i \in DOMAIN queue : i # 1 => queue[i].wd # w /\ queue[i].wd \in DOMAIN j.watches
    BY <1>3, <1>4, <2>1
  <2> QED
    BY <1>10, <2>2
<1>18. QueueOK'
  BY <1>1, <1>12, <1>17, PoppedQueue
<1>19. ScanOK'
  BY <1>s, <1>7 DEF ScanOK
<1>20. Grows(W, j.watches)
  BY <1>10 DEF Grows
<1>21. \A i \in DOMAIN queue' : \E k \in DOMAIN queue : k = i + 1 /\ k # 1 /\ queue'[i] = queue[k]
  <2>1. \A i \in DOMAIN queue' : i \in Nat /\ i >= 1
    BY <1>1, SeqFacts DEF Popped
  <2>2. \A i \in DOMAIN queue' : i + 1 # 1
    BY <2>1
  <2>3. \A i \in DOMAIN queue' : i + 1 \in DOMAIN queue /\ queue'[i] = queue[i + 1]
    BY <1>1 DEF Popped
  <2> QED
    BY <2>2, <2>3
<1>22. \A i \in DOMAIN queue' : \A x :
          /\ Covers(j.watches, queue'[i], x) <=> Covers(W, queue'[i], x)
          /\ Removes(j.watches, queue'[i], x) <=> Removes(W, queue'[i], x)
  <2>1. \A i \in DOMAIN queue' : queue'[i].wd \in DOMAIN W
    BY <1>17, <1>21
  <2> QED
    BY <1>20, <2>1, GrowsKeeps
<1>23. \A x \in Paths : ~Tells(j.watches, e, x)
  BY <1>1, <1>3, PathFacts DEF Tells
<1>24. StaleOK'
  <2>1. SUFFICES ASSUME ~hist.lost, NEW x \in DOMAIN j.files \ (hist'.unseen \cup hist'.rotated)
                 PROVE  \/ x \in DOMAIN fs /\ fs[x].ino = j.files[x]
                        \/ \E i \in DOMAIN queue' : Removes(W, queue'[i], x)
    BY <1>1, <1>12 DEF StaleOK
  <2>2. x \in DOMAIN j.files \ (hist.unseen \cup hist.rotated) /\ x \in Paths
    BY <1>1, <1>12, <2>1
  <2>3. ASSUME NEW i \in DOMAIN queue, Removes(j.watches, queue[i], x)
        PROVE  \E l \in DOMAIN queue' : Removes(W, queue'[l], x)
    <3>1. i # 1
      BY <1>23, <2>2, <2>3 DEF Removes
    <3>2. PICK l \in DOMAIN queue' : queue'[l] = queue[i]
      BY <1>1, <3>1, PoppedFacts
    <3> QED
      BY <1>22, <2>3, <3>2
  <2> QED
    BY <2>1, <2>2, <2>3 DEF WatchInv, StaleOK
<1>25. GoneOK'
  <2>1. SUFFICES ASSUME ~hist.lost, NEW v \in DOMAIN W
                 PROVE  \/ Exists(W[v]) /\ InodeOf(W[v]) = v
                        \/ \E i \in DOMAIN queue' : queue'[i].wd = v /\ queue'[i].mask = "delete_self"
    BY <1>1, <1>12 DEF GoneOK, Exists, InodeOf, RootInode
  <2>2. v \in DOMAIN j.watches /\ v # w /\ W[v] = j.watches[v]
    BY <1>10, <2>1
  <2>3. ASSUME NEW i \in DOMAIN queue, queue[i].wd = v, queue[i].mask = "delete_self"
        PROVE  \E l \in DOMAIN queue' : queue'[l].wd = v /\ queue'[l].mask = "delete_self"
    <3>1. i # 1
      BY <1>4, <2>2, <2>3
    <3>2. PICK l \in DOMAIN queue' : queue'[l] = queue[i]
      BY <1>1, <3>1, PoppedFacts
    <3> QED
      BY <2>3, <3>2
  <2> QED
    BY <2>1, <2>2, <2>3 DEF WatchInv, GoneOK
<1>26. (Live' <=> Live) /\ (\A x : ScanReads(x)' <=> ScanReads(x)) /\ (\A x : Scanned(x)' <=> Scanned(x))
  BY <1>1, <1>7, <1>12 DEF Live, ScanReads, Scanned
<1>27. UnwatchedOK'
  <2>1. SUFFICES ASSUME Live, NEW x \in DOMAIN subs, subs[x] \notin DOMAIN W, Followed(x)
                 PROVE  /\ ScanReads(x) \/ \E k \in DOMAIN queue' : Creates(queue'[k], x)
                        /\ \A i \in DOMAIN queue' :
                             (queue'[i].wd \in DOMAIN W /\ W[queue'[i].wd] = x)
                             => \E k \in DOMAIN queue' : k > i /\ Creates(queue'[k], x)
    <3>1. UNCHANGED subs /\ j'.watches = W /\ hist'.unwatched = hist.unwatched
      BY <1>1, <1>12
    <3> QED
      BY <1>26, <3>1 DEF UnwatchedOK, Creates, RootInode, Followed
  <2>2. subs[x] \notin DOMAIN j.watches
    BY <1>3, <1>4, <1>10, <2>1
  <2>3. /\ ScanReads(x) \/ \E k \in DOMAIN queue : Creates(queue[k], x)
        /\ \A i \in DOMAIN queue :
             (queue[i].wd \in DOMAIN j.watches /\ j.watches[queue[i].wd] = x)
             => \E k \in DOMAIN queue : k > i /\ Creates(queue[k], x)
    BY <2>1, <2>2 DEF WatchInv, UnwatchedOK, Followed
  <2>4. ASSUME NEW k \in DOMAIN queue, Creates(queue[k], x)
        PROVE  \E l \in DOMAIN queue' : Creates(queue'[l], x)
    <3>1. k # 1
      BY <2>4 DEF Creates
    <3>2. PICK l \in DOMAIN queue' : queue'[l] = queue[k]
      BY <1>1, <3>1, PoppedFacts
    <3> QED
      BY <2>4, <3>2
  <2>5. ASSUME NEW i \in DOMAIN queue', queue'[i].wd \in DOMAIN W, W[queue'[i].wd] = x
        PROVE  \E k \in DOMAIN queue' : k > i /\ Creates(queue'[k], x)
    <3>1. i + 1 \in DOMAIN queue /\ queue'[i] = queue[i + 1]
      BY <1>1 DEF Popped
    <3>2. queue[i + 1].wd \in DOMAIN j.watches /\ j.watches[queue[i + 1].wd] = x
      BY <1>10, <2>5, <3>1
    <3>3. PICK k \in DOMAIN queue : k > i + 1 /\ Creates(queue[k], x)
      BY <2>3, <3>1, <3>2
    <3>4. PICK l \in DOMAIN queue' : l > i /\ queue'[l] = queue[k]
      BY <1>1, <3>3, PoppedFacts
    <3> QED
      BY <3>3, <3>4
  <2> QED
    BY <2>3, <2>4, <2>5
<1>28. MissingOK'
  <2>1. SUFFICES ASSUME Live, j.errors = {}, NEW x \in DOMAIN fs, fs[x].ready, x \notin hist.dropped,
                        Followed(x[1])
                 PROVE  /\ \/ x \in DOMAIN j.files \/ Scanned(x)
                           \/ \E k \in DOMAIN queue' : Covers(W, queue'[k], x)
                        /\ \A i \in DOMAIN queue' : Removes(W, queue'[i], x) =>
                              \E k \in DOMAIN queue' : k > i /\ Covers(W, queue'[k], x)
    BY <1>1, <1>12, <1>26 DEF MissingOK, Followed
  <2>2. /\ x \in DOMAIN j.files \/ Scanned(x) \/ \E k \in DOMAIN queue : Covers(j.watches, queue[k], x)
        /\ \A i \in DOMAIN queue : Removes(j.watches, queue[i], x) =>
              \E k \in DOMAIN queue : k > i /\ Covers(j.watches, queue[k], x)
    BY <2>1 DEF WatchInv, MissingOK, Followed
  <2>3. \A i \in DOMAIN queue' : Removes(j.watches, queue'[i], x) =>
              \E k \in DOMAIN queue' : k > i /\ Covers(j.watches, queue'[k], x)
    BY <1>1, <2>2, PoppedMissing
  <2>4. ~Covers(j.watches, e, x)
    BY <1>1, <1>23 DEF Covers, Creates
  <2>5. ASSUME NEW k \in DOMAIN queue, Covers(j.watches, queue[k], x)
        PROVE  \E l \in DOMAIN queue' : Covers(W, queue'[l], x)
    <3>1. PICK l \in DOMAIN queue' : queue'[l] = queue[k]
      BY <1>1, <2>4, <2>5, PoppedFacts
    <3> QED
      BY <1>22, <2>5, <3>1
  <2> QED
    BY <1>22, <2>2, <2>3, <2>5
<1> QED
  BY <1>13, <1>14, <1>16, <1>18, <1>19, <1>24, <1>25, <1>27, <1>28 DEF WatchInv

\* The reader reads an event.
LEMMA ProcessInotifyEventPreserves ==
    ASSUME WatchInv, ProcessInotifyEvent
    PROVE  WatchInv'
<1>1. queue[1] \in Events /\ 1 \in DOMAIN queue
  BY EventHistory DEF Popped
<1>2. queue[1].name \in Names \/ queue[1].name \in Subs \/ queue[1].mask = "delete_self"
  BY <1>1 DEF Events, EventNames, WatchInv, QueueOK
<1> QED
  BY <1>2, AddEventPreserves, RemoveEventPreserves, SubEventPreserves, GoneEventPreserves

-----------------------------------------------------------------------------
(* Steps of the daemon                                                     *)

\* What a change of the daemon leaves alone, and what the history has of it.
LEMMA DidFacts ==
    ASSUME WatchInv, NEW es, NEW gone, Did(es, gone)
    PROVE  /\ j' = j /\ scan' = scan
           /\ DOMAIN hist' = HistFields /\ hist'.lost \in BOOLEAN
           /\ hist'.dropped = hist.dropped /\ hist'.told = hist.told
           /\ hist'.unwatched = hist.unwatched
           /\ hist.unseen \subseteq hist'.unseen /\ hist.rotated \subseteq hist'.rotated
           /\ \A p \in gone \cap DOMAIN j.files :
                 \/ ~Watched(p[1]) /\ p \in hist'.unseen
                 \/ Watched(p[1]) /\ p \in hist'.rotated
                 \/ Watched(p[1]) /\ \E i \in DOMAIN es : es[i].name = p[2]
           /\ ToldOK' /\ ScanOK'
<1>1. DOMAIN hist = HistFields /\ hist.lost \in BOOLEAN
  BY DEF WatchInv, WatchTypes
<1>2. PICK L : L = (\E i \in DOMAIN es : Loses(Queued(es)[i - 1], es[i]))
  OBVIOUS
<1>3. PICK U, R : /\ U = {p \in gone \cap DOMAIN j.files : ~Watched(p[1])}
                  /\ R = {p \in gone \cap DOMAIN j.files :
                             Watched(p[1]) /\ \A i \in DOMAIN es : es[i].name # p[2]}
  OBVIOUS
<1>4. /\ hist' = [hist EXCEPT !.ops = @ + 1, !.lost = @ \/ L, !.unseen = @ \cup U, !.rotated = @ \cup R]
      /\ j' = j /\ scan' = scan
  BY <1>2, <1>3 DEF Did
<1>5. /\ DOMAIN hist' = HistFields
      /\ hist'.dropped = hist.dropped /\ hist'.told = hist.told
      /\ hist'.unwatched = hist.unwatched
      /\ hist'.unseen = hist.unseen \cup U /\ hist'.rotated = hist.rotated \cup R
  BY <1>1, <1>4 DEF HistFields
<1>6. hist'.lost \in BOOLEAN
  BY <1>1, <1>4 DEF HistFields
<1>7. ToldOK' /\ ScanOK'
  BY <1>4, <1>5 DEF WatchInv, ToldOK, ScanOK
<1> QED
  BY <1>3, <1>4, <1>5, <1>6, <1>7

\* Arithmetic of queue positions.
LEMMA AtMost ==
    ASSUME NEW a \in Nat, NEW b \in Nat, NEW c \in Nat, a <= b, c >= b
    PROVE  a <= c
OBVIOUS

\* An event of a directory that exists.
IsEvent(e, d, m, n) == e \in Events /\ e.wd = InodeOf(d) /\ e.mask = m /\ e.name = n

\* The event of an existing directory carries its watch descriptor.
LEMMA EventFacts ==
    ASSUME WatchInv, NEW d \in Dirs, Exists(d), NEW m \in Masks, NEW n \in EventNames
    PROVE  IsEvent(Event(d, m, n), d, m, n)
<1>1. InodeOf(d) \in Inodes
  BY InodeFacts DEF WatchInv, Inodes
<1> QED
  BY <1>1 DEF Event, Events, IsEvent

\* The watch of a directory that exists refers to it.
LEMMA WatchedFacts ==
    ASSUME WatchInv, NEW d \in Dirs, Exists(d), InodeOf(d) \in DOMAIN j.watches
    PROVE  j.watches[InodeOf(d)] = d /\ Watched(d)
BY DEF WatchInv, WatchesOK, Fits, InodeOf, Exists, Watched

\* The daemon does something to the files of directory d.
FileStep(d, es, gone) ==
    /\ d \in Dirs /\ Exists(d) /\ es \in Seq(Events) /\ Len(es) \in {1, 2}
    /\ \A i \in DOMAIN es : /\ es[i].wd = InodeOf(d) /\ es[i].name \in Names
                            /\ es[i].mask # "delete_self"
    /\ Did(es, gone) /\ UNCHANGED subs
    /\ fs' \in Files /\ \A p \in DOMAIN fs' : Exists(p[1])
    /\ inodes' \in Nat /\ inodes' >= inodes

\* The queue after it: what there was, and events of files of d.
Longer(q, q2, d) ==
    /\ q \in Seq(Events) /\ q2 \in Seq(Events)
    /\ \A i \in DOMAIN q : i \in DOMAIN q2 /\ q2[i] = q[i]
    /\ \A k \in DOMAIN q2 : k \notin DOMAIN q =>
         /\ \A i \in DOMAIN q : k > i
         /\ q2[k].wd = InodeOf(d) /\ q2[k].wd \in DOMAIN j.watches
         /\ q2[k].name \in Names /\ q2[k].mask # "delete_self"

\* The events of a step on files are added at the end of the queue.
LEMMA FileStepLonger ==
    ASSUME WatchInv, NEW d, NEW es, NEW gone, FileStep(d, es, gone)
    PROVE  Longer(queue, queue', d)
<1>1. es \in Seq(Events) /\ Len(es) \in {1, 2} /\ Did(es, gone) /\ WatchTypes
  BY DEF FileStep, WatchInv
<1>2. queue \in Seq(Events) /\ Follows(queue, queue', {es[i] : i \in DOMAIN es})
  BY <1>1, DidFollows
<1>3. PICK E : E = {es[i] : i \in DOMAIN es}
  OBVIOUS
<1>4. \A e \in E : e.wd = InodeOf(d) /\ e.name \in Names /\ e.mask # "delete_self"
  BY <1>3 DEF FileStep
<1>5. Follows(queue, queue', E)
  BY <1>2, <1>3
<1> QED
  BY <1>2, <1>4, <1>5 DEF Follows, Longer

\* What such a step preserves whatever it does.
LEMMA FileStepPreserves ==
    ASSUME WatchInv, NEW d, NEW es, NEW gone, FileStep(d, es, gone)
    PROVE  /\ WatchTypes' /\ TreeOK' /\ WatchesOK' /\ QueueOK' /\ ScanOK' /\ GoneOK'
           /\ UnwatchedOK' /\ ToldOK'
<1>1. /\ j' = j /\ scan' = scan /\ UNCHANGED subs
      /\ DOMAIN hist' = HistFields /\ hist'.lost \in BOOLEAN
      /\ hist'.unwatched = hist.unwatched
      /\ ToldOK' /\ ScanOK'
  BY DidFacts DEF FileStep
<1>2. /\ WatchTypes /\ TreeOK /\ Fits(j) /\ d \in Dirs /\ Exists(d) /\ inodes \in Nat
      /\ Names \cap Subs = {} /\ "none" \notin Names \cup Subs
  BY WatchAssumption DEF WatchInv, WatchTypes, WatchesOK, FileStep, Inodes, Dirs
<1>3. Longer(queue, queue', d)
  BY FileStepLonger
<1>4. WatchTypes'
  <2>1. fs' \in Files /\ inodes' \in Inodes /\ queue' \in Seq(Events)
    BY <1>3 DEF FileStep, Longer, Inodes
  <2> QED
    BY <1>1, <1>2, <2>1 DEF WatchTypes
<1>5. TreeOK'
  <2>1. inodes' >= inodes /\ inodes' \in Nat
    BY DEF FileStep
  <2>2. \A x \in DOMAIN subs : subs[x] \in Nat
    BY <1>2, InodeFacts DEF Exists, InodeOf, Dirs
  <2>i. inodes \in Nat
    BY <1>2
  <2>3. \A x \in DOMAIN subs : subs[x] > RootInode /\ subs[x] <= inodes'
    <3>1. \A x \in DOMAIN subs : subs[x] > RootInode /\ subs[x] <= inodes
      BY <1>2 DEF TreeOK
    <3> QED
      BY <2>i, <2>1, <2>2, <3>1, AtMost
  <2>4. inodes' >= RootInode
    <3>1. inodes >= RootInode
      BY <1>2 DEF TreeOK
    <3> QED
      BY <2>i, <2>1, <3>1 DEF RootInode
  <2>5. \A p \in DOMAIN fs' : Exists(p[1])'
    BY <1>1 DEF FileStep, Exists
  <2> QED
    BY <1>1, <1>2, <2>3, <2>4, <2>5 DEF TreeOK, RootInode
<1>6. WatchesOK'
  <2>1. \A w \in DOMAIN j.watches : w \in Nat
    <3>1. PICK W : W = j.watches
      OBVIOUS
    <3>2. W \in Maps(Inodes, Dirs)
      BY <1>2, <3>1 DEF WatchTypes, Readers
    <3>3. \A w \in DOMAIN W : w \in Inodes
      BY <3>2, MapsFacts
    <3> QED
      BY <3>1, <3>3 DEF Inodes
  <2>2. \A w \in DOMAIN j.watches : w <= inodes'
    <3>1. \A w \in DOMAIN j.watches : w <= inodes
      BY <1>2 DEF Fits
    <3>2. inodes' >= inodes /\ inodes' \in Nat
      BY DEF FileStep
    <3>3. inodes \in Nat
      BY <1>2
    <3> QED
      BY <2>1, <3>1, <3>2, <3>3, AtMost
  <2>3. Fits(j)'
    BY <1>1, <1>2, <2>2 DEF Fits, RootInode
  <2>4. OpeningOK'
    BY <1>1 DEF WatchInv, WatchesOK, OpeningOK, Exists
  <2>5. FailedOK' /\ WantedOK'
    BY <1>1 DEF WatchInv, WatchesOK, FailedOK, WantedOK, RootInode
  <2> QED
    BY <2>3, <2>4, <2>5 DEF WatchesOK
<1>7. \A i \in DOMAIN queue : queue[i].mask = "delete_self" => queue[i].wd # InodeOf(d)
  BY <1>2 DEF WatchInv, QueueOK, InodeOf, Exists
<1>8. QueueOK'
  <2>1. SUFFICES ASSUME NEW i \in DOMAIN queue'
        PROVE  /\ queue'[i].wd \in DOMAIN j.watches
               /\ queue'[i].mask = "delete_self" <=> queue'[i].name = "none"
               /\ queue'[i].name \in Subs =>
                    queue'[i].wd = RootInode /\ queue'[i].mask \in {"create", "delete"}
               /\ queue'[i].mask = "delete_self" =>
                    /\ queue'[i].wd # RootInode
                    /\ \A x \in DOMAIN subs : subs[x] # queue'[i].wd
                    /\ \A k \in DOMAIN queue' : queue'[k].wd = queue'[i].wd => k <= i
    BY <1>1 DEF QueueOK, RootInode
  <2>2. CASE i \in DOMAIN queue
    <3>1. queue'[i] = queue[i]
      BY <1>3, <2>2 DEF Longer
    <3>2. ASSUME queue[i].mask = "delete_self", NEW k \in DOMAIN queue', queue'[k].wd = queue[i].wd
          PROVE  k <= i
      <4>1. k \in DOMAIN queue
        BY <1>3, <1>7, <2>2, <3>2 DEF Longer
      <4>2. queue'[k] = queue[k]
        BY <1>3, <4>1 DEF Longer
      <4> QED
        BY <2>2, <3>2, <4>1, <4>2 DEF WatchInv, QueueOK
    <3> QED
      BY <2>2, <3>1, <3>2 DEF WatchInv, QueueOK
  <2>3. CASE i \notin DOMAIN queue
    BY <1>2, <1>3, <2>3 DEF Longer
  <2> QED
    BY <2>2, <2>3
<1>9. ~hist'.lost => ~hist.lost
  <2>1. es \in Seq(Events) /\ Len(es) \in {1, 2} /\ Did(es, gone)
    BY DEF FileStep
  <2> QED
    BY <1>2, <2>1, DidFollows
<1>10. \A i \in DOMAIN queue : i \in DOMAIN queue' /\ queue'[i] = queue[i]
  BY <1>3 DEF Longer
<1>11. GoneOK'
  <2>1. SUFFICES ASSUME ~hist.lost, NEW w \in DOMAIN j.watches
                 PROVE  \/ Exists(j.watches[w]) /\ InodeOf(j.watches[w]) = w
                        \/ \E i \in DOMAIN queue' : queue'[i].wd = w /\ queue'[i].mask = "delete_self"
    BY <1>1, <1>9 DEF GoneOK, Exists, InodeOf, RootInode
  <2> QED
    BY <1>10, <2>1 DEF WatchInv, GoneOK
<1>12. UnwatchedOK'
  <2>0. (\A x : ScanReads(x)' <=> ScanReads(x)) /\ (Live' => Live)
    BY <1>1, <1>9 DEF ScanReads, Live
  <2>1. SUFFICES ASSUME Live, NEW x \in DOMAIN subs, subs[x] \notin DOMAIN j.watches, Followed(x)
                 PROVE  /\ ScanReads(x) \/ \E k \in DOMAIN queue' : Creates(queue'[k], x)
                        /\ \A i \in DOMAIN queue' :
                             (queue'[i].wd \in DOMAIN j.watches /\ j.watches[queue'[i].wd] = x)
                             => \E k \in DOMAIN queue' : k > i /\ Creates(queue'[k], x)
    BY <1>1, <2>0 DEF UnwatchedOK, Creates, RootInode, Followed
  <2>2. /\ ScanReads(x) \/ \E k \in DOMAIN queue : Creates(queue[k], x)
        /\ \A i \in DOMAIN queue :
             (queue[i].wd \in DOMAIN j.watches /\ j.watches[queue[i].wd] = x)
             => \E k \in DOMAIN queue : k > i /\ Creates(queue[k], x)
    BY <2>1 DEF WatchInv, UnwatchedOK, Followed
  <2>3. ASSUME NEW i \in DOMAIN queue', queue'[i].wd \in DOMAIN j.watches, j.watches[queue'[i].wd] = x
        PROVE  i \in DOMAIN queue
    <3>1. SUFFICES ASSUME i \notin DOMAIN queue PROVE FALSE
      OBVIOUS
    <3>2. queue'[i].wd = InodeOf(d)
      BY <1>3, <3>1 DEF Longer
    <3>3. d = x
      BY <1>2, <2>3, <3>2, WatchedFacts
    <3> QED
      BY <1>2, <2>1, <2>3, <3>2, <3>3, InodeFacts
  <2> QED
    BY <1>10, <2>2, <2>3
<1> QED
  BY <1>1, <1>4, <1>5, <1>6, <1>8, <1>11, <1>12

\* What MissingOK says of path p, with queue q.
MissingAt(q, p) ==
    /\ p \in DOMAIN j.files \/ Scanned(p) \/ \E k \in DOMAIN q : Covers(j.watches, q[k], p)
    /\ \A i \in DOMAIN q : Removes(j.watches, q[i], p) =>
          \E k \in DOMAIN q : k > i /\ Covers(j.watches, q[k], p)

\* Enough for MissingOK after a step on files: every file set up is open or announced.
LEMMA MissingIntro ==
    ASSUME WatchInv, NEW d, NEW es, NEW gone, FileStep(d, es, gone),
           \A x \in DOMAIN fs' : fs'[x].ready /\ Live /\ ~hist'.lost /\ j.errors = {}
              /\ x \notin hist.dropped /\ Followed(x[1]) => MissingAt(queue', x)
    PROVE  MissingOK'
<1>1. j' = j /\ scan' = scan /\ hist'.dropped = hist.dropped /\ hist'.unwatched = hist.unwatched
  BY DidFacts DEF FileStep
<1>2. es \in Seq(Events) /\ Len(es) \in {1, 2} /\ Did(es, gone) /\ WatchTypes
  BY DEF FileStep, WatchInv
<1>3. ~hist'.lost => ~hist.lost
  BY <1>2, DidFollows
<1>4. Live' => Live /\ ~hist'.lost
  BY <1>1, <1>3 DEF Live
<1>5. \A x : Scanned(x)' <=> Scanned(x)
  BY <1>1 DEF Scanned, ScanReads
<1> QED
  BY <1>1, <1>4, <1>5 DEF MissingOK, MissingAt, Followed

\* A path that no event is about.
LEMMA OtherMissing ==
    ASSUME WatchInv, NEW d, NEW es, NEW gone, FileStep(d, es, gone),
           NEW x \in DOMAIN fs, MissingAt(queue, x),
           x[1] = d => \A i \in DOMAIN es : es[i].name # x[2]
    PROVE  MissingAt(queue', x)
<1>1. es \in Seq(Events) /\ Len(es) \in {1, 2} /\ Did(es, gone) /\ WatchTypes /\ d \in Dirs /\ Exists(d)
  BY DEF FileStep, WatchInv
<1>2. Follows(queue, queue', {es[i] : i \in DOMAIN es})
  BY <1>1, DidFollows
<1>3. \A i \in DOMAIN queue : i \in DOMAIN queue' /\ queue'[i] = queue[i]
  BY <1>2 DEF Follows
<1>4. ASSUME NEW k \in DOMAIN queue', k \notin DOMAIN queue PROVE ~Tells(j.watches, queue'[k], x)
  <2>1. PICK i \in DOMAIN es : queue'[k] = es[i]
    BY <1>2, <1>4 DEF Follows
  <2>2. es[i].wd = InodeOf(d)
    BY DEF FileStep
  <2>3. CASE InodeOf(d) \in DOMAIN j.watches
    <3>1. j.watches[InodeOf(d)] = d
      BY <1>1, <2>3, WatchedFacts
    <3> QED
      BY <2>1, <2>2, <3>1 DEF Tells
  <2>4. CASE InodeOf(d) \notin DOMAIN j.watches
    BY <2>1, <2>2, <2>4 DEF Tells
  <2> QED
    BY <2>3, <2>4
<1>5. ASSUME NEW i \in DOMAIN queue', Removes(j.watches, queue'[i], x)
      PROVE  \E k \in DOMAIN queue' : k > i /\ Covers(j.watches, queue'[k], x)
  <2>1. i \in DOMAIN queue /\ queue'[i] = queue[i]
    BY <1>3, <1>4, <1>5 DEF Removes
  <2>2. PICK k \in DOMAIN queue : k > i /\ Covers(j.watches, queue[k], x)
    BY <1>5, <2>1 DEF MissingAt
  <2> QED
    BY <1>3, <2>2
<1> QED
  BY <1>3, <1>5 DEF MissingAt

\* A path that the last event makes the reader look at, or the reading of a directory
\* that is not watched yet.
LEMMA LastMissing ==
    ASSUME WatchInv, NEW d, NEW es, NEW gone, FileStep(d, es, gone), Live, ~hist'.lost, Followed(d),
           NEW x \in Paths, x[1] = d, Tail2(es).name = x[2], Tail2(es).mask \in Adding
    PROVE  MissingAt(queue', x)
<1>1. /\ es \in Seq(Events) /\ Len(es) \in {1, 2} /\ Did(es, gone) /\ WatchTypes /\ TreeOK
      /\ d \in Dirs /\ Exists(d) /\ Tail2(es).wd = InodeOf(d)
  BY DEF FileStep, WatchInv, Tail2
<1>2. Longer(queue, queue', d)
  BY FileStepLonger
<1>3. CASE InodeOf(d) \in DOMAIN j.watches
  <2>1. EndsWith(queue', Tail2(es))
    BY <1>1, <1>3, DidFollows
  <2>2. PICK k \in DOMAIN queue' : queue'[k] = Tail2(es) /\ \A i \in DOMAIN queue' : i <= k
    BY <2>1 DEF EndsWith
  <2>3. j.watches[InodeOf(d)] = d
    BY <1>1, <1>3, WatchedFacts
  <2>4. Covers(j.watches, queue'[k], x)
    BY <1>1, <1>3, <2>2, <2>3 DEF Covers, Tells
  <2>5. ASSUME NEW i \in DOMAIN queue', Removes(j.watches, queue'[i], x)
        PROVE  k > i
    <3>1. i # k
      BY <2>2, <2>5 DEF Removes
    <3>2. i <= k
      BY <2>2
    <3>3. i \in Nat /\ k \in Nat
      BY <1>2, SeqFacts DEF Longer
    <3> QED
      BY <3>1, <3>2, <3>3
  <2> QED
    BY <2>4, <2>5 DEF MissingAt
<1>4. CASE InodeOf(d) \notin DOMAIN j.watches
  <2>1. d # Root
    BY <1>4 DEF Live, Followed, WatchInv, WatchesOK, WantedOK, InodeOf
  <2>2. d \in DOMAIN subs /\ d \in Subs /\ subs[d] \notin DOMAIN j.watches
    BY <1>1, <1>4, <2>1 DEF Exists, InodeOf, Dirs
  <2>3. /\ ScanReads(d) \/ \E k \in DOMAIN queue : Creates(queue[k], d)
        /\ \A i \in DOMAIN queue :
             (queue[i].wd \in DOMAIN j.watches /\ j.watches[queue[i].wd] = d)
             => \E k \in DOMAIN queue : k > i /\ Creates(queue[k], d)
    BY <2>2 DEF WatchInv, UnwatchedOK, Followed
  <2>4. \A k : Creates(queue[k], d) => Covers(j.watches, queue[k], x)
    BY <2>2 DEF Covers
  <2>5. \A i \in DOMAIN queue : i \in DOMAIN queue' /\ queue'[i] = queue[i]
    BY <1>2 DEF Longer
  <2>6. Scanned(x) \/ \E k \in DOMAIN queue' : Covers(j.watches, queue'[k], x)
    BY <2>2, <2>3, <2>4, <2>5 DEF Scanned
  <2>7. ASSUME NEW i \in DOMAIN queue', Removes(j.watches, queue'[i], x)
        PROVE  \E k \in DOMAIN queue' : k > i /\ Covers(j.watches, queue'[k], x)
    <3>1. queue'[i].wd \in DOMAIN j.watches /\ j.watches[queue'[i].wd] = d
      BY <2>7 DEF Removes, Tells
    <3>2. i \in DOMAIN queue
      BY <1>2, <1>4, <3>1 DEF Longer
    <3>3. PICK k \in DOMAIN queue : k > i /\ Creates(queue[k], d)
      BY <2>3, <2>5, <3>1, <3>2
    <3> QED
      BY <2>4, <2>5, <3>3
  <2> QED
    BY <2>6, <2>7 DEF MissingAt
<1> QED
  BY <1>3, <1>4

\* One event, and two.
LEMMA OneEvent ==
    ASSUME NEW e \in Events, NEW es, es = <<e>>
    PROVE  /\ es \in Seq(Events) /\ Len(es) \in {1, 2} /\ DOMAIN es = {1} /\ es[1] = e
           /\ Tail2(es) = e
BY DEF Tail2

\* Two events, one after the other.
LEMMA Joined ==
    ASSUME NEW e \in Events, NEW f \in Events
    PROVE  <<e>> \o <<f>> = <<e, f>>
<1>1. PICK s, t : s = <<e>> \o <<f>> /\ t = <<e, f>>
  OBVIOUS
<1>2. s \in Seq(Events) /\ Len(s) = 2 /\ s[1] = e /\ s[2] = f
  BY <1>1
<1>3. t \in Seq(Events) /\ Len(t) = 2 /\ t[1] = e /\ t[2] = f
  BY <1>1
<1>4. \A i \in 1 .. 2 : s[i] = t[i]
  BY <1>2, <1>3
<1>5. s = [i \in 1 .. 2 |-> s[i]] /\ t = [i \in 1 .. 2 |-> t[i]]
  BY <1>2, <1>3
<1> QED
  BY <1>1, <1>4, <1>5

\* A step with two events.
LEMMA TwoEvents ==
    ASSUME NEW e \in Events, NEW f \in Events, NEW es, es = <<e, f>>
    PROVE  /\ es \in Seq(Events) /\ Len(es) \in {1, 2} /\ DOMAIN es = {1, 2}
           /\ es[1] = e /\ es[2] = f /\ Tail2(es) = f /\ Len(es) = 2
BY DEF Tail2

\* What the files are, and what the invariant says of one that is set up.
LEMMA FileFacts ==
    ASSUME WatchInv
    PROVE  /\ fs \in Files /\ fs \in Maps(Paths, FileInfos)
           /\ \A p \in DOMAIN fs : /\ p \in Paths /\ fs[p] \in FileInfos /\ Exists(p[1])
                                   /\ p[1] \in Dirs /\ p[2] \in Names
           /\ \A p \in DOMAIN fs : (Live /\ j.errors = {} /\ fs[p].ready /\ p \notin hist.dropped
                                     /\ Followed(p[1]))
                                   => MissingAt(queue, p)
<1>1. fs \in Maps(Paths, FileInfos)
  BY DEF WatchInv, WatchTypes, Files
<1>2. \A p \in DOMAIN fs : p \in Paths /\ fs[p] \in FileInfos
  BY <1>1, MapsFacts
<1>3. \A p \in DOMAIN fs : p[1] \in Dirs /\ p[2] \in Names /\ Exists(p[1])
  BY <1>2, PathFacts DEF WatchInv, TreeOK
<1>4. \A p \in DOMAIN fs : (Live /\ j.errors = {} /\ fs[p].ready /\ p \notin hist.dropped
                                     /\ Followed(p[1]))
                                   => MissingAt(queue, p)
  BY DEF WatchInv, MissingOK, MissingAt, Followed
<1> QED
  BY <1>1, <1>2, <1>3, <1>4 DEF Files

\* Open files after a step of the daemon.
LEMMA StaleIntro ==
    ASSUME WatchInv, NEW d, NEW es, NEW gone, FileStep(d, es, gone),
           \A x \in DOMAIN fs \cap DOMAIN j.files :
             \/ x \in DOMAIN fs' /\ fs'[x].ino = fs[x].ino
             \/ x \in hist'.unseen \cup hist'.rotated
             \/ ~hist'.lost => \E i \in DOMAIN queue' : Removes(j.watches, queue'[i], x)
    PROVE  StaleOK'
<1>1. j' = j /\ hist.unseen \subseteq hist'.unseen /\ hist.rotated \subseteq hist'.rotated
  BY DidFacts DEF FileStep
<1>2. es \in Seq(Events) /\ Len(es) \in {1, 2} /\ Did(es, gone) /\ WatchTypes
  BY DEF FileStep, WatchInv
<1>3. ~hist'.lost => ~hist.lost
  BY <1>2, DidFollows
<1>4. \A i \in DOMAIN queue : i \in DOMAIN queue' /\ queue'[i] = queue[i]
  BY FileStepLonger DEF Longer
<1>5. SUFFICES ASSUME ~hist'.lost, NEW x \in DOMAIN j.files \ (hist'.unseen \cup hist'.rotated)
               PROVE  \/ x \in DOMAIN fs' /\ fs'[x].ino = j.files[x]
                      \/ \E i \in DOMAIN queue' : Removes(j.watches, queue'[i], x)
  BY <1>1 DEF StaleOK
<1>6. x \in DOMAIN j.files \ (hist.unseen \cup hist.rotated)
  BY <1>1, <1>5
<1>7. \/ x \in DOMAIN fs /\ fs[x].ino = j.files[x]
      \/ \E i \in DOMAIN queue : Removes(j.watches, queue[i], x)
  BY <1>3, <1>5, <1>6 DEF WatchInv, StaleOK
<1> QED
  BY <1>4, <1>5, <1>7

\* A path that has no file any more, or another.
LEMMA GoneStale ==
    ASSUME WatchInv, NEW d, NEW es, NEW gone, FileStep(d, es, gone),
           NEW x \in gone \cap DOMAIN j.files, x[1] = d,
           \A i \in DOMAIN es : es[i].name = x[2] => es[i].mask \notin Adding
    PROVE  \/ x \in hist'.unseen \cup hist'.rotated
           \/ ~hist'.lost => \E i \in DOMAIN queue' : Removes(j.watches, queue'[i], x)
<1>1. /\ es \in Seq(Events) /\ Len(es) \in {1, 2} /\ Did(es, gone) /\ WatchTypes
      /\ d \in Dirs /\ Exists(d) /\ \A i \in DOMAIN es : es[i].wd = InodeOf(d)
  BY DEF FileStep, WatchInv
<1>2. \/ x \in hist'.unseen \cup hist'.rotated
      \/ Watched(d) /\ \E i \in DOMAIN es : es[i].name = x[2]
  BY <1>1, DidFacts
<1>3. ASSUME Watched(d), NEW i \in DOMAIN es, es[i].name = x[2], ~hist'.lost
      PROVE  \E k \in DOMAIN queue' : Removes(j.watches, queue'[k], x)
  <2>1. InodeOf(d) \in DOMAIN j.watches /\ j.watches[InodeOf(d)] = d
    BY <1>1, <1>3, WatchedFacts DEF Watched
  <2>2. PICK k \in DOMAIN queue' : queue'[k] = es[i]
    <3>1. es[i].wd \in DOMAIN j.watches
      BY <1>1, <2>1
    <3> QED
      BY <1>1, <1>3, <3>1, DidFollows
  <2>3. Removes(j.watches, es[i], x)
    BY <1>1, <1>3, <2>1 DEF Removes, Tells
  <2> QED
    BY <2>2, <2>3
<1> QED
  BY <1>2, <1>3

\* The parts of the invariant after a step on files.
LEMMA FileStepInv ==
    ASSUME WatchInv, NEW d, NEW es, NEW gone, FileStep(d, es, gone), StaleOK', MissingOK'
    PROVE  WatchInv'
BY FileStepPreserves DEF WatchInv

\* A file is created.
LEMMA CreatePreserves ==
    ASSUME WatchInv, NEW p \in Paths, Create(p)
    PROVE  WatchInv'
<1>1. p[1] \in Dirs /\ p[2] \in Names /\ p = <<p[1], p[2]>> /\ Exists(p[1]) /\ p \notin DOMAIN fs
  BY PathFacts DEF Create
<1>2. PICK d, e, es : d = p[1] /\ e = Event(p[1], "create", p[2]) /\ es = <<e>>
  OBVIOUS
<1>3. e \in Events /\ e.wd = InodeOf(d) /\ e.mask = "create" /\ e.name = p[2]
  <2>1. PICK n, m : n = p[2] /\ m = "create"
    OBVIOUS
  <2>2. d \in Dirs /\ Exists(d) /\ n \in EventNames /\ m \in Masks
    BY <1>1, <1>2, <2>1 DEF Masks, EventNames
  <2>3. e = Event(d, m, n)
    BY <1>2, <2>1
  <2>4. e \in Events /\ e.wd = InodeOf(d) /\ e.mask = m /\ e.name = n
    <3>1. IsEvent(e, d, m, n)
      BY <2>2, <2>3, EventFacts
    <3> QED
      BY <3>1 DEF IsEvent
  <2> QED
    BY <2>1, <2>4
<1>4. es \in Seq(Events) /\ Len(es) \in {1, 2} /\ DOMAIN es = {1} /\ es[1] = e
  BY <1>2, <1>3, OneEvent
<1>5. Did(es, {}) /\ UNCHANGED subs /\ inodes' = inodes + 1
  BY <1>2 DEF Create
<1>6. inodes \in Nat /\ fs \in Maps(Paths, FileInfos)
  BY FileFacts DEF WatchInv, WatchTypes, Inodes
<1>7. PICK v : v = [ino |-> inodes + 1, ready |-> FALSE]
  OBVIOUS
<1>8. v \in FileInfos /\ v.ready = FALSE
  BY <1>6, <1>7 DEF FileInfos, Inodes
<1>9. fs' = With(fs, p, v)
  BY <1>7 DEF Create
<1>10. fs' \in Files
  BY <1>6, <1>8, <1>9, WithMaps DEF Files
<1>11. /\ DOMAIN fs' = DOMAIN fs \cup {p} /\ fs'[p] = v
       /\ \A x \in DOMAIN fs : x # p /\ fs'[x] = fs[x]
  BY <1>1, <1>9 DEF With
<1>12. FileStep(d, es, {})
  <2>1. \A x \in DOMAIN fs' : Exists(x[1])
    BY <1>1, <1>11, FileFacts
  <2>2. inodes' \in Nat /\ inodes' >= inodes
    BY <1>5, <1>6
  <2> QED
    BY <1>1, <1>2, <1>3, <1>4, <1>5, <1>10, <2>1, <2>2 DEF FileStep
<1>13. StaleOK'
  <2>1. \A x \in DOMAIN fs : x \in DOMAIN fs' /\ fs'[x].ino = fs[x].ino
    BY <1>11
  <2> QED
    BY <1>12, <2>1, StaleIntro
<1>14. MissingOK'
  <2>1. SUFFICES ASSUME NEW x \in DOMAIN fs', fs'[x].ready, Live, ~hist'.lost, j.errors = {},
                        x \notin hist.dropped, Followed(x[1])
                 PROVE  MissingAt(queue', x)
    BY <1>12, MissingIntro
  <2>2. x \in DOMAIN fs /\ x # p /\ fs[x].ready
    BY <1>8, <1>11, <2>1
  <2>3. MissingAt(queue, x) /\ x \in Paths
    BY <2>1, <2>2, FileFacts
  <2>4. x[1] = d => \A i \in DOMAIN es : es[i].name # x[2]
    BY <1>1, <1>2, <1>3, <1>4, <2>2, <2>3, PathFacts
  <2> QED
    BY <1>12, <2>2, <2>3, <2>4, OtherMissing
<1> QED
  BY <1>12, <1>13, <1>14, FileStepInv

\* A file is written to.
LEMMA WritePreserves ==
    ASSUME WatchInv, NEW p \in Paths, Write(p)
    PROVE  WatchInv'
<1>0. p \in DOMAIN fs
  BY DEF Write
<1>1. p[1] \in Dirs /\ p[2] \in Names /\ p = <<p[1], p[2]>> /\ Exists(p[1]) /\ fs[p] \in FileInfos
  BY <1>0, PathFacts, FileFacts
<1>2. PICK d, e, es : d = p[1] /\ e = Event(p[1], "modify", p[2]) /\ es = <<e>>
  OBVIOUS
<1>3. e \in Events /\ e.wd = InodeOf(d) /\ e.mask = "modify" /\ e.name = p[2]
  <2>1. PICK n, m : n = p[2] /\ m = "modify"
    OBVIOUS
  <2>2. d \in Dirs /\ Exists(d) /\ n \in EventNames /\ m \in Masks
    BY <1>1, <1>2, <2>1 DEF Masks, EventNames
  <2>3. e = Event(d, m, n)
    BY <1>2, <2>1
  <2>4. e \in Events /\ e.wd = InodeOf(d) /\ e.mask = m /\ e.name = n
    <3>1. IsEvent(e, d, m, n)
      BY <2>2, <2>3, EventFacts
    <3> QED
      BY <3>1 DEF IsEvent
  <2> QED
    BY <2>1, <2>4
<1>4. es \in Seq(Events) /\ Len(es) \in {1, 2} /\ DOMAIN es = {1} /\ es[1] = e /\ Tail2(es) = e
  BY <1>2, <1>3, OneEvent
<1>5. Did(es, {}) /\ UNCHANGED <<subs, inodes>>
  BY <1>2 DEF Write
<1>6. inodes \in Nat /\ fs \in Maps(Paths, FileInfos)
  BY FileFacts DEF WatchInv, WatchTypes, Inodes
<1>7. PICK v : v = [fs[p] EXCEPT !.ready = TRUE]
  OBVIOUS
<1>8. v \in FileInfos /\ v.ino = fs[p].ino
  BY <1>1, <1>7 DEF FileInfos
<1>9. fs' = [fs EXCEPT ![p] = v]
  BY <1>7 DEF Write
<1>f. fs \in [DOMAIN fs -> FileInfos] /\ DOMAIN fs \subseteq Paths
  BY <1>6, MapsFacts
<1>10. fs' \in Files
  <2>1. fs' \in [DOMAIN fs -> FileInfos]
    BY <1>8, <1>9, <1>f
  <2> QED
    BY <1>f, <2>1, MapsIntro DEF Files
<1>11. /\ DOMAIN fs' = DOMAIN fs /\ fs'[p] = v
       /\ \A x \in DOMAIN fs : x # p => fs'[x] = fs[x]
  BY <1>0, <1>9, <1>f
<1>12. FileStep(d, es, {})
  <2>1. \A x \in DOMAIN fs' : Exists(x[1])
    BY <1>11, FileFacts
  <2>2. inodes' \in Nat /\ inodes' >= inodes
    BY <1>5, <1>6
  <2> QED
    BY <1>1, <1>2, <1>3, <1>4, <1>5, <1>10, <2>1, <2>2 DEF FileStep
<1>13. StaleOK'
  <2>1. \A x \in DOMAIN fs : x \in DOMAIN fs' /\ fs'[x].ino = fs[x].ino
    BY <1>8, <1>11
  <2> QED
    BY <1>12, <2>1, StaleIntro
<1>14. MissingOK'
  <2>1. SUFFICES ASSUME NEW x \in DOMAIN fs', fs'[x].ready, Live, ~hist'.lost, j.errors = {},
                        x \notin hist.dropped, Followed(x[1])
                 PROVE  MissingAt(queue', x)
    BY <1>12, MissingIntro
  <2>2. CASE x = p
    <3>1. x \in Paths /\ x[1] = d /\ Tail2(es).name = x[2] /\ Tail2(es).mask \in Adding
      BY <1>2, <1>3, <1>4, <2>2 DEF Adding
    <3>2. Followed(d)
      BY <2>1, <3>1
    <3> QED
      BY <1>12, <2>1, <3>1, <3>2, LastMissing
  <2>3. CASE x # p
    <3>1. x \in DOMAIN fs /\ fs[x].ready
      BY <1>11, <2>1, <2>3
    <3>2. MissingAt(queue, x) /\ x \in Paths
      BY <2>1, <3>1, FileFacts
    <3>3. x[1] = d => \A i \in DOMAIN es : es[i].name # x[2]
      BY <1>1, <1>2, <1>3, <1>4, <2>3, <3>2, PathFacts
    <3> QED
      BY <1>12, <3>1, <3>2, <3>3, OtherMissing
  <2> QED
    BY <2>2, <2>3
<1> QED
  BY <1>12, <1>13, <1>14, FileStepInv

\* A file is deleted.
LEMMA UnlinkPreserves ==
    ASSUME WatchInv, NEW p \in Paths, Unlink(p)
    PROVE  WatchInv'
<1>0. p \in DOMAIN fs
  BY DEF Unlink
<1>1. p[1] \in Dirs /\ p[2] \in Names /\ p = <<p[1], p[2]>> /\ Exists(p[1])
  BY <1>0, PathFacts, FileFacts
<1>2. PICK d, e, es : d = p[1] /\ e = Event(p[1], "delete", p[2]) /\ es = <<e>>
  OBVIOUS
<1>3. e \in Events /\ e.wd = InodeOf(d) /\ e.mask = "delete" /\ e.name = p[2]
  <2>1. PICK n, m : n = p[2] /\ m = "delete"
    OBVIOUS
  <2>2. d \in Dirs /\ Exists(d) /\ n \in EventNames /\ m \in Masks
    BY <1>1, <1>2, <2>1 DEF Masks, EventNames
  <2>3. e = Event(d, m, n)
    BY <1>2, <2>1
  <2>4. e \in Events /\ e.wd = InodeOf(d) /\ e.mask = m /\ e.name = n
    <3>1. IsEvent(e, d, m, n)
      BY <2>2, <2>3, EventFacts
    <3> QED
      BY <3>1 DEF IsEvent
  <2> QED
    BY <2>1, <2>4
<1>4. es \in Seq(Events) /\ Len(es) \in {1, 2} /\ DOMAIN es = {1} /\ es[1] = e
  BY <1>2, <1>3, OneEvent
<1>5. Did(es, {p}) /\ UNCHANGED <<subs, inodes>>
  BY <1>2 DEF Unlink
<1>6. inodes \in Nat /\ fs \in Maps(Paths, FileInfos)
  BY FileFacts DEF WatchInv, WatchTypes, Inodes
<1>9. fs' = Without(fs, {p})
  BY DEF Unlink
<1>10. fs' \in Files
  BY <1>6, <1>9, WithoutMaps DEF Files
<1>11. DOMAIN fs' = DOMAIN fs \ {p} /\ \A x \in DOMAIN fs' : fs'[x] = fs[x]
  BY <1>9 DEF Without
<1>12. FileStep(d, es, {p})
  <2>1. \A x \in DOMAIN fs' : Exists(x[1])
    BY <1>11, FileFacts
  <2>2. inodes' \in Nat /\ inodes' >= inodes
    BY <1>5, <1>6
  <2> QED
    BY <1>1, <1>2, <1>3, <1>4, <1>5, <1>10, <2>1, <2>2 DEF FileStep
<1>13. StaleOK'
  <2>1. ASSUME NEW x \in DOMAIN fs \cap DOMAIN j.files
        PROVE  \/ x \in DOMAIN fs' /\ fs'[x].ino = fs[x].ino
               \/ x \in hist'.unseen \cup hist'.rotated
               \/ ~hist'.lost => \E i \in DOMAIN queue' : Removes(j.watches, queue'[i], x)
    <3>1. CASE x # p
      BY <1>11, <3>1
    <3>2. CASE x = p
      <4>1. x \in {p} \cap DOMAIN j.files /\ x[1] = d
            /\ \A i \in DOMAIN es : es[i].name = x[2] => es[i].mask \notin Adding
        BY <1>2, <1>3, <1>4, <3>2 DEF Adding
      <4> QED
        BY <1>12, <4>1, GoneStale
    <3> QED
      BY <3>1, <3>2
  <2> QED
    BY <1>12, <2>1, StaleIntro
<1>14. MissingOK'
  <2>1. SUFFICES ASSUME NEW x \in DOMAIN fs', fs'[x].ready, Live, ~hist'.lost, j.errors = {},
                        x \notin hist.dropped, Followed(x[1])
                 PROVE  MissingAt(queue', x)
    BY <1>12, MissingIntro
  <2>2. x \in DOMAIN fs /\ x # p /\ fs[x].ready
    BY <1>11, <2>1
  <2>3. MissingAt(queue, x) /\ x \in Paths
    BY <2>1, <2>2, FileFacts
  <2>4. x[1] = d => \A i \in DOMAIN es : es[i].name # x[2]
    BY <1>1, <1>2, <1>3, <1>4, <2>2, <2>3, PathFacts
  <2> QED
    BY <1>12, <2>2, <2>3, <2>4, OtherMissing
<1> QED
  BY <1>12, <1>13, <1>14, FileStepInv

\* The events of a rename.
RenamedBy(p, q, es) ==
    /\ FileStep(p[1], es, {p}) /\ Tail2(es).name = q[2] /\ Tail2(es).mask \in Adding
    /\ \A i \in DOMAIN es : \/ es[i].name = q[2]
                            \/ es[i].name = p[2] /\ es[i].mask \notin Adding

\* The two events of a rename.
LEMMA RenameEvents ==
    ASSUME WatchInv, NEW p \in Paths, NEW q \in Paths, Rename(p, q)
    PROVE  \E es : RenamedBy(p, q, es)
<1>0. p \in DOMAIN fs /\ q \notin DOMAIN fs /\ p[1] = q[1] /\ UNCHANGED <<subs, inodes>>
  BY DEF Rename
<1>1. /\ p[1] \in Dirs /\ p[2] \in Names /\ q[2] \in Names /\ Exists(p[1]) /\ fs[p] \in FileInfos
  BY <1>0, PathFacts, FileFacts
<1>2. PICK d, e, f : d = p[1] /\ e = Event(p[1], "moved_from", p[2]) /\ f = Event(q[1], "moved_to", q[2])
  OBVIOUS
<1>3. /\ e \in Events /\ e.wd = InodeOf(d) /\ e.mask = "moved_from" /\ e.name = p[2]
      /\ f \in Events /\ f.wd = InodeOf(d) /\ f.mask = "moved_to" /\ f.name = q[2]
  <2>1. PICK n, o, m, k : n = p[2] /\ m = "moved_from" /\ o = q[2] /\ k = "moved_to"
    OBVIOUS
  <2>2. /\ d \in Dirs /\ Exists(d) /\ n \in EventNames /\ m \in Masks
        /\ o \in EventNames /\ k \in Masks
    BY <1>1, <1>2, <2>1 DEF Masks, EventNames
  <2>3. e = Event(d, m, n) /\ f = Event(d, k, o)
    BY <1>0, <1>2, <2>1
  <2>4. e \in Events /\ e.wd = InodeOf(d) /\ e.mask = m /\ e.name = n
    <3>1. d \in Dirs /\ Exists(d) /\ n \in EventNames /\ m \in Masks /\ e = Event(d, m, n)
      BY <2>2, <2>3
    <3>2. IsEvent(e, d, m, n)
      BY <3>1, EventFacts
    <3> QED
      BY <3>2 DEF IsEvent
  <2>5. f \in Events /\ f.wd = InodeOf(d) /\ f.mask = k /\ f.name = o
    <3>1. d \in Dirs /\ Exists(d) /\ o \in EventNames /\ k \in Masks /\ f = Event(d, k, o)
      BY <2>2, <2>3
    <3>2. IsEvent(f, d, k, o)
      BY <3>1, EventFacts
    <3> QED
      BY <3>2 DEF IsEvent
  <2> QED
    BY <2>1, <2>4, <2>5
<1>4. PICK es : es = (IF p[1] = Root THEN <<>> ELSE <<e>>) \o <<f>>
  OBVIOUS
<1>5. Did(es, {p}) /\ fs' = With(Without(fs, {p}), q, fs[p])
  BY <1>2, <1>4 DEF Rename
<1>6. es = <<f>> \/ es = <<e, f>>
  <2>1. p[1] = Root => es = <<>> \o <<f>>
    BY <1>4
  <2>2. p[1] # Root => es = <<e>> \o <<f>>
    BY <1>4
  <2>3. <<>> \o <<f>> = <<f>>
    OBVIOUS
  <2>4. e \in Events /\ f \in Events
    BY <1>3
  <2>5. <<e>> \o <<f>> = <<e, f>>
    BY <2>4, Joined
  <2> QED
    BY <2>1, <2>2, <2>3, <2>5
<1>7. /\ es \in Seq(Events) /\ Len(es) \in {1, 2} /\ Tail2(es) = f
      /\ \A i \in DOMAIN es : es[i] = e \/ es[i] = f
  <2>1. CASE es = <<f>>
    BY <1>3, <2>1, OneEvent
  <2>2. CASE es = <<e, f>>
    <3>1. e \in Events /\ f \in Events
      BY <1>3
    <3>2. /\ es \in Seq(Events) /\ Len(es) \in {1, 2} /\ DOMAIN es = {1, 2}
          /\ es[1] = e /\ es[2] = f /\ Tail2(es) = f
      BY <2>2, <3>1, TwoEvents
    <3> QED
      BY <3>2
  <2> QED
    BY <1>6, <2>1, <2>2
<1>8. inodes \in Nat /\ fs \in Maps(Paths, FileInfos)
  BY FileFacts DEF WatchInv, WatchTypes, Inodes
<1>9. fs' \in Files
  <2>1. PICK g, v : g = Without(fs, {p}) /\ v = fs[p]
    OBVIOUS
  <2>2. g \in Maps(Paths, FileInfos)
    BY <1>8, <2>1, WithoutMaps
  <2>3. fs' = With(g, q, v) /\ v \in FileInfos
    BY <1>1, <1>5, <2>1
  <2> QED
    BY <2>2, <2>3, WithMaps DEF Files
<1>10. \A x \in DOMAIN fs' : Exists(x[1])
  <2>1. DOMAIN fs' \subseteq DOMAIN fs \cup {q}
    BY <1>5 DEF With, Without
  <2> QED
    BY <1>0, <1>1, <2>1, FileFacts
<1>11. FileStep(p[1], es, {p})
  <2>1. inodes' \in Nat /\ inodes' >= inodes
    BY <1>0, <1>8
  <2>2. \A i \in DOMAIN es : es[i].wd = InodeOf(d) /\ es[i].name \in Names /\ es[i].mask # "delete_self"
    BY <1>1, <1>3, <1>7
  <2> QED
    BY <1>0, <1>1, <1>2, <1>5, <1>7, <1>9, <1>10, <2>1, <2>2 DEF FileStep
<1>12. Tail2(es).name = q[2] /\ Tail2(es).mask \in Adding
  BY <1>3, <1>7 DEF Adding
<1>13. \A i \in DOMAIN es : es[i].name = q[2] \/ (es[i].name = p[2] /\ es[i].mask \notin Adding)
  BY <1>3, <1>7 DEF Adding
<1> QED
  BY <1>11, <1>12, <1>13 DEF RenamedBy

\* A file is renamed.
LEMMA RenamePreserves ==
    ASSUME WatchInv, NEW p \in Paths, NEW q \in Paths, Rename(p, q)
    PROVE  WatchInv'
<1>0. PICK es : RenamedBy(p, q, es)
  BY RenameEvents
<1>1. /\ FileStep(p[1], es, {p}) /\ Tail2(es).name = q[2] /\ Tail2(es).mask \in Adding
      /\ \A i \in DOMAIN es : \/ es[i].name = q[2]
                              \/ es[i].name = p[2] /\ es[i].mask \notin Adding
  BY <1>0 DEF RenamedBy
<1>2. p \in DOMAIN fs /\ q \notin DOMAIN fs /\ p[1] = q[1] /\ fs' = With(Without(fs, {p}), q, fs[p])
  BY DEF Rename
<1>3. p = <<p[1], p[2]>> /\ q = <<q[1], q[2]>>
  BY PathFacts
<1>4. p # q /\ p[2] # q[2]
  BY <1>2, <1>3
<1>5. /\ DOMAIN fs' = (DOMAIN fs \ {p}) \cup {q}
      /\ \A x \in DOMAIN fs : x # p => x \in DOMAIN fs' /\ x # q /\ fs'[x] = fs[x]
  BY <1>2 DEF With, Without
<1>6. StaleOK'
  <2>1. ASSUME NEW x \in DOMAIN fs \cap DOMAIN j.files
        PROVE  \/ x \in DOMAIN fs' /\ fs'[x].ino = fs[x].ino
               \/ x \in hist'.unseen \cup hist'.rotated
               \/ ~hist'.lost => \E i \in DOMAIN queue' : Removes(j.watches, queue'[i], x)
    <3>1. CASE x # p
      BY <1>5, <3>1
    <3>2. CASE x = p
      <4>1. x \in {p} \cap DOMAIN j.files /\ x[1] = p[1]
            /\ \A i \in DOMAIN es : es[i].name = x[2] => es[i].mask \notin Adding
        BY <1>1, <1>4, <3>2
      <4> QED
        BY <1>1, <4>1, GoneStale
    <3> QED
      BY <3>1, <3>2
  <2> QED
    BY <1>1, <2>1, StaleIntro
<1>7. MissingOK'
  <2>1. SUFFICES ASSUME NEW x \in DOMAIN fs', fs'[x].ready, Live, ~hist'.lost, j.errors = {},
                        x \notin hist.dropped, Followed(x[1])
                 PROVE  MissingAt(queue', x)
    BY <1>1, MissingIntro
  <2>2. CASE x = q
    <3>1. x \in Paths /\ x[1] = p[1] /\ Tail2(es).name = x[2] /\ Tail2(es).mask \in Adding
      BY <1>1, <1>2, <2>2
    <3>2. Followed(p[1])
      BY <2>1, <3>1
    <3> QED
      BY <1>1, <2>1, <3>1, <3>2, LastMissing
  <2>3. CASE x # q
    <3>1. x \in DOMAIN fs /\ x # p /\ fs[x].ready
      BY <1>5, <2>1, <2>3
    <3>2. MissingAt(queue, x) /\ x \in Paths
      BY <2>1, <3>1, FileFacts
    <3>3. x[1] = p[1] => x[2] # p[2] /\ x[2] # q[2]
      <4>1. x = <<x[1], x[2]>>
        BY <3>2, PathFacts
      <4> QED
        BY <1>2, <1>3, <2>3, <3>1, <4>1
    <3>4. x[1] = p[1] => \A i \in DOMAIN es : es[i].name # x[2]
      BY <1>1, <3>3
    <3> QED
      BY <1>1, <3>1, <3>2, <3>4, OtherMissing
  <2> QED
    BY <2>2, <2>3
<1> QED
  BY <1>1, <1>6, <1>7, FileStepInv

\* What the invariant says of watches and inodes as numbers.
LEMMA NumberFacts ==
    ASSUME WatchInv
    PROVE  /\ inodes \in Nat /\ inodes >= RootInode
           /\ \A w \in DOMAIN j.watches : w \in Nat /\ w <= inodes
           /\ \A x \in DOMAIN subs : /\ subs[x] \in Nat /\ subs[x] > RootInode /\ subs[x] <= inodes
                                     /\ x \in Subs
           /\ subs \in Maps(Subs, Inodes)
<1>1. subs \in Maps(Subs, Inodes) /\ inodes \in Nat /\ inodes >= RootInode
  BY DEF WatchInv, WatchTypes, Inodes, TreeOK
<1>2. \A x \in DOMAIN subs : subs[x] \in Nat /\ x \in Subs
  BY <1>1, MapsFacts DEF Inodes
<1>3. PICK W : W = j.watches
  OBVIOUS
<1>4. W \in Maps(Inodes, Dirs)
  BY <1>3 DEF WatchInv, WatchTypes, Readers
<1>5. \A w \in DOMAIN W : w \in Nat
  BY <1>4, MapsFacts DEF Inodes
<1>6. \A w \in DOMAIN W : w <= inodes
  BY <1>3 DEF WatchInv, WatchesOK, Fits
<1>7. \A x \in DOMAIN subs : subs[x] > RootInode /\ subs[x] <= inodes
  BY DEF WatchInv, TreeOK
<1> QED
  BY <1>1, <1>2, <1>3, <1>5, <1>6, <1>7

\* Arithmetic of inode numbers.
LEMMA Bounds ==
    ASSUME NEW n \in Nat
    PROVE  n + 1 \in Nat /\ n + 1 > n /\ \A w \in Nat : w <= n => w <= n + 1 /\ w # n + 1
OBVIOUS

\* Events of subdirectories: no path is covered or removed by them, unless they create
\* its directory.
LEMMA DirStepStale ==
    ASSUME WatchInv, UNCHANGED <<fs, j, scan>>, hist'.dropped = hist.dropped,
           hist'.unwatched = hist.unwatched,
           hist.unseen \subseteq hist'.unseen, hist.rotated \subseteq hist'.rotated,
           ~hist'.lost => ~hist.lost,
           \A i \in DOMAIN queue : i \in DOMAIN queue' /\ queue'[i] = queue[i],
           \A k \in DOMAIN queue' : k \notin DOMAIN queue => queue'[k].name \notin Names
    PROVE  StaleOK' /\ MissingOK'
<1>1. StaleOK'
  <2>1. SUFFICES ASSUME ~hist'.lost, NEW x \in DOMAIN j.files \ (hist'.unseen \cup hist'.rotated)
                 PROVE  \/ x \in DOMAIN fs /\ fs[x].ino = j.files[x]
                        \/ \E i \in DOMAIN queue' : Removes(j.watches, queue'[i], x)
    BY DEF StaleOK
  <2>2. x \in DOMAIN j.files \ (hist.unseen \cup hist.rotated)
    BY <2>1
  <2>3. \/ x \in DOMAIN fs /\ fs[x].ino = j.files[x]
        \/ \E i \in DOMAIN queue : Removes(j.watches, queue[i], x)
    BY <2>1, <2>2 DEF WatchInv, StaleOK
  <2> QED
    BY <2>3
<1>2. MissingOK'
  <2>0. (Live' => Live) /\ (\A x : Scanned(x)' <=> Scanned(x))
    BY DEF Live, Scanned, ScanReads
  <2>1. SUFFICES ASSUME Live, j.errors = {}, NEW x \in DOMAIN fs, fs[x].ready,
                        x \notin hist.dropped, Followed(x[1])
                 PROVE  MissingAt(queue', x)
    BY <2>0 DEF MissingOK, MissingAt, Followed
  <2>2. MissingAt(queue, x) /\ x[2] \in Names
    BY <2>1, FileFacts
  <2>3. ASSUME NEW i \in DOMAIN queue', Removes(j.watches, queue'[i], x) PROVE i \in DOMAIN queue
    BY <2>2, <2>3 DEF Removes, Tells
  <2> QED
    BY <2>2, <2>3 DEF MissingAt
<1> QED
  BY <1>1, <1>2

\* A subdirectory is made.
LEMMA MkdirPreserves ==
    ASSUME WatchInv, NEW d \in Subs, Mkdir(d)
    PROVE  WatchInv'
<1>1. /\ d \notin DOMAIN subs /\ subs' = With(subs, d, inodes + 1) /\ inodes' = inodes + 1
      /\ UNCHANGED fs
  BY DEF Mkdir
<1>2. /\ inodes \in Nat /\ inodes >= RootInode
      /\ \A w \in DOMAIN j.watches : w \in Nat /\ w <= inodes
      /\ \A x \in DOMAIN subs : /\ subs[x] \in Nat /\ subs[x] > RootInode /\ subs[x] <= inodes
                                /\ x \in Subs
      /\ subs \in Maps(Subs, Inodes)
  BY NumberFacts
<1>3. Root \in Dirs /\ Exists(Root) /\ InodeOf(Root) = RootInode /\ Root \notin Subs /\ Names \cap Subs = {}
      /\ d # "none" /\ d \notin Names /\ d # Root
  BY WatchAssumption DEF Dirs, Exists, InodeOf
<1>4. PICK m, e, es : m = "create" /\ e = Event(Root, m, d) /\ es = <<e>>
  OBVIOUS
<1>5. e \in Events /\ e.wd = RootInode /\ e.mask = "create" /\ e.name = d
  <2>1. m \in Masks /\ d \in EventNames
    BY <1>4 DEF Masks, EventNames
  <2>2. e \in Events /\ e.wd = InodeOf(Root) /\ e.mask = m /\ e.name = d
    <3>1. Root \in Dirs /\ Exists(Root) /\ e = Event(Root, m, d)
      BY <1>3, <1>4
    <3>2. IsEvent(e, Root, m, d)
      BY <2>1, <3>1, EventFacts
    <3> QED
      BY <3>2 DEF IsEvent
  <2> QED
    BY <1>3, <1>4, <2>2
<1>6. es \in Seq(Events) /\ Len(es) \in {1, 2} /\ DOMAIN es = {1} /\ es[1] = e /\ Tail2(es) = e
  BY <1>4, <1>5, OneEvent
<1>7. Did(es, {})
  BY <1>4 DEF Mkdir
<1>8. /\ j' = j /\ scan' = scan /\ DOMAIN hist' = HistFields /\ hist'.lost \in BOOLEAN
      /\ hist'.dropped = hist.dropped /\ hist'.unwatched = hist.unwatched
      /\ hist.unseen \subseteq hist'.unseen /\ hist.rotated \subseteq hist'.rotated
      /\ ToldOK' /\ ScanOK'
  BY <1>7, DidFacts
<1>9. /\ queue \in Seq(Events) /\ Follows(queue, queue', {es[i] : i \in DOMAIN es})
      /\ ~hist'.lost => /\ ~hist.lost
                        /\ Tail2(es).wd \in DOMAIN j.watches => EndsWith(queue', Tail2(es))
  <2>1. WatchTypes
    BY DEF WatchInv
  <2> QED
    BY <1>6, <1>7, <2>1, DidFollows
<1>10. /\ queue' \in Seq(Events)
       /\ \A i \in DOMAIN queue : i \in DOMAIN queue' /\ queue'[i] = queue[i]
       /\ \A k \in DOMAIN queue' : k \notin DOMAIN queue =>
             queue'[k] = e /\ RootInode \in DOMAIN j.watches
  <2>1. {es[i] : i \in DOMAIN es} = {e}
    BY <1>6
  <2>2. Follows(queue, queue', {e})
    BY <1>9, <2>1
  <2> QED
    BY <1>5, <2>2 DEF Follows
<1>11. ~hist'.lost => ~hist.lost /\ (RootInode \in DOMAIN j.watches => EndsWith(queue', e))
  BY <1>5, <1>6, <1>9
<1>12. /\ inodes + 1 \in Nat /\ inodes + 1 > inodes /\ inodes + 1 > RootInode /\ inodes + 1 >= RootInode
       /\ \A w \in DOMAIN j.watches : w <= inodes + 1 /\ w # inodes + 1
       /\ \A x \in DOMAIN subs : subs[x] <= inodes + 1 /\ subs[x] # inodes + 1
  <2>1. inodes \in Nat /\ inodes >= RootInode
    BY <1>2
  <2>2. inodes + 1 \in Nat /\ inodes + 1 > inodes /\ inodes + 1 > RootInode /\ inodes + 1 >= RootInode
    BY <2>1 DEF RootInode
  <2> QED
    BY <1>2, <2>2, Bounds
<1>13. /\ DOMAIN subs' = DOMAIN subs \cup {d} /\ subs'[d] = inodes + 1
       /\ \A x \in DOMAIN subs : x # d /\ subs'[x] = subs[x]
  BY <1>1 DEF With
<1>14. subs' \in Maps(Subs, Inodes)
  <2>1. PICK n : n = inodes + 1
    OBVIOUS
  <2>2. n \in Inodes /\ subs' = With(subs, d, n)
    BY <1>1, <1>12, <2>1 DEF Inodes
  <2> QED
    BY <1>2, <2>2, WithMaps
<1>15. WatchTypes'
  BY <1>1, <1>8, <1>10, <1>12, <1>14 DEF WatchInv, WatchTypes, Inodes
<1>16. TreeOK'
  <2>1. \A p \in DOMAIN fs : p[1] = Root \/ p[1] \in DOMAIN subs'
    BY <1>13 DEF WatchInv, TreeOK, Exists
  <2>2. \A x \in DOMAIN subs' : subs'[x] > RootInode /\ subs'[x] <= inodes + 1
    BY <1>2, <1>12, <1>13
  <2>3. \A x, y \in DOMAIN subs' : subs'[x] = subs'[y] => x = y
    BY <1>12, <1>13 DEF WatchInv, TreeOK
  <2> QED
    BY <1>1, <1>12, <2>1, <2>2, <2>3 DEF TreeOK, Exists, RootInode
<1>17. WatchesOK'
  <2>1. Fits(j)
    BY DEF WatchInv, WatchesOK
  <2>2. \A x \in DOMAIN subs' : subs'[x] \in DOMAIN j.watches => j.watches[subs'[x]] = x
    BY <1>12, <1>13, <2>1 DEF Fits
  <2>3. Fits(j)'
    BY <1>1, <1>8, <1>12, <2>1, <2>2 DEF Fits, RootInode
  <2>4. OpeningOK'
    BY <1>8, <1>13 DEF WatchInv, WatchesOK, OpeningOK, Exists
  <2>5. FailedOK' /\ WantedOK'
    BY <1>8 DEF WatchInv, WatchesOK, FailedOK, WantedOK, RootInode
  <2> QED
    BY <2>3, <2>4, <2>5 DEF WatchesOK
<1>18. QueueOK'
  <2>1. SUFFICES ASSUME NEW i \in DOMAIN queue'
        PROVE  /\ queue'[i].wd \in DOMAIN j.watches
               /\ queue'[i].mask = "delete_self" <=> queue'[i].name = "none"
               /\ queue'[i].name \in Subs =>
                    queue'[i].wd = RootInode /\ queue'[i].mask \in {"create", "delete"}
               /\ queue'[i].mask = "delete_self" =>
                    /\ queue'[i].wd # RootInode
                    /\ \A x \in DOMAIN subs' : subs'[x] # queue'[i].wd
                    /\ \A k \in DOMAIN queue' : queue'[k].wd = queue'[i].wd => k <= i
    BY <1>8 DEF QueueOK, RootInode
  <2>2. CASE i \in DOMAIN queue
    <3>1. queue'[i] = queue[i] /\ queue[i].wd \in DOMAIN j.watches
      BY <1>10, <2>2 DEF WatchInv, QueueOK
    <3>2. ASSUME queue[i].mask = "delete_self", NEW k \in DOMAIN queue', queue'[k].wd = queue[i].wd
          PROVE  k <= i
      <4>1. queue[i].wd # RootInode
        BY <2>2, <3>2 DEF WatchInv, QueueOK
      <4>2. k \in DOMAIN queue /\ queue'[k] = queue[k]
        BY <1>5, <1>10, <3>2, <4>1
      <4> QED
        BY <2>2, <3>2, <4>2 DEF WatchInv, QueueOK
    <3>3. queue[i].mask = "delete_self" => \A x \in DOMAIN subs' : subs'[x] # queue[i].wd
      <4>1. queue[i].mask = "delete_self" => \A x \in DOMAIN subs : subs[x] # queue[i].wd
        BY <2>2 DEF WatchInv, QueueOK
      <4>2. queue[i].wd # inodes + 1
        BY <1>12, <3>1
      <4> QED
        BY <1>13, <4>1, <4>2
    <3>4. /\ queue[i].mask = "delete_self" <=> queue[i].name = "none"
          /\ queue[i].name \in Subs =>
               queue[i].wd = RootInode /\ queue[i].mask \in {"create", "delete"}
          /\ queue[i].mask = "delete_self" => queue[i].wd # RootInode
      BY <2>2 DEF WatchInv, QueueOK
    <3> QED
      BY <3>1, <3>2, <3>3, <3>4
  <2>3. CASE i \notin DOMAIN queue
    BY <1>3, <1>5, <1>10, <2>3
  <2> QED
    BY <2>2, <2>3
<1>19. GoneOK'
  <2>1. SUFFICES ASSUME ~hist'.lost, NEW w \in DOMAIN j.watches
                 PROVE  \/ Exists(j.watches[w])' /\ InodeOf(j.watches[w])' = w
                        \/ \E i \in DOMAIN queue' : queue'[i].wd = w /\ queue'[i].mask = "delete_self"
    BY <1>8 DEF GoneOK
  <2>2. \/ Exists(j.watches[w]) /\ InodeOf(j.watches[w]) = w
        \/ \E i \in DOMAIN queue : queue[i].wd = w /\ queue[i].mask = "delete_self"
    BY <1>11, <2>1 DEF WatchInv, GoneOK
  <2>3. CASE Exists(j.watches[w]) /\ InodeOf(j.watches[w]) = w
    BY <1>8, <1>13, <2>3 DEF Exists, InodeOf, RootInode
  <2> QED
    BY <1>10, <2>2, <2>3
<1>20. UnwatchedOK'
  <2>0. (Live' => Live /\ ~hist'.lost) /\ (\A x : ScanReads(x)' <=> ScanReads(x))
    BY <1>8, <1>11 DEF Live, ScanReads
  <2>1. SUFFICES ASSUME Live, ~hist'.lost, NEW x \in DOMAIN subs', subs'[x] \notin DOMAIN j.watches,
                        Followed(x)
                 PROVE  /\ ScanReads(x) \/ \E k \in DOMAIN queue' : Creates(queue'[k], x)
                        /\ \A i \in DOMAIN queue' :
                             (queue'[i].wd \in DOMAIN j.watches /\ j.watches[queue'[i].wd] = x)
                             => \E k \in DOMAIN queue' : k > i /\ Creates(queue'[k], x)
    BY <1>8, <2>0 DEF UnwatchedOK, Creates, RootInode, Followed
  <2>2. RootInode \in DOMAIN j.watches /\ j.watches[RootInode] = Root
    BY <2>1 DEF Live, Followed, WatchInv, WatchesOK, WantedOK, Fits
  <2>3. x # Root
    BY <1>2, <1>3, <1>13, <2>1
  <2>4. CASE x = d
    <3>1. EndsWith(queue', e)
      BY <1>11, <2>1, <2>2
    <3>2. PICK k \in DOMAIN queue' : queue'[k] = e /\ \A i \in DOMAIN queue' : i <= k
      BY <3>1 DEF EndsWith
    <3>3. Creates(queue'[k], x)
      BY <1>5, <2>4, <3>2 DEF Creates
    <3>4. ASSUME NEW i \in DOMAIN queue', queue'[i].wd \in DOMAIN j.watches, j.watches[queue'[i].wd] = x
          PROVE  k > i
      <4>1. i # k
        BY <1>5, <2>2, <2>3, <3>2, <3>4
      <4>2. i \in Nat /\ k \in Nat /\ i <= k
        BY <1>10, <3>2, SeqFacts
      <4> QED
        BY <4>1, <4>2
    <3> QED
      BY <3>3, <3>4
  <2>5. CASE x # d
    <3>1. x \in DOMAIN subs /\ subs[x] \notin DOMAIN j.watches
      BY <1>13, <2>1, <2>5
    <3>2. /\ ScanReads(x) \/ \E k \in DOMAIN queue : Creates(queue[k], x)
          /\ \A i \in DOMAIN queue :
               (queue[i].wd \in DOMAIN j.watches /\ j.watches[queue[i].wd] = x)
               => \E k \in DOMAIN queue : k > i /\ Creates(queue[k], x)
      BY <2>1, <3>1 DEF WatchInv, UnwatchedOK, Followed
    <3>3. ASSUME NEW i \in DOMAIN queue', j.watches[queue'[i].wd] = x PROVE i \in DOMAIN queue
      BY <1>5, <1>10, <2>2, <2>3, <3>3
    <3> QED
      BY <1>10, <3>2, <3>3
  <2> QED
    BY <2>4, <2>5
<1>21. StaleOK' /\ MissingOK'
  <2>1. \A k \in DOMAIN queue' : k \notin DOMAIN queue => queue'[k].name \notin Names
    BY <1>3, <1>5, <1>10
  <2>2. \A i \in DOMAIN queue : i \in DOMAIN queue' /\ queue'[i] = queue[i]
    BY <1>10
  <2>3. UNCHANGED <<fs, j, scan>>
    BY <1>1, <1>8
  <2>4. ~hist'.lost => ~hist.lost
    BY <1>11
  <2> QED
    BY <1>8, <2>1, <2>2, <2>3, <2>4, DirStepStale
<1> QED
  BY <1>8, <1>15, <1>16, <1>17, <1>18, <1>19, <1>20, <1>21 DEF WatchInv

\* The second of two events is the last.
LEMMA SecondLast ==
    ASSUME WatchTypes, NEW es \in Seq(Events), Len(es) = 2, es[1] # es[2], NEW gone, Did(es, gone)
    PROVE  \A i \in DOMAIN queue' : i \notin DOMAIN queue /\ queue'[i] = es[2] =>
              \A k \in DOMAIN queue' : k <= i
<1>0. 1 \in DOMAIN es /\ 2 \in DOMAIN es /\ es[1] \in Events /\ es[2] \in Events
  <2>1. DOMAIN es = 1 .. 2
    BY SeqDomain
  <2>2. 1 \in DOMAIN es /\ 2 \in DOMAIN es
    BY <2>1
  <2> QED
    BY <2>2, SeqFacts
<1>1. PICK e \in Events, f \in Events : e = es[1] /\ f = es[2] /\ 1 \in DOMAIN es /\ 2 \in DOMAIN es
  BY <1>0
<1>2. queue \in Seq(Events) /\ e # f
  BY <1>1 DEF WatchTypes
<1>3. PICK q : q = Enqueued(queue, e)
  OBVIOUS
<1>4. queue' = Enqueued(q, f)
  <2>1. Queued(es)[0] = queue /\ Queued(es)[1] = Enqueued(Queued(es)[0], es[1])
        /\ Queued(es)[2] = Enqueued(Queued(es)[1], es[2])
    BY <1>1, QueuedSteps
  <2>2. queue' = Queued(es)[2]
    BY DEF Did
  <2> QED
    BY <1>1, <1>3, <2>1, <2>2
<1>5. Follows(queue, q, {e}) /\ q \in Seq(Events)
  <2>1. Follows(queue, q, {e})
    BY <1>2, <1>3, EnqueuedFollows
  <2> QED
    BY <2>1 DEF Follows
<1>6. queue' = q \/ queue' = Append(q, f)
  BY <1>4 DEF Enqueued
<1>7. SUFFICES ASSUME NEW i \in DOMAIN queue', i \notin DOMAIN queue, queue'[i] = f
               PROVE  \A k \in DOMAIN queue' : k <= i
  BY <1>1
<1>8. ~(i \in DOMAIN q /\ queue'[i] = q[i])
  BY <1>2, <1>5, <1>7 DEF Follows
<1>9. queue' = Append(q, f)
  BY <1>6, <1>7, <1>8
<1>10. DOMAIN q = 1 .. Len(q) /\ Len(q) \in Nat
  BY <1>5
<1>11. DOMAIN queue' = 1 .. (Len(q) + 1) /\ \A k \in 1 .. Len(q) : queue'[k] = q[k]
  BY <1>5, <1>9
<1>12. i = Len(q) + 1
  BY <1>7, <1>8, <1>10, <1>11
<1> QED
  BY <1>10, <1>11, <1>12

\* A subdirectory is removed.
LEMMA RmdirPreserves ==
    ASSUME WatchInv, NEW d \in Subs, Rmdir(d)
    PROVE  WatchInv'
<1>1. /\ d \in DOMAIN subs /\ subs' = Without(subs, {d}) /\ UNCHANGED <<fs, inodes>>
      /\ \A p \in DOMAIN fs : p[1] # d
      /\ j.opening # d
  BY DEF Rmdir
<1>2. /\ inodes \in Nat /\ inodes >= RootInode
      /\ \A w \in DOMAIN j.watches : w \in Nat /\ w <= inodes
      /\ \A x \in DOMAIN subs : /\ subs[x] \in Nat /\ subs[x] > RootInode /\ subs[x] <= inodes
                                /\ x \in Subs
      /\ subs \in Maps(Subs, Inodes)
  BY NumberFacts
<1>3. /\ Root \in Dirs /\ Exists(Root) /\ InodeOf(Root) = RootInode /\ Root \notin Subs /\ Names \cap Subs = {}
      /\ "none" \notin Names /\ "none" \notin Subs /\ d # "none" /\ d \notin Names /\ d # Root
      /\ d \in Dirs /\ Exists(d) /\ InodeOf(d) = subs[d]
  BY <1>1, WatchAssumption DEF Dirs, Exists, InodeOf
<1>4. PICK m, n, o, e, f, es : /\ m = "delete" /\ n = "delete_self" /\ o = "none"
                               /\ e = Event(Root, m, d) /\ f = Event(d, n, o) /\ es = <<e, f>>
  OBVIOUS
<1>5. e \in Events /\ e.wd = RootInode /\ e.mask = "delete" /\ e.name = d
  <2>1. m \in Masks /\ d \in EventNames
    BY <1>4 DEF Masks, EventNames
  <2>2. e \in Events /\ e.wd = InodeOf(Root) /\ e.mask = m /\ e.name = d
    <3>1. Root \in Dirs /\ Exists(Root) /\ e = Event(Root, m, d)
      BY <1>3, <1>4
    <3>2. IsEvent(e, Root, m, d)
      BY <2>1, <3>1, EventFacts
    <3> QED
      BY <3>2 DEF IsEvent
  <2> QED
    BY <1>3, <1>4, <2>2
<1>6. f \in Events /\ f.wd = subs[d] /\ f.mask = "delete_self" /\ f.name = "none"
  <2>1. n \in Masks /\ o \in EventNames
    BY <1>4 DEF Masks, EventNames
  <2>2. f \in Events /\ f.wd = InodeOf(d) /\ f.mask = n /\ f.name = o
    <3>1. d \in Dirs /\ Exists(d) /\ f = Event(d, n, o)
      BY <1>3, <1>4
    <3>2. IsEvent(f, d, n, o)
      BY <2>1, <3>1, EventFacts
    <3> QED
      BY <3>2 DEF IsEvent
  <2> QED
    BY <1>3, <1>4, <2>2
<1>7. /\ es \in Seq(Events) /\ Len(es) \in {1, 2} /\ DOMAIN es = {1, 2}
      /\ es[1] = e /\ es[2] = f /\ Tail2(es) = f /\ Len(es) = 2
  <2>1. e \in Events /\ f \in Events /\ es = <<e, f>>
    BY <1>4, <1>5, <1>6
  <2> QED
    BY <2>1, TwoEvents
<1>8. Did(es, {})
  BY <1>4 DEF Rmdir
<1>9. /\ j' = j /\ scan' = scan /\ DOMAIN hist' = HistFields /\ hist'.lost \in BOOLEAN
      /\ hist'.dropped = hist.dropped /\ hist'.unwatched = hist.unwatched
      /\ hist.unseen \subseteq hist'.unseen /\ hist.rotated \subseteq hist'.rotated
      /\ ToldOK' /\ ScanOK'
  BY <1>8, DidFacts
<1>t. WatchTypes
  BY DEF WatchInv
<1>10. /\ queue \in Seq(Events) /\ Follows(queue, queue', {es[i] : i \in DOMAIN es})
       /\ ~hist'.lost => /\ ~hist.lost
                         /\ Tail2(es).wd \in DOMAIN j.watches => EndsWith(queue', Tail2(es))
  BY <1>7, <1>8, <1>t, DidFollows
<1>11. /\ queue' \in Seq(Events)
       /\ \A i \in DOMAIN queue : i \in DOMAIN queue' /\ queue'[i] = queue[i]
       /\ \A k \in DOMAIN queue' : k \notin DOMAIN queue =>
             (queue'[k] = e \/ queue'[k] = f) /\ queue'[k].wd \in DOMAIN j.watches
  <2>1. {es[i] : i \in DOMAIN es} = {e, f}
    BY <1>7
  <2>2. Follows(queue, queue', {e, f})
    BY <1>10, <2>1
  <2> QED
    BY <2>2 DEF Follows
<1>12. /\ ~hist'.lost => ~hist.lost
       /\ ~hist'.lost /\ subs[d] \in DOMAIN j.watches => \E k \in DOMAIN queue' : queue'[k] = f
  BY <1>6, <1>7, <1>10 DEF EndsWith
<1>13. \A i \in DOMAIN queue' : i \notin DOMAIN queue /\ queue'[i] = f =>
              \A k \in DOMAIN queue' : k <= i
  <2>1. es[1] # es[2]
    BY <1>5, <1>6, <1>7
  <2>2. es[2] = f
    BY <1>7
  <2> QED
    BY <1>7, <1>8, <1>t, <2>1, <2>2, SecondLast
<1>14. DOMAIN subs' = DOMAIN subs \ {d} /\ \A x \in DOMAIN subs' : subs'[x] = subs[x]
  BY <1>1 DEF Without
<1>15. subs' \in Maps(Subs, Inodes)
  BY <1>1, <1>2, WithoutMaps
<1>16. WatchTypes'
  BY <1>t, <1>1, <1>9, <1>11, <1>15 DEF WatchTypes
<1>17. TreeOK'
  <2>1. TreeOK
    BY DEF WatchInv
  <2>2. \A p \in DOMAIN fs : p[1] = Root \/ p[1] \in DOMAIN subs'
    BY <1>1, <1>14, <2>1 DEF TreeOK, Exists
  <2> QED
    BY <1>1, <1>14, <2>1, <2>2 DEF TreeOK, Exists, RootInode
<1>18. WatchesOK'
  <2>1. Fits(j)
    BY DEF WatchInv, WatchesOK
  <2>2. Fits(j)'
    BY <1>1, <1>9, <1>14, <2>1 DEF Fits, RootInode
  <2>3. OpeningOK'
    BY <1>1, <1>9, <1>14 DEF WatchInv, WatchesOK, OpeningOK, Exists
  <2>4. FailedOK' /\ WantedOK'
    BY <1>9 DEF WatchInv, WatchesOK, FailedOK, WantedOK, RootInode
  <2> QED
    BY <2>2, <2>3, <2>4 DEF WatchesOK
<1>19. subs[d] # RootInode /\ \A x \in DOMAIN subs' : subs'[x] # subs[d]
  <2>1. subs[d] > RootInode /\ subs[d] \in Nat
    BY <1>1, <1>2
  <2>2. subs[d] # RootInode
    BY <2>1 DEF RootInode
  <2>3. \A x \in DOMAIN subs' : subs'[x] # subs[d]
    BY <1>1, <1>14 DEF WatchInv, TreeOK
  <2> QED
    BY <2>2, <2>3
<1>20. QueueOK'
  <2>1. SUFFICES ASSUME NEW i \in DOMAIN queue'
        PROVE  /\ queue'[i].wd \in DOMAIN j.watches
               /\ queue'[i].mask = "delete_self" <=> queue'[i].name = "none"
               /\ queue'[i].name \in Subs =>
                    queue'[i].wd = RootInode /\ queue'[i].mask \in {"create", "delete"}
               /\ queue'[i].mask = "delete_self" =>
                    /\ queue'[i].wd # RootInode
                    /\ \A x \in DOMAIN subs' : subs'[x] # queue'[i].wd
                    /\ \A k \in DOMAIN queue' : queue'[k].wd = queue'[i].wd => k <= i
    BY <1>9 DEF QueueOK, RootInode
  <2>2. CASE i \in DOMAIN queue
    <3>1. queue'[i] = queue[i]
      BY <1>11, <2>2
    <3>2. /\ queue[i].wd \in DOMAIN j.watches
          /\ queue[i].mask = "delete_self" <=> queue[i].name = "none"
          /\ queue[i].name \in Subs =>
               queue[i].wd = RootInode /\ queue[i].mask \in {"create", "delete"}
          /\ queue[i].mask = "delete_self" =>
               /\ queue[i].wd # RootInode
               /\ \A x \in DOMAIN subs : subs[x] # queue[i].wd
               /\ \A k \in DOMAIN queue : queue[k].wd = queue[i].wd => k <= i
      BY <2>2 DEF WatchInv, QueueOK
    <3>3. ASSUME queue[i].mask = "delete_self", NEW k \in DOMAIN queue', queue'[k].wd = queue[i].wd
          PROVE  k <= i
      <4>1. queue[i].wd # RootInode /\ queue[i].wd # subs[d]
        BY <1>1, <3>2, <3>3
      <4>2. queue'[k] # e /\ queue'[k] # f
        BY <1>5, <1>6, <3>3, <4>1
      <4>3. k \in DOMAIN queue /\ queue'[k] = queue[k]
        BY <1>11, <4>2
      <4> QED
        BY <3>2, <3>3, <4>3
    <3>4. queue[i].mask = "delete_self" => \A x \in DOMAIN subs' : subs'[x] # queue[i].wd
      BY <1>14, <3>2
    <3> QED
      BY <3>1, <3>2, <3>3, <3>4
  <2>3. CASE i \notin DOMAIN queue
    <3>1. CASE queue'[i] = e
      BY <1>3, <1>5, <1>11, <2>3, <3>1
    <3>2. CASE queue'[i] = f
      BY <1>3, <1>6, <1>11, <1>13, <1>19, <2>3, <3>2
    <3> QED
      BY <1>11, <2>3, <3>1, <3>2
  <2> QED
    BY <2>2, <2>3
<1>21. GoneOK'
  <2>1. SUFFICES ASSUME ~hist'.lost, NEW w \in DOMAIN j.watches
                 PROVE  \/ Exists(j.watches[w])' /\ InodeOf(j.watches[w])' = w
                        \/ \E i \in DOMAIN queue' : queue'[i].wd = w /\ queue'[i].mask = "delete_self"
    BY <1>9 DEF GoneOK
  <2>2. \/ Exists(j.watches[w]) /\ InodeOf(j.watches[w]) = w
        \/ \E i \in DOMAIN queue : queue[i].wd = w /\ queue[i].mask = "delete_self"
    BY <1>12, <2>1 DEF WatchInv, GoneOK
  <2>3. CASE Exists(j.watches[w]) /\ InodeOf(j.watches[w]) = w
    <3>1. CASE j.watches[w] = d
      BY <1>3, <1>6, <1>12, <2>1, <2>3, <3>1
    <3>2. CASE j.watches[w] # d
      BY <1>9, <1>14, <2>3, <3>2 DEF Exists, InodeOf, RootInode
    <3> QED
      BY <3>1, <3>2
  <2> QED
    BY <1>11, <2>2, <2>3
<1>22. UnwatchedOK'
  <2>0. (Live' => Live) /\ (\A x : ScanReads(x)' <=> ScanReads(x))
    BY <1>9, <1>12 DEF Live, ScanReads
  <2>1. SUFFICES ASSUME Live, NEW x \in DOMAIN subs', subs'[x] \notin DOMAIN j.watches, Followed(x)
                 PROVE  /\ ScanReads(x) \/ \E k \in DOMAIN queue' : Creates(queue'[k], x)
                        /\ \A i \in DOMAIN queue' :
                             (queue'[i].wd \in DOMAIN j.watches /\ j.watches[queue'[i].wd] = x)
                             => \E k \in DOMAIN queue' : k > i /\ Creates(queue'[k], x)
    BY <1>9, <2>0 DEF UnwatchedOK, Creates, RootInode, Followed
  <2>2. RootInode \in DOMAIN j.watches => j.watches[RootInode] = Root
    BY DEF WatchInv, WatchesOK, Fits
  <2>3. subs[d] \in DOMAIN j.watches => j.watches[subs[d]] = d
    BY <1>1 DEF WatchInv, WatchesOK, Fits
  <2>4. x # Root /\ x # d /\ x \in DOMAIN subs /\ subs[x] \notin DOMAIN j.watches
    BY <1>2, <1>3, <1>14, <2>1
  <2>5. /\ ScanReads(x) \/ \E k \in DOMAIN queue : Creates(queue[k], x)
        /\ \A i \in DOMAIN queue :
             (queue[i].wd \in DOMAIN j.watches /\ j.watches[queue[i].wd] = x)
             => \E k \in DOMAIN queue : k > i /\ Creates(queue[k], x)
    BY <2>1, <2>4 DEF WatchInv, UnwatchedOK, Followed
  <2>6. ASSUME NEW i \in DOMAIN queue', queue'[i].wd \in DOMAIN j.watches, j.watches[queue'[i].wd] = x
        PROVE  i \in DOMAIN queue
    BY <1>5, <1>6, <1>11, <2>2, <2>3, <2>4, <2>6
  <2> QED
    BY <1>11, <2>5, <2>6
<1>23. StaleOK' /\ MissingOK'
  <2>1. \A k \in DOMAIN queue' : k \notin DOMAIN queue => queue'[k].name \notin Names
    BY <1>3, <1>5, <1>6, <1>11
  <2>2. \A i \in DOMAIN queue : i \in DOMAIN queue' /\ queue'[i] = queue[i]
    BY <1>11
  <2>3. UNCHANGED <<fs, j, scan>>
    BY <1>1, <1>9
  <2>4. ~hist'.lost => ~hist.lost
    BY <1>12
  <2> QED
    BY <1>9, <2>1, <2>2, <2>3, <2>4, DirStepStale
<1> QED
  BY <1>9, <1>16, <1>17, <1>18, <1>20, <1>21, <1>22, <1>23 DEF WatchInv

-----------------------------------------------------------------------------
(* Theorems                                                                *)

\* A step that changes nothing.
LEMMA StutterPreserves ==
    ASSUME WatchInv, UNCHANGED watchVars
    PROVE  WatchInv'
<1>1. UNCHANGED <<fs, subs, inodes, queue, j, scan, hist>>
  BY DEF watchVars
<1>2. WatchTypes' /\ ToldOK'
  BY <1>1 DEF WatchInv, WatchTypes, ToldOK
<1>3. j' \in Readers /\ SameDirs(j, j') /\ DOMAIN hist' = HistFields
  BY <1>1 DEF WatchInv, WatchTypes, SameDirs
<1> QED
  BY <1>1, <1>2, <1>3, AnswerPreserves

\* Whatever the daemon does between the reader's system calls, the one between opendir()
\* and inotify_add_watch() of add_root_directory() and add_directory() included, the
\* parts of the invariant hold: watches and directories agree, and what the reader does
\* not know yet of a directory is in the queue or in a reading that is under way, in the
\* right order, unless inotify_add_watch() failed for the directory or for the root.
THEOREM WatchInvariant == WatchSpec => []WatchInv
<1>1. WatchInit => WatchInv
  BY InitEstablishes
<1>2. WatchInv /\ [WatchNext]_watchVars => WatchInv'
  <2>1. SUFFICES ASSUME WatchInv, [WatchNext]_watchVars PROVE WatchInv'
    OBVIOUS
  <2>2. CASE \E n \in Names \cup Subs : ReadEntry(n)
    BY <2>1, <2>2, ReadSubPreserves, ReadFilePreserves
  <2>3. CASE WatchDirectory \/ EndScan \/ OpenDirectory \/ GetFd
    BY <2>1, <2>3, WatchDirectoryPreserves, EndScanPreserves, OpenDirectoryPreserves,
       GetFdPreserves
  <2>4. CASE \E P \in SUBSET DOMAIN fs : OpenFiles(P)
    BY <2>1, <2>4, OpenFilesPreserves
  <2>5. CASE ProcessInotifyEvent \/ ProcessReturns \/ FirstWaitReturns \/ Close
    BY <2>1, <2>5, ProcessInotifyEventPreserves, ProcessReturnsPreserves,
       FirstWaitReturnsPreserves, ClosePreserves
  <2>6. ASSUME NEW p \in Paths, DropDamaged(p) \/ Create(p) \/ Write(p) \/ Unlink(p)
        PROVE  WatchInv'
    BY <2>1, <2>6, DropDamagedPreserves, CreatePreserves, WritePreserves, UnlinkPreserves
  <2>7. ASSUME NEW p \in Paths, NEW q \in Paths, Rename(p, q) PROVE WatchInv'
    BY <2>1, <2>7, RenamePreserves
  <2>8. ASSUME NEW d \in Subs, Mkdir(d) \/ Rmdir(d) PROVE WatchInv'
    BY <2>1, <2>8, MkdirPreserves, RmdirPreserves
  <2>9. CASE UNCHANGED watchVars
    BY <2>1, <2>9, StutterPreserves
  <2> QED
    BY <2>1, <2>2, <2>3, <2>4, <2>5, <2>6, <2>7, <2>8, <2>9 DEF WatchNext
<1> QED
  BY <1>1, <1>2, PTL DEF WatchSpec

\* A reader that has read its events has open exactly the files that exist, however
\* many changes there were and wherever they fell between its system calls:
\* process_inotify_event(), add_directory() and add_any_file() miss none that the queue
\* did not lose, in directories of which inotify_add_watch() did not fail.
THEOREM FilesAlwaysCurrent == WatchSpec => []FilesCurrent
<1>1. WatchInv => FilesCurrent
  <2>1. SUFFICES ASSUME WatchInv, Quiet PROVE FilesCurrent
    BY DEF FilesCurrent
  <2>2. /\ ~hist.lost /\ j.inotify /\ j.errors = {} /\ DOMAIN queue = {} /\ DOMAIN scan = {}
        /\ j.opening = "none" /\ "none" \notin Dirs /\ Root \in Dirs
    <3>1. /\ ~hist.lost /\ j.inotify /\ j.errors = {} /\ queue = <<>> /\ scan = <<>>
          /\ j.opening = "none"
      BY <2>1 DEF Quiet, Idle
    <3> QED
      BY <3>1, WatchAssumption DEF Dirs
  <2>3. \A p \in DOMAIN j.files \ (hist.unseen \cup hist.rotated) :
            p \in DOMAIN fs /\ fs[p].ino = j.files[p]
    BY <2>1, <2>2 DEF WatchInv, StaleOK
  <2>4. ASSUME ~j.no_new_files, NEW p \in DOMAIN fs, fs[p].ready, Followed(p[1])
        PROVE  p \in DOMAIN j.files \cup hist.dropped
    <3>0. p[1] \in Dirs
      BY <2>1, FileFacts
    <3>1. ~Scanned(p)
      BY <2>2, <3>0 DEF Scanned, ScanReads
    <3> QED
      BY <2>1, <2>2, <2>4, <3>1 DEF WatchInv, MissingOK, Live, Followed
  <2> QED
    BY <2>3, <2>4 DEF FilesCurrent
<1> QED
  BY <1>1, WatchInvariant, PTL

\* Every change of the files since the last answer makes determine_change() say
\* SD_JOURNAL_INVALIDATE.
THEOREM ChangesAreTold == WatchSpec => InvalidateTold
<1>1. WatchInv /\ [WatchNext]_watchVars =>
        [(ProcessReturns \/ FirstWaitReturns) /\ hist'.result = "APPEND" => hist'.told = hist.told]_watchVars
  <2>1. SUFFICES ASSUME WatchInv, ProcessReturns \/ FirstWaitReturns, hist'.result = "APPEND"
                 PROVE  hist'.told = hist.told
    OBVIOUS
  <2>2. DOMAIN hist = HistFields /\ ToldOK
    BY <2>1 DEF WatchInv, WatchTypes
  <2>3. hist' = [hist EXCEPT !.told = j.files, !.result = IF j.changed THEN "INVALIDATE" ELSE "APPEND"]
    BY <2>1 DEF ProcessReturns, FirstWaitReturns
  <2>4. hist'.told = j.files /\ hist'.result = IF j.changed THEN "INVALIDATE" ELSE "APPEND"
    BY <2>2, <2>3 DEF HistFields
  <2>5. ~j.changed
    BY <2>1, <2>4
  <2> QED
    BY <2>2, <2>4, <2>5 DEF ToldOK
<1> QED
  BY <1>1, WatchInvariant, PTL DEF WatchSpec, InvalidateTold
=============================================================================
