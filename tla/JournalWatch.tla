---------------------------- MODULE JournalWatch ----------------------------
(***************************************************************************)
(* How the reader of lib/sd-journal.c comes to know its files: it reads    *)
(* the journal directory and its subdirectories, watches them by inotify   *)
(* from the first sd_journal_get_fd() or sd_journal_wait() on, and follows *)
(* the events, while the daemon creates, sets up, writes, renames and      *)
(* deletes files.  Between any two of the reader's calls of opendir(),     *)
(* inotify_add_watch(), readdir(), open() and read() the daemon may do     *)
(* something; events wait in a queue that may overflow; and a watch that   *)
(* cannot be added is passed over.                                         *)
(***************************************************************************)
EXTENDS Integers, Sequences, SequencesExt, FiniteSets

CONSTANTS
    Root,        \* the directory the reader was opened with
    Subs,        \* subdirectories of it
    Names,       \* names of journal files that are wanted (file_type_wanted())
    Scopes       \* bounds: operations, places of the event queue, JOURNAL_FILES_MAX,
                 \* damaged files, failing watches

Dirs == {Root} \cup Subs

ASSUME WatchAssumption ==
    /\ Root \notin Subs /\ Names \cap Subs = {}
    /\ "none" \notin Names \cup Dirs

VARIABLES
    fs,          \* fs[p]: inode of the file with path p and whether it is set up
    subs,        \* inode of each subdirectory that exists
    inodes,      \* inodes that were used
    queue,       \* the inotify queue
    j,           \* the reader's object
    scan,        \* directories being read, the innermost first
    scope,       \* the bounds of this behaviour
    hist         \* history: see HistInit

watchVars == <<fs, subs, inodes, queue, j, scan, scope, hist>>

Paths == Dirs \X Names
RootInode == 1

Exists(d) == d = Root \/ d \in DOMAIN subs
InodeOf(d) == IF d = Root THEN RootInode ELSE subs[d]
With(f, x, v) == [y \in DOMAIN f \cup {x} |-> IF y = x THEN v ELSE f[y]]
Without(f, S) == [y \in DOMAIN f \ S |-> f[y]]

\* Where the reader is when nothing is left to be done.
Idle == scan = <<>> /\ j.opening = "none"
Watched(d) == Exists(d) /\ InodeOf(d) \in DOMAIN j.watches

-----------------------------------------------------------------------------
(* Files of the reader                                                     *)

\* Mutant: the invalidation is forgotten.
RemoveFileRealUntold(r, p) == [r EXCEPT !.files = Without(@, {p})]

\* remove_file_real()
RemoveFileReal(r, p) == [r EXCEPT !.files = Without(@, {p}), !.changed = TRUE]

RemoveFile(r, p) == IF p \in DOMAIN r.files THEN RemoveFileReal(r, p) ELSE r

\* add_any_file(): a path that is known is left alone, and a file that cannot be
\* opened (it is gone, or not set up yet) is passed over.
AddAnyFile(r, p) ==
    IF p \in DOMAIN r.files THEN r
    ELSE IF Cardinality(DOMAIN r.files) >= scope.max
    THEN [r EXCEPT !.errors = @ \cup {"ETOOMANYREFS"}]
    ELSE IF p \notin DOMAIN fs \/ ~fs[p].ready THEN r
    ELSE [r EXCEPT !.files = With(@, p, fs[p].ino), !.changed = TRUE]

AddFile(r, p) == IF r.no_new_files THEN r ELSE AddAnyFile(r, p)

-----------------------------------------------------------------------------
(* Directories of the reader                                               *)

\* A directory that is going to be read, and the names that readdir() is bound to
\* return: those that are there when it is first called (on Linux opendir() reads
\* nothing of a directory yet, getdents(2) does).
Scan(d) ==
    [dir |-> d, must |-> {p[2] : p \in {x \in DOMAIN fs : x[1] = d}} \cup
                         IF d = Root THEN DOMAIN subs ELSE {}]

\* add_root_directory() and add_directory() begin: opendir().
AddDirectory(r, d) == [r EXCEPT !.opening = IF Exists(d) THEN d ELSE "none"]

\* Directory d is to be watched, and is not.
Unwatched(r, d) == r.inotify /\ (d \in DOMAIN r.dirs => r.dirs[d] = 0)

\* Mutant: a directory that is known already is not watched.
KnownUnwatched(r, d, added) ==
    LET watch == d \notin DOMAIN r.dirs /\ r.inotify /\ added
    IN  [r EXCEPT !.dirs = IF d \in DOMAIN @ THEN @ ELSE With(@, d, IF watch THEN InodeOf(d) ELSE 0),
                  !.watches = IF watch THEN With(@, InodeOf(d), d) ELSE @,
                  !.changed = @ \/ d \notin DOMAIN r.dirs,
                  !.opening = "none"]

\* Directory d becomes known, unless it is, and watched, unless it is or the watch
\* cannot be added.
Known(r, d, added) ==
    LET wd == IF Unwatched(r, d) THEN IF added THEN InodeOf(d) ELSE 0
              ELSE IF d \in DOMAIN r.dirs THEN r.dirs[d] ELSE 0
    IN  [r EXCEPT !.dirs = With(@, d, wd),
                  !.watches = IF wd = 0 THEN @ ELSE With(@, wd, d),
                  !.changed = @ \/ d \notin DOMAIN r.dirs,
                  !.opening = "none"]

\* add_root_directory() and add_directory() from opendir() to the first readdir(): a
\* failure of inotify_add_watch() is not looked at, and with no_new_files the root's
\* entries are not read.
WatchDirectory ==
    LET d == j.opening IN
    /\ d # "none"
    /\ \/ /\ j' = Known(j, d, TRUE)
          /\ hist' = [hist EXCEPT !.unwatched = @ \ {d}]
       \/ /\ Unwatched(j, d) /\ hist.fails < scope.fails
          /\ j' = Known(j, d, FALSE)
          /\ hist' = [hist EXCEPT !.fails = @ + 1, !.unwatched = @ \cup {d}]
    /\ scan' = IF d = Root /\ j.no_new_files THEN scan ELSE <<Scan(d)>> \o scan
    /\ UNCHANGED <<fs, subs, inodes, queue, scope>>

\* remove_directory(): inotify_rm_watch() is moot, the directory is gone.
RemoveDirectory(r, d) ==
    [r EXCEPT !.dirs = Without(@, {d}), !.watches = Without(@, {r.dirs[d]})]

\* readdir() returns a name that it must return, or one that has appeared since.
ReadEntry(n) ==
    LET s == scan[1] IN
    /\ scan # <<>> /\ j.opening = "none"
    /\ n \in s.must \/ <<s.dir, n>> \in DOMAIN fs
    /\ scan' = <<[s EXCEPT !.must = @ \ {n}]>> \o Tail(scan)
    /\ j' = IF n \in Subs THEN AddDirectory(j, n) ELSE AddFile(j, <<s.dir, n>>)
    /\ UNCHANGED <<fs, subs, inodes, queue, scope, hist>>

\* readdir() has returned everything, and the directory is closed.
EndScan ==
    /\ scan # <<>> /\ scan[1].must = {} /\ j.opening = "none"
    /\ scan' = Tail(scan)
    /\ UNCHANGED <<fs, subs, inodes, queue, j, scope, hist>>

-----------------------------------------------------------------------------
(* Calls                                                                   *)

\* History.  unseen: open files that were replaced or removed while their directory
\* was not watched; rotated: files of the root that were renamed while it was;
\* dropped: files that were damaged; unwatched: directories for which
\* inotify_add_watch() failed; lost: the queue was full; told, result: the files
\* when, and what, sd_journal_process() returned last.
HistInit == [ops |-> 0, drops |-> 0, fails |-> 0, lost |-> FALSE, unseen |-> {},
             rotated |-> {}, dropped |-> {}, unwatched |-> {}, told |-> <<>>,
             result |-> "none"]

NewReader == [open |-> FALSE, no_new_files |-> FALSE, inotify |-> FALSE, files |-> <<>>,
              dirs |-> <<>>, watches |-> <<>>, errors |-> {}, changed |-> FALSE, got |-> FALSE,
              opening |-> "none"]

\* sd_journal_open_directory(), and sd_journal_open() for each of its two paths.
OpenDirectory ==
    /\ ~j.open /\ Idle
    /\ j' = AddDirectory([j EXCEPT !.open = TRUE], Root)
    /\ UNCHANGED <<fs, subs, inodes, queue, scan, scope, hist>>

\* sd_journal_open_files() with the files P, all of which can be opened.
OpenFiles(P) ==
    /\ ~j.open /\ Idle
    /\ P # {} /\ \A p \in P : p[1] = Root /\ fs[p].ready
    /\ j' = [j EXCEPT !.open = TRUE, !.no_new_files = TRUE, !.changed = TRUE,
                      !.files = [p \in P |-> fs[p].ino]]
    /\ UNCHANGED <<fs, subs, inodes, queue, scan, scope, hist>>

\* sd_journal_get_fd() for the first time: the directories are read again.
GetFd ==
    /\ j.open /\ ~j.inotify /\ Idle
    /\ j' = AddDirectory([j EXCEPT !.inotify = TRUE], Root)
    /\ UNCHANGED <<fs, subs, inodes, queue, scan, scope, hist>>

\* process_inotify_event(), for the event at the head of the queue.
ProcessInotifyEvent ==
    LET e == Head(queue)
        d == j.watches[e.wd]
        p == <<d, e.name>>
        r == [j EXCEPT !.got = TRUE]
    IN
    /\ Idle /\ queue # <<>>
    /\ queue' = Tail(queue)
    /\ j' = IF e.wd \notin DOMAIN j.watches THEN r
            ELSE IF e.name \in Names
            THEN IF e.mask \in {"create", "moved_to", "modify"} THEN AddFile(r, p)
                 ELSE RemoveFile(r, p)
            ELSE IF e.mask = "delete_self" THEN RemoveDirectory(r, d)
            ELSE IF e.mask = "create" THEN AddDirectory(r, e.name)
            ELSE r
    /\ hist' = [hist EXCEPT !.unseen = @ \cap DOMAIN j'.files, !.rotated = @ \cap DOMAIN j'.files]
    /\ UNCHANGED <<fs, subs, inodes, scan, scope>>

\* sd_journal_process() returns, the queue being empty: determine_change().
ProcessReturns ==
    /\ Idle /\ j.inotify /\ queue = <<>> /\ j.got
    /\ j' = [j EXCEPT !.got = FALSE, !.changed = FALSE]
    /\ hist' = [hist EXCEPT !.told = j.files,
                            !.result = IF j.changed THEN "INVALIDATE" ELSE "APPEND"]
    /\ UNCHANGED <<fs, subs, inodes, queue, scan, scope>>

\* sd_journal_wait() for the first time: sd_journal_get_fd(), determine_change().
FirstWaitReturns ==
    /\ Idle /\ j.inotify /\ hist.result = "none"
    /\ j' = [j EXCEPT !.changed = FALSE]
    /\ hist' = [hist EXCEPT !.told = j.files,
                            !.result = IF j.changed THEN "INVALIDATE" ELSE "APPEND"]
    /\ UNCHANGED <<fs, subs, inodes, queue, scan, scope>>

\* real_journal_next() finds a file damaged.
DropDamaged(p) ==
    /\ Idle /\ p \in DOMAIN j.files
    /\ hist.drops < scope.drops
    /\ j' = RemoveFileReal(j, p)
    /\ hist' = [hist EXCEPT !.drops = @ + 1, !.unseen = @ \ {p}, !.rotated = @ \ {p},
                            !.dropped = @ \cup {p}]
    /\ UNCHANGED <<fs, subs, inodes, queue, scan, scope>>

\* sd_journal_close()
Close ==
    /\ j.open /\ Idle
    /\ j' = NewReader
    /\ queue' = <<>>
    /\ hist' = [HistInit EXCEPT !.ops = hist.ops, !.drops = hist.drops, !.fails = hist.fails]
    /\ UNCHANGED <<fs, subs, inodes, scan, scope>>

-----------------------------------------------------------------------------
(* The daemon, and the kernel's queue: equal events in a row are one, and  *)
(* when the queue is full events are lost.                                 *)

Event(d, mask, n) == [wd |-> InodeOf(d), mask |-> mask, name |-> n]

Repeats(q, e) == q # <<>> /\ Last(q) = e

Enqueued(q, e) ==
    IF e.wd \notin DOMAIN j.watches \/ Repeats(q, e) \/ Len(q) >= scope.queue THEN q
    ELSE Append(q, e)

Loses(q, e) == e.wd \in DOMAIN j.watches /\ ~Repeats(q, e) /\ Len(q) >= scope.queue

\* The queue after each of the events es.
Queued(es) ==
    LET q[i \in 0 .. Len(es)] == IF i = 0 THEN queue ELSE Enqueued(q[i - 1], es[i])
    IN  q

\* The daemon did something that makes the events es, after which the paths gone
\* have another file, or none.
Did(es, gone) ==
    /\ hist.ops < scope.ops
    /\ queue' = Queued(es)[Len(es)]
    /\ hist' = [hist EXCEPT !.ops = @ + 1,
                  !.lost = @ \/ \E i \in DOMAIN es : Loses(Queued(es)[i - 1], es[i]),
                  !.unseen = @ \cup {p \in gone \cap DOMAIN j.files : ~Watched(p[1])},
                  !.rotated = @ \cup {p \in gone \cap DOMAIN j.files :
                                        Watched(p[1]) /\ \A i \in DOMAIN es : es[i].name # p[2]}]
    /\ UNCHANGED <<j, scan, scope>>

Create(p) ==
    /\ Exists(p[1]) /\ p \notin DOMAIN fs
    /\ fs' = With(fs, p, [ino |-> inodes + 1, ready |-> FALSE])
    /\ inodes' = inodes + 1
    /\ Did(<<Event(p[1], "create", p[2])>>, {}) /\ UNCHANGED subs

\* The header is written, or something is appended.
Write(p) ==
    /\ p \in DOMAIN fs
    /\ fs' = [fs EXCEPT ![p].ready = TRUE]
    /\ Did(<<Event(p[1], "modify", p[2])>>, {}) /\ UNCHANGED <<subs, inodes>>

\* A rotation renames a file within its directory.  Subdirectories are watched
\* for IN_MOVED_FROM, the root is not.
Rename(p, q) ==
    /\ p \in DOMAIN fs /\ q \notin DOMAIN fs /\ p[1] = q[1]
    /\ fs' = With(Without(fs, {p}), q, fs[p])
    /\ Did((IF p[1] = Root THEN <<>> ELSE <<Event(p[1], "moved_from", p[2])>>)
             \o <<Event(q[1], "moved_to", q[2])>>, {p})
    /\ UNCHANGED <<subs, inodes>>

Unlink(p) ==
    /\ p \in DOMAIN fs
    /\ fs' = Without(fs, {p})
    /\ Did(<<Event(p[1], "delete", p[2])>>, {p}) /\ UNCHANGED <<subs, inodes>>

Mkdir(d) ==
    /\ d \notin DOMAIN subs
    /\ subs' = With(subs, d, inodes + 1)
    /\ inodes' = inodes + 1
    /\ Did(<<Event(Root, "create", d)>>, {}) /\ UNCHANGED fs

\* A subdirectory is not removed while the reader has it open to read it.
Rmdir(d) ==
    /\ d \in DOMAIN subs /\ \A p \in DOMAIN fs : p[1] # d
    /\ j.opening # d /\ \A i \in DOMAIN scan : scan[i].dir # d
    /\ subs' = Without(subs, {d})
    /\ Did(<<Event(Root, "delete", d), Event(d, "delete_self", "none")>>, {})
    /\ UNCHANGED <<fs, inodes>>

WatchInit ==
    /\ fs = <<>> /\ subs = <<>> /\ inodes = RootInode
    /\ queue = <<>> /\ scan = <<>>
    /\ j = NewReader
    /\ scope \in Scopes
    /\ hist = HistInit

WatchNext ==
    \/ \E n \in Names \cup Subs : ReadEntry(n)
    \/ WatchDirectory \/ EndScan \/ OpenDirectory \/ GetFd
    \/ \E P \in SUBSET DOMAIN fs : OpenFiles(P)
    \/ ProcessInotifyEvent \/ ProcessReturns \/ FirstWaitReturns \/ Close
    \/ \E p \in Paths : DropDamaged(p) \/ Create(p) \/ Write(p) \/ Unlink(p)
                        \/ \E q \in Paths : Rename(p, q)
    \/ \E d \in Subs : Mkdir(d) \/ Rmdir(d)

WatchSpec == WatchInit /\ [][WatchNext]_watchVars

-----------------------------------------------------------------------------
(* Properties                                                              *)

\* The reader has nothing left to do, and no event was lost.
Quiet == j.inotify /\ Idle /\ queue = <<>> /\ ~hist.lost /\ j.errors = {}

\* Neither the watch of the root nor that of d failed.
Followed(d) == hist.unwatched \cap {Root, d} = {}

\* However the daemon's steps fall between the reader's opendir(), inotify_add_watch(),
\* readdir() and open(), a reader that has read its events has open exactly the files
\* that exist, with the inodes they have: the watch begins before the first readdir(),
\* and what is not set up yet is tried again when it is written.  Excepted are
\* files that were replaced before the watch began or renamed in the root (they stay
\* open under their old name, add_any_file() never looks again), damaged ones, and
\* new files of a directory that is not followed: nobody looks at a failure of
\* inotify_add_watch().
FilesCurrent ==
    Quiet =>
      /\ \A p \in DOMAIN j.files \ (hist.unseen \cup hist.rotated) :
            p \in DOMAIN fs /\ fs[p].ino = j.files[p]
      /\ ~j.no_new_files =>
            \A p \in DOMAIN fs : fs[p].ready /\ Followed(p[1]) =>
                p \in DOMAIN j.files \cup hist.dropped

\* When sd_journal_process() or sd_journal_wait() says SD_JOURNAL_APPEND, the files
\* are those of its last answer: a removal by an event, by damage, or a file that came
\* with a directory is always told as SD_JOURNAL_INVALIDATE.
InvalidateTold ==
    [][(ProcessReturns \/ FirstWaitReturns) /\ hist'.result = "APPEND"
          => hist'.told = hist.told]_watchVars

\* sd_journal_get_fd(3): a live view tracks all changes, rotation included.  A reader
\* that has read its events and watched its directories all along has every journal
\* file open.
RotationFollowed ==
    Quiet /\ hist.unseen = {} /\ hist.unwatched = {} /\ ~j.no_new_files =>
      \A p \in DOMAIN fs : fs[p].ready => \/ \E q \in DOMAIN j.files : j.files[q] = fs[p].ino
                                          \/ p \in hist.dropped

=============================================================================
