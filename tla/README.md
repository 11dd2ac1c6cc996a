# A verification of the journal

This directory holds TLA+ models of journald, the logging daemon of this
repository, of the journal file format it shares with its readers, and of the
library those readers use; TLC configurations that check the models on small
instances; and proofs, checked by TLAPS, of the main properties of the file's
index, of the mmap cache, of the server and its files, of the intake of kernel
messages and of the rate limiter, for instances of every size. `PROJECT.json`
lists the runs, the mutants, the source lines behind every definition, the findings, the
hazards and the theorems.

    tlc -workers 2 -config EntrySearch.cfg MCEntrySearch  # one run
    tlapm EntryIndexProofs.tla                            # one module's proofs

A module `XProofs` EXTENDS the module X whose theorems it proves. `ListOps` has
the sum of a sequence and the removal from a list, which several modules use;
`Recursion` has the lemmas about them and about recursive functions.

## 1. The system

A daemon receives messages from datagram sockets and from the kernel, adds
metadata, and appends each one as an *entry* to a *journal file*. Readers
(`journalctl`, and anyone who uses the `sd-journal` library) map the same files
into their own memory and take no lock.

| component | source | state | operations | module |
|---|---|---|---|---|
| entry index | `lib/journal-file.c` 994-1284 | chains of entry arrays: one in the header, one per data object, each with a counter | append an entry: write it, link it into each chain, item by item | EntryIndex |
| entry search | `lib/journal-file.c` 1286-2204 | per reader and file: the chain cache | seek by offset, seqnum, time; next, skip; the same within a data object | EntrySearch |
| file objects | `lib/journal-file.c` 271-983 | header counters, objects, two hash tables, lists of a field's data | append object, find and append data and fields | JournalFile |
| file life cycle | `lib/journal-file.c` 70-269, 2366-2613 | header.state (offline, online, archived), seqnum_id, tail_entry_seqnum | open, open reliably, set online/offline, rotate, close | Journald |
| verifier | `src/journalctl/journal-verify.c` | none | check every object and every reference of a file | EntryIndex, JournalFile |
| mmap cache | `lib/mmap/mmap-cache.c` | windows, contexts, file descriptors, the list of unused windows | get, close | MMapCache |
| vacuum | `lib/journal-vacuum.c` | none (the directory) | delete the oldest files by size and age | Vacuum |
| server | `src/core/journald-server.c` | the open journals (runtime, system, per user), seqnum, sync_seqnum, sync_time, oldest_file_usec, remembered free space | find a journal, write, rotate, vacuum, sync, flush to /var, start, stop; receive datagrams | Journald, Vacuum, Intake |
| main loop | `src/journald/journald.c`, `src/journald/core/epollfd.c` | state of the server, signal handlers | one turn: retention, wait, dispatch, sync | Journald, Vacuum, Intake |
| rate limiter | `src/core/journald-rate-limit.c` | five pools: begin, num, suppressed | test a message | RateLimit |
| kernel messages | `src/core/journald-kmsg.c`, `src/journald/core/seqnum/` | kseqnum, in memory and in a file | read, flush, save, load | KernelLog |
| native and syslog input | `src/core/journald-native.c`, `journald-syslog.c` | none | parse a datagram, forward it | Protocols, Intake |
| client library | `lib/journal-send.c` | none | frame fields and send them | Protocols, Intake |
| reader library | `lib/sd-journal.c` | open files, current location, matches, enumerations; directories, inotify | next, previous, skip, seek, cursor, match, data, unique values; open, watch, process events | JournalReader, JournalWatch |
| hash map and set | `shared/hashmap.c`, `set.c` | buckets, iteration list, pool of tiles | put, replace, remove, move, merge, iterate | Hashmap, OrderedMap |
| other support | `shared/`, `lib/hash/`, `lib/compress.c` | none | - | - |
| journalctl | `src/journalctl/` | none | command line and output | - |

**Interactions.** The server calls the file layer directly (one thread, one
process). Server and readers interact only through the mapped files and through
inotify: the writer stores an item and raises a counter, the reader trusts the
counter. The flush makes the server a reader of its own runtime files through
`sd-journal`. The rate limiter stands between input and server and reads the
server's remembered free space. Signals (SIGUSR1 flush, SIGUSR2 rotate,
SIGTERM/SIGINT end) arrive as events of the same loop as messages. All files of
a process share one mmap cache; open journals and files are kept in hash maps
that are changed within loops over them.

**What is hard.** Readers run between any two stores of the writer. An append
may fail in its middle and is never undone. Rotation may happen inside a write
and inside a flush, to all files at once. The daemon may be killed, and the
machine may lose power, between any two system calls; what the next start makes
of the files rests on one byte of their header and on the order of fsync()
calls. Three counters number the entries. The chain cache, the places a reader
remembers in each file, the windows of the mmap cache and the iterator of a hash
map are positions in structures that others change. A reader learns of files by
reading directories and by events that race with it. The number of the last
kernel message outlives the daemon in a file. `PROJECT.json` lists these as
hazards, each with its line and the properties that would catch it.

## 2. The modules

Operators commented as `Mutant ...` are wrong variants of the definition that
follows them. They are used by no specification; `PROJECT.json` pairs each with
a run and a property that the variant violates, which shows that the property
depends on the code in question.

Many modules have a variable `scope`: the bounds of a behaviour, chosen at the
start from a few combinations the MC module gives. A run thus explores several
small instances, each with the faults one question is about, in place of one
instance with everything at once.

How they compose: EntrySearch EXTENDS EntryIndex (reader and writer of one
file). Intake EXTENDS KernelLog and Protocols (all sources of messages in one
event loop). Hashmap implements OrderedMap (refinement, INSTANCE ... WITH). The
others meet at interfaces that one module checks and another assumes:
JournalReader takes a search in one file to return what `SearchExact` says;
Journald takes of EntryIndex that a failed append may leave its entry visible,
and of JournalReader the order of entries in a flush; JournalReader adds and
removes files at any time, which JournalWatch shows in detail; Journald lets any
of the files Vacuum considers be deleted.

### EntryIndex

The writer's side of one file. `entry[p]` is the list of data objects of the
p-th entry object; `chain[c]` is the header's chain (`c = 0`) or the chain of a
data object: its arrays, the inline first entry (`data.entry_offset`, the "plus
one" entry), and its counter `n`. Offsets are small numbers in the same order.
The capacity of a new array is computed as in `link_entry_into_array()`.
Appending is split where a reader can look: `AppendEntry` writes the entry
object, `StoreEntry` stores its offset in one chain, `CountEntry` raises that
chain's counter and turns to the next item; `StoreFails` is an allocation error,
which leaves everything done so far in place. The history variable `unlinked`
remembers the entries for which that happened. Of the errors of
`link_entry_into_array()` only the refused allocation is modelled; a mapping that
fails (lines 1030, 1065, 1120) is in JournalFile for objects and tables, and not
modelled for arrays.

Each store is visible to other processes in program order. In C this needs the
compiler to keep the order of the two stores; gcc at -O2 -DNDEBUG (the build's
own flags) does, and x86 keeps the order of stores. The models are about that
build.

The part of `journal_file_verify()` that concerns entry arrays and data objects
is the operator `Verify`.

### EntrySearch (with MCEntrySearch)

A reader with its chain cache, composed with the writer by EXTENDS: every
interleaving of their steps is a behaviour. One `reader` record is the call in
progress: `Seek` (`journal_file_move_to_entry_by_*`, in both directions, in the
main chain or in a data object's), `NextEntry`, `SkipEntry`, and `SeekBoth`
(`journal_file_move_to_entry_by_monotonic_for_data()`, which alternates between
two chains). `BeginBisect`, `SearchArray`, `Found` are the loop of
`generic_array_bisect()`, one array at a time, with the shortcuts through the
cache and the last index; `ReadCount` and `ReadHead` are the separate reads of a
bisection's arguments (`ArgumentOrder`: the order in which the compiled code
makes them, counter first). An item that is not set yet, which the search
answers with -EBADMSG, can be met only at the right end of the range, and only
there has the model the error.

### JournalFile (with MCJournalFile)

The objects of a file and its hash tables. `journal_file_append_entry()` is one
step per store that another process can see or that can fail: append the data
object, link it (patch the predecessor, then the bucket's tail), find or append
and link the field object, put the data at the head of the field's list. Space
may be refused (`Full`), an object may fail to be mapped, and the process may die
between any two steps and be followed by another. A reader walks a bucket or
enumerates a field meanwhile. The rest of the verifier that concerns objects,
header counters and tables is `VerifyObjects` ... `VerifyEntries`.

After the field object is linked, its second mapping (lines 878-880) and the new
mapping of the data object (954-956) are taken to succeed. Sizes and limits of
the allocation are one refusal; compression is left out (an
object of more than 512 bytes is compared after decompression, to the same
effect).

### MMapCache (with MCMMapCache)

`mmap_cache_get()` with its three attempts (the context's window, any window of
the descriptor, a new mapping), windows taken again from the end of the unused
list, `make_room()` after ENOMEM, the descriptor numbers that are used again for
another file, and the caller `journal_file_move_to()`, which asks for the size of
the file again when a region seems to lie beyond it. `held[c]` is the pointer
the last call for context c returned; `kept` those of the hash tables, asked for
with keep_always. A call that unmaps a window turns the pointers to it into
`Dangling`.

### Hashmap (with MCHashmap) and OrderedMap

`shared/hashmap.c` pointer by pointer: tiles with their four list pointers, the
buckets with hash collisions, the growth of a table, the pool of tiles that all
maps share, and a loop over a map with its iterator while the caller removes the
entry it is at, replaces values and adds entries. OrderedMap is what a caller may
think of: a sequence of pairs, the result of every call, and failure for lack of
memory without effect (or, for a merge, after part of it).
`ImplementsOrderedMap` is the refinement, with `map` read off the iteration list.

### JournalReader (with MCJournalReader)

`lib/sd-journal.c` as a merge of files: `real_journal_next()` with the places
each file was left at (`current_offset`, `last_direction`), `compare_entry_order()`
and `compare_with_location()`, locations of all types, the tree of matches with
its levels of OR and AND as `next_for_match()` and `find_location_for_match()`
walk it, cursors, skips, the data of the current entry, cutoff times, and the
enumeration of unique values over all files. The daemon logs messages, flushes
copy them from file to file, files are added, removed and damaged between any
two calls. The clocks go on; a reboot starts a new boot id. An enumeration that
meets a damaged file, the one it walks or one in front of it, returns an error and
keeps the place it has come to, as the code does. The error that
`real_journal_next()` can return after its choice (lines 951-953, the mapping of
an entry just looked at) is left out.

### JournalWatch (with MCJournalWatch)

The same library's directories: opening, reading a directory entry by entry,
inotify watches (the first `sd_journal_get_fd()` or `sd_journal_wait()` adds them
and reads the directories again), the queue of events with its limit,
`process_inotify_event()`, and the invalidation counter behind
SD_JOURNAL_INVALIDATE. The daemon creates files, writes to them, renames and
deletes them between any two system calls of the reader, and subdirectories come
and go: opendir() (`AddDirectory`), inotify_add_watch() (`WatchDirectory`), readdir()
with the open() of the file it names (`ReadEntry`) and the reading of an event are
steps of their own. A watch may fail; the code does not look at that (`m->wd`
becomes -1, lines 1451 and 1529) and the directory stays unwatched. Files carry
inode numbers, by which the properties tell a file from another one of the same
name.

Assumed of the system: readdir() returns every name that is there from its first
call to its last, and any of those that come in between. On Linux opendir() reads
nothing, the first getdents(2) is made by the first readdir(), hence after the
watch; POSIX would let opendir() read the directory, and then a file made between
opendir() and inotify_add_watch() could be missed. A subdirectory is not removed
while the reader has it open. Setting up a file and the event of it are one step;
later stores through the mapping raise no event, and `Write` stands for the
ftruncate() of `journal_file_post_change()` as well, which does.

### RateLimit

`journal_rate_limit_test()` as four disjoint cases per message, and the
conditions of `server_dispatch_message()` before it. Time is in ticks, free
space is its log2. The product `burst * (k-20)` is not reduced modulo 2^32: that
takes a burst of 10^8. For 2 MB to 16 MB of free space (k from 21 to 23) the code's
`(k-20)/4` makes the burst smaller than RateLimitBurst=, where the table in its
comment has no factor below 1; `BurstModulate` is the code. Messages without credentials bypass the limiter and are
not sent by this model.

### Journald (with MCJournald)

The server, the main loop, the life cycle of files. `disk` maps names to files
(state, entries, how many are surely on disk, which states may be on disk,
seqnum_id, tail, the second of the first entry). `open` is the journals of
`Server`: `runtime_journal`, `system_journal` and `user_journals`, the last in
the order of their opening. A handler is a list of tasks, `todo`: a message is
`write`, then `turn`; a rotation is one `rename` and one `create` task per open
journal; a sync is one `set_offline` task per journal of /var, which turns into
fsync, state change, fsync if the file is online; a flush opens the journals
(`open_system`, `open_runtime`, `space`, as at the start), then copies entry by
entry. Tasks call the
operators that stand for the functions of the code (`FindJournal`,
`OpenReliably`, `SetOffline`, ...), and every call that can fail has a
disjunct in which it does. Between two tasks `Kill` ends the daemon and
`PowerLoss` the machine: /run is empty afterwards, every file of /var keeps its
synced entries and, file by file, the others or not, and any state it had since
its last fsync. `Start` runs `main()` again on what is left.

What the model leaves out or simplifies:
- a rename is durable at once, and unsynced entries of a file are lost all or none;
- `journal_file_open()` of a new file is one task: a crash inside it is covered
  only by its failing half-way and leaving a file without hash tables;
- vacuuming is any choice of the `.journal~` files: the working directory is taken
  to be another than the journal directory. If it is the journal directory,
  archives and an empty active file are deleted as well, which only Vacuum has,
  with the real choice;
- an error that `sd_journal_open_directory()` or `sd_journal_next()` passes over
  takes whole files out of a flush (`PassedOver`), at its beginning or before any
  entry; they are deleted with the others, as in the code. Any set of files may be
  hit by one such error;
- the retention branch of `main()` (in Vacuum), and several events in one turn
  (in Intake);
- sequence numbers skipped by an append that fails before its entry is visible;
- the daemon's own messages have number 0 and count in no property;
- the clock counts seconds, for CLOCK_MONOTONIC and, with BootTime added, for
  CLOCK_REALTIME; both clocks never go backwards;
- `sd_journal_next()` yields entries by (source, number), sources by age, which
  is what `compare_entry_order()` makes of files of one boot.

### Vacuum (with MCVacuum)

`journal_directory_vacuum()` over the files of the two directories: which ones it
opens (`scope.here`: whether the working directory, which `run_user()` makes the
home of the daemon's user, is the journal directory), the empty ones it deletes
at once, the order of `vacuum_compare()`, the deletion by size and age, deletions
that fail, `journal_default_metrics()` with its limits scaled down, and
`oldest_file_usec`. Around it the server's rotation, flush and restart, the
remembered free space, and the loop of `main()` with its retention branch. The
wall clock may be set back. A flush measures the free space before it copies, and
its entries make the system journal larger; that the copying fills the system
journal and rotates is in Journald only. Names of files are taken to be stable,
though the code keeps pointers into the buffer of readdir() (lines 190 and 210 of
`journal-vacuum.c`), and an error of `journal_file_empty()`, which counts as empty
and deletes the file, is not modelled.

### KernelLog, Protocols, Intake (with MCIntake)

*KernelLog*: the kernel's ring of numbered records, the descriptor that is at one
of them, EPIPE after an overrun, `kseqnum`, the "Missed" message, and the file that keeps the number from an orderly end to the
next start; a kill loses it, and so does a file that cannot be written. History:
an *epoch* is the time between two such losses. Not modelled: EINVAL (old kernels)
and other errors of the read, malformed records, and a start at which the number
cannot be loaded or the device cannot be opened.

*Protocols*: pure functions over tokens (a name, a word, a separator, a length):
`sd_journal_sendv()` and `sd_journal_printv()`, which frame fields, and the
parsers of `journald-native.c` and `journald-syslog.c`. The checks of sizes against
DATA_SIZE_MAX and ENTRY_SIZE_MAX (`journald-native.c` 161-164, 277-280, 318-322) are
left out: a token has no size.

*Intake*: both sockets and the kernel's log as sources of one event loop:
`epoll_wait()` returns a batch, its callbacks run one by one, a datagram callback
takes datagrams until the socket is empty. Clients and the kernel go on
meanwhile; the daemon is stopped, killed and started again.

Left out: clients' entries without fields, several entries in one datagram of
which the first has no field `_TRANSPORT` yet, messages that the rate limiter
drops, writing to files, the console.

## 3. What the runs check

Deadlock is not checked anywhere: each model ends where its bounds are used up,
and a daemon without events, a file without writers, rightly stop.

| run | instance | shows |
|---|---|---|
| entry_search | the writer and the reader of EntryIndex and EntrySearch; of the writer: 2 data objects, 4 entries with 1 or 2 fields, arrays from 1 item | chains of up to three arrays, growth in every chain and failure of each allocation: `CountedItemsSet`, `ChainsSorted`, `IndexSound`, `IndexComplete`, `VerifyAccepts`, `AppendOnly` |
| | of both: seeks over 5 entries, steps and skips over 4, the seek in two chains over 3; arrays of 1, 2, 8 items, cache of 1 item | `SearchExact` (seeks, steps, skips), `SearchSafe` (no assertion fails, the cache stays true), `SeekBothExact`, and `OperationEnds` under fairness: eviction happens with two chains, cached positions are met in both directions and while the chain grows |
| journal_file | 3 payloads of 2 fields, two of them with one hash and all in one bucket, 3 entries; refused space, or a failing mapping and a kill | `LookupExact`, `EnumerateExact`, `EntriesExact`, `ObjectsVerify` |
| mmap_cache | 2 contexts, 2 descriptors, 4 windows, regions smaller and larger than a window, a file that grows | `ListsAgree`, `RegionsBacked`: windows are shared, given up, taken again, unmapped for others |
| hashmap | 2 maps, 3 tiles, 3 keys that collide in 2 buckets | `LoopOnTrack` (with `ListsWellFormed`), `ImplementsOrderedMap` |
| journal_reader | seven scopes: 2 files of one or two servers, 2 or 3 messages, one or two boots, up to 3 matches, a damaged file; the values of a field with three values in 3 files, and in 2 of which one is damaged | `PointsToEntry`, `NextExact`, `UniqueExact` |
| journal_watch | a directory with a subdirectory and 2 names; 6 operations of the daemon, 5 with a failing watch, 4 with a queue of 2 events and a limit of 1 file, 4 with a damaged file | `FilesCurrent`, `InvalidateTold` |
| follow_rotation | the same | a violation, below |
| rate_limit | 5 messages, 2 pools, 4 ticks, an interval of 1, three levels of free space (1 MB: the burst itself; 2 MB: a reduced one; 16 MB: the burst again) | `DropsJustified`, `RateBounded`, `SuppressedReported`: three consecutive windows are possible |
| burst_reduced | the same with 1 MB and 2 MB of free space | a violation, below |
| journald | eight scopes: a crash with CRIT messages of 2 users and room for 1 open user journal, with a rotation by signal, with one inside a write; 2 messages and 2 signals around a failing call; 2 failing calls around a restart; 2 with a message; one while the clock moves; a crash and a failing call. Users are symmetric | `ServerTypeOK`, `SeqnumsIncrease`, `OfflineIntact`, `NothingLost`, `CritDurable`, `OrderKept` |
| vacuum | five directories found at start (archives, renamed files, clocks set back), both configurations of the working directory, 1 or 2 messages, signals, restarts, failing deletions | `RetentionKept`, `OldestDeletedFirst`, `NoSpin`, `SpaceFresh` |
| intake | 4 kernel messages in a ring of 2 with kills, stops and failing writes; 3 datagrams of 5 kinds; both | `KernelOnce`, `KernelMissesTold`, `MessagesAsSent`, and `Served` under fairness |

The bounds are small because each hazard needs few steps: two messages make an
order, two chains evict from a cache of one, three arrays make a middle one, two
files make a merge, a ring of two overruns with three messages, two failures
reach the paths that handle the failure of the handling of a failure. `Journald`
with everything at once is too large (more than 17 million states with one of
each), so each scope combines the faults its question is about.

**Views and symmetry.** `VIEW` in hashmap, journal_reader and vacuum leaves out a
variable that names the last step, which no guard reads; their properties about
steps are evaluated on every step that TLC generates. The users of Journald are
interchangeable.

**Fairness.** `OperationEnds` assumes weak fairness of the reader's own steps: a
reader that is scheduled goes on. Nothing is assumed of the writer, which is
bounded by MaxEntries, so that termination while the file grows for ever is not
claimed. `Served` assumes weak fairness of the daemon's steps together, its
restart included (the service manager starts it again): nothing about which
source is served first. That is enough because a batch of `epoll_wait()` contains
every source that is ready and `process_datagram()` stops at an empty socket;
clients and the kernel are bounded, so a client that sends faster than the
daemon reads, for ever, is outside the claim (the code has no limit per turn, so
such a client would starve the others).

**Where code and documentation differ.** `follow_rotation` ends in a violation
of what a manual page states: the root directory is watched without
IN_MOVED_FROM, which `process_inotify_event()` handles and subdirectories are
watched with; the renamed file stays in the reader's table under its old path and
the new file of that path is never opened. `FilesCurrent` exempts it.
`burst_reduced` violates what `man/journald.conf.xml:115-119` and the table at
`journald-rate-limit.c:96-105` say: messages are dropped only beyond RateLimitBurst=.
From 2 MB to 16 MB of free space `burst_modulate()` grants a quarter to three
quarters of it. `DropsJustified` demands of all other amounts of free space that
the configured burst was used up, and of these only the burst that was granted.

Exceptions that properties name, because the code really behaves like this:
- `SearchExact`: looking upwards past the last item of a chain whose arrays are
  exactly full, `generic_array_bisect()` leaves its loop (`k > n` fails for
  `k = n`) and reports nothing, or the first entry, where the comment at
  `lib/journal-file.c:1667` has "return the last one of that";
- `OrderKept`: a flush that fails half-way keeps the runtime files, which the
  next one appends again behind newer messages, though `find_journal()` says that
  messages go to the runtime file "to guarantee proper order". Likewise a rotation
  that cannot create the new runtime file closes the runtime journal and leaves
  its entries in /run, newer messages go to /var, and a flush that opens the
  runtime journal again copies the older ones behind them; and so it is if a
  runtime journal found at the start cannot be opened while the system journal can.
  The history variable `faults` marks the three, and the property is about
  behaviours without them;
- `CritDurable`: `server_schedule_sync()` compares the priority with its facility
  bits, so that only kernel messages and those without a facility count as CRIT;
  `man/journald.conf.xml:295` says that syncing is done "unconditionally";
- `NextExact`: after the direction was changed twice, `sd_journal_next()` goes on
  from a stale place (`last_direction` agrees again) and skips entries; a seek by
  monotonic time reads a file that does not know the boot from its end (the FIXME
  of `find_location_for_match()`);
- `UniqueExact`: a value logged meanwhile into a file already walked is passed
  over, the removal of a file repeats values, and the value at which a call
  returns an error is lost, as the next call goes on behind it;
- `EntriesExact`: a data object whose field could not be allocated is never
  listed by its field, later appends included, unless the file is rotated;
  `ObjectsVerify`: a mapping that fails inside a link leaves a file that the
  verifier rejects;
- `VerifyAccepts`: an entry that carries one field twice, and an append that
  failed for lack of space (the usual reason of a rotation), leave files that
  `journal_file_verify()` rejects; so does a file without entries;
- `FilesCurrent`: a file replaced between the opening of the journal and the
  first `sd_journal_get_fd()` stays open as the old inode; a lost event is never
  made up for (the overflow of the queue is ignored); of a directory whose watch
  could not be added, or all directories if it was the root's, new files are not
  seen; a subdirectory removed and made again while it is read is not watched;
- `NothingLost`: files deleted by the vacuuming, or replaced by a rename: an
  archive is named after the second of its first entry, and entries copied by a
  flush carry their old times, so that two archives can have the same name. And
  messages of runtime files that a flush could not open or read: sd-journal passes
  over such a file without an error (`lib/sd-journal.c` 925-931, 1354-1357), and
  `server_flush_to_var()` removes the directory (line 684). A message that the flush
  did read has to be in /var;
- `SpaceFresh`: in the first half minute of a boot a remembered value never looks
  stale; `RetentionKept` and `OldestDeletedFirst`: after a clock was set back,
  `vacuum_compare()` is not transitive; and an idle daemon keeps files beyond the
  retention time, since `t` of `main()` is computed and not used;
- `KernelOnce`: after a kill, messages are read and stored again and stored ones
  may be reported as missed ("Make sure we never read this one again" holds while
  the daemon runs).

Other observations made while modelling, visible in the definitions named:
- `Turn`: the periodic sync compares `sync_time + sync_interval > n`, the wrong way
  round and with two different clocks, after an `epoll_wait()` without a timeout;
  on a machine whose clock is set it never happens (`man/journald.conf.xml:292`);
- `Pools`, `ZeroSetting`, `BurstModulate`: the rate limit is per priority class, not
  per service as the manual says; a setting of 0 selects the defaults where the
  manual says that it turns the limit off; the factor of the burst is (k-20)/4
  where the table in the comment has (k-16)/4, so that it is below 1 up to 16 MB of
  free space and one less than the table's above;
- `RotateCreate`: the state becomes archived before the file is closed, and
  `journal_file_set_offline()` then does nothing: a rotated file is closed
  without fsync();
- `FlushFaults`: a rotation inside a flush that cannot create its new file leaves a
  NULL pointer, which `journal_file_post_change()` or `journal_file_close()` at the
  label `finish` then uses;
- Vacuum: unless the working directory is the journal directory, archived
  `.journal` files are never opened and never deleted, whatever SystemMaxUse says;
  if it is, the empty file a rotation has just created counts as empty and is
  unlinked though it is active ("We do not vacuum active files"), and an error of
  `journal_file_empty()` counts as empty as well;
- `ContextAttach`: `context_attach_window()` clears `unused_prev` before it reads it,
  so that the last unused window is forgotten and windows are mapped anew where
  one could be taken;
- `Matches`: the decompression in `journal_file_find_data_object_with_hash()`
  ignores its failure; objects are compressed only with XZ, so LZ4 never is used;
- `Protocols`: binary fields do not count for the priority or for forwarding;
  `PRIORITY=8` and `=9` are accepted; a name that begins with `#` and a value with a
  newline do not survive the framing; EMSGSIZE, ENOBUFS and ENOENT count as
  success for the client, whose message is lost.

## 4. What is proved

The theorems are about every value of the constants and every length of a
behaviour; `PROJECT.json` lists them. Each of the inductive invariants was first
checked by TLC on the instance of the component's run.

**Recursion** (lemmas only). The library's induction theorems take an operator as
parameter, which the provers cannot instantiate. `Induction` and
`IntervalInduction` are stated with a set in its place and proved from the
well-foundedness of the natural numbers. From them follow: a recursive function
exists and obeys its equations (`Iteration`), the sum of a sequence with one more
element (`SumAppend`), and what taking an element out of a list does. This is
what makes sums over the history, and the loop of `fd_free()`, provable.

**EntryIndexProofs** (for any set of data objects, any least capacity, any
number of entries): `TypeCorrect`, `ShapeCorrect`, `CountedCorrect`,
`SortedCorrect`, `SoundCorrect`, `CompleteCorrect`, `VerifierAlwaysAccepts`,
`AppendOnlyCorrect`: the properties of the writer in the run `entry_search`, and the two they rest on, `IndexTypeOK` and
`ChainShape`. From `IndexAssumption` only.

The argument sees a chain of arrays as one long vector. `Shape` says that the
arrays lie end to end, that earlier arrays end before later ones start, and that
every index below the capacity lies in some array; with it `StoreItemLemma`
shows what storing at an index does to the vector: that index changes, no other
does, and the shape stays. None of the properties is inductive alone. `IndexInv`
joins to them that every chain is in `Shape` and has capacity for its counter
(`ChainsInShape`), that an item stored and not yet counted is the current entry
(`Pending`), that the counted items are entries older than or equal to the
current one (`ItemsAreEntries`), and that the header is linked first
(`HeaderFirst`): without `Pending` the step that raises the counter could publish
anything, and without the bound by the current entry a new item need not be the
largest. `IndexComplete` needs one more conjunct, `LinkedSoFar`: the items of
the current entry before the one at work are linked. `VerifierAlwaysAccepts` is
about the verifier as a whole (`VerifyAccepts`), which asks for more than the
index properties. `VerifyInv` adds to them: the main chain has all entries as long
as no linking failed (`CountsAll`); a data object has a first entry and a first
array no earlier than its counter says (`NothingSpare`), which holds after a failed
append, too, since nothing is stored before the array is there; and an entry is in
a chain twice only if it has the object twice (`TwiceIfRepeated`), because the
writer's loop has linked it no further than it has come (`NoneAhead`).

The same module proves of **EntrySearch**, for any size of the chain cache and any
interleaving of the reader with the writer: `SearchesAreExact`, `SearchesAreSafe`
and `SeeksInBothAreExact`, the safety properties of the reader in that run, from
`IndexAssumption` and `SearchAssumption`. The inductive invariant is `SearchInv`
(theorem `SearchInvariant`): the writer's `IndexInv`, and

- `CacheInv`: a cached position is that of an array of its chain, with the number
  of items before it and its first item, and the remembered last index is that of
  a counted item; one position for a chain. It stays true as the chain grows
  because a chain only grows at its end;
- `BisectInv`, where a bisection is. `CounterRead`: the counter read is no larger
  than the present one, *and what the cache knows of the chain was counted before
  it*; this is why the counter has to be read before the cache is used and why
  `last_index` may be trusted. `HeadRead`: the first array was read after the
  counter, so a counter above the inline entry has an array. `InLoop`: nothing in
  the arrays passed is right of the needle, `t` and `n` divide the counted items,
  and the last item of the array before is known, or is not needed because an item
  further on is left of the needle, too. The shortcut through the cache needs the
  latter, for it enters the loop in the middle of a chain;
- one invariant per function called (`SeekInv`, `NextInv`, `SkipInv`, `BothInv`),
  stating what its bisections so far have established. `BothInv` carries that no
  entry of both chains lies before the offset searched for next, which is what
  lets the alternation of the two searches stop.

`Answer` says what a bisection may return: the nearest item, but for the case of a
full last array (`Full`, in the run's property `EndsInFullArray`), where the code
returns an item on the right side only. That the halving finds the border
(`Halve`) is an induction over the size of the range, with `Induction` of
Recursion. Every lemma comes in two kinds: what a step of the reader establishes,
and that a step of the writer between two of them takes nothing of it away
(`SeekStays`, `NextStays`, `SkipStays`, `BothStays`).

**JournaldProofs** (for any users, limit of open user journals,
messages, signals, failing system calls, kills and losses of power):
`ServerTypes`, `OfflineFilesIntact`, `SeqnumsAlwaysIncrease`, `NothingIsLost`, from
the inductive invariant `ServerInv` (theorem `ServerInvariant`). It begins with what
the operators on files and directories do: set online and offline, append,
rename, replace, cut by a loss of power. The parts of the invariant:

- `DiskOK`: of every file, that "offline" may be on disk only if all entries
  are, and that an online file is online on disk, too (`FileOK`); of two files
  with one seqnum_id, that at most one of them still grows and that it is above
  the other with its entries *and with its tail* (`Chained`). `SeqnumsIncrease`
  says nothing of files without entries, from whose tail the next number is
  made; and between the `rename` and the `create` of a rotation the growing file
  is the archived one (`Pending`), since the new file takes its tail and source
  from it.
- `OpenOK`: an open journal has its active file, except in that gap.
- `TodoOK`: which tasks may wait behind which (`MayPrecede`: a `create` comes right
  after its `rename`, a `recopy` waits only for a rotation), what the first task
  may rely on (`FirstOK`: before the state is set offline everything is synced;
  a flush that finishes without an error has copied everything), and what each
  waiting task does (`TaskOK`: a write that is about to return has stored its
  message).
- `FlushOK`: as long as no error occurred, every message of a runtime file is
  still to be copied, or was passed over because it could not be read (`Accounted`),
  or is in a file of /var, or known to be gone. Without it the
  removal of the runtime files at the end of a flush could lose messages that it
  did read. It has
  to survive a rotation of all files in the middle of the flush, and messages
  that a rename replaces.
- `AckOK`: `NothingLost`, with the numbers of messages in range.

Its last part has `SevereAreDurable`: a severe message
is on disk when its write returns, and stays there whatever happens to the
daemon and the machine, until its file is deleted. `CritDurable` is about messages
acknowledged; `SyncInv` (`SyncInvariant`) adds what holds of the others on the way
there. `ReturnsOK`: before the return of a write there are only tasks of its own
sync, so that nothing can rotate, close or append in between; a severe message
is on disk already, or in the active file of a journal that is open when
`server_sync()` begins, or whose `set_offline` is still to come. This rests on a
fact about numbers: `server_sync()` does nothing unless `s->seqnum` has grown since
the last one, which the append that has just succeeded guarantees (`SyncedOK` and
`EntrySeqnumNew`); and on one of `FileOK`: a journal in use that is not online has
all its entries on disk, so that skipping it is right. The rest of the proof is
that no step takes from the disk what was synced without noting it in `gone`
(`Preserves`): an append, a change of state and an fsync() keep the synced
entries, a rename moves them, a loss of power cuts behind them.

Its last part has `OrderIsKept` (`OrderKept`): the entries of one source are in the
order in which their messages arrived, whatever rotations, flushes, signals,
failing calls and orderly restarts come between. The property is about
files alone and far from inductive; `OrderInv` (`OrderInvariant`) adds, for
behaviours without a crash, a flush given up, a runtime journal given up or one
that cannot be opened:

- `RuntimeInUse`: all entries in /run are of one source, that of the runtime
  journal in use (or, between `rename` and `create`, of its predecessor), and
  that file can be opened. A second source in /run would be copied in the
  order of the sources instead of that of the messages;
- entries are in /run with no runtime journal open only while the daemon starts
  (`Starting`) or is down: otherwise `find_journal()` would send newer messages to
  /var;
- `CopyInOrder`: what a flush has still to copy, or would have to, is younger than
  all of /var, and its numbers have the order of the messages, so that the entry
  with the least number (`NextLeftLeast`) may be copied next;
- `DirInOrder`: the property, and that a source is in one directory and journal
  only, so that an append to /var is behind all of /var;
- `BoundsOK`: no entry is of a message that has not come yet, and the write at
  work is of the last one (`WritesLast`), which makes an append keep the order.

Most steps add no entries; `Descends` says that every file has an ancestor with
its journal, source and entries, and `DescentOrder` that this keeps the order. What
is left are the append of a write (`AppendOrder`) and the copying of an entry
(`CopyOrder`), whether it succeeds, fails or is repeated after a rotation in the
middle of the flush.

Trying to prove `OrderKept` without the second exception above failed at the
rotation that gives up the runtime journal, which the bounds of the run do not
reach together with a later flush; the property now names it.

There is one lemma per task and, under it, one step per part. `JournaldAssumption`
says that users are none of the other names, that the limit is a number above 0
and that the bounds of a scope are numbers, of any size.

**MMapCacheProofs** (for any contexts, descriptors, number and size of windows,
requests and failures of mmap()): `ListsAlwaysAgree` and `RegionsAlwaysBacked`, from
`MMapInv` (`CacheInvariant`). A call is a chain of operators on the cache, so the
lists are treated as a predicate of a cache, `Agree(m, X)`, with X the window that
is being set up and that the lists need not agree about; each operator has a
lemma from `Agree` to `Agree`. `RegionsBacked` needs that a context's pointer is in
the window that the context holds and that a kept pointer is in a window marked
keep_always (`HeldBacked`, `KeptBacked`): it is by these two that a window with a
pointer to it is never on the unused list. `Mapped` says that all windows of a
descriptor map the file that is behind it now, which is why
`mmap_cache_close_fd()` has to come before the number is used again. The removal
of all windows of a descriptor is an induction over the loop.

**IntakeProofs** (for any log of the kernel, size of its ring, order of reads,
overruns, stops, kills and failing saves): `KernelStoredOnce` and
`KernelMissesAreTold`, from `KernelInv` (`KernelInvariant`). `Told` says that the journal
and the numbers left out for their level account for all numbers from the
beginning of the epoch up to the one expected next, and that the ones stored are
below it; the last conjunct, that the descriptor is not ahead of the expected
number unless the kernel has forgotten what is between, is what makes a message
told as missed really missed. The theorems are about the specification of
Intake, in which the sockets are served in between.

**JournalWatchProofs** (for any names and subdirectories, any number of changes of
the directories, any length of the event queue, and every interleaving with the
reader's system calls): `FilesAlwaysCurrent` and `ChangesAreTold`, from `WatchInv`
(`WatchInvariant`). `FilesCurrent` speaks of a reader that has read its events; in
between, the invariant says where each difference between the open files and
those that exist is still to be found:

- `TreeOK`, `WatchesOK`: inodes are not shared, a watch and its directory name each
  other, and a watch that outlives its directory is of that inode only (`Fits`); a
  directory between its opendir() and its inotify_add_watch() is not found again by
  a reading under way (`OpeningOK`); one whose watch failed has none (`FailedOK`); the
  root is watched, about to be, or its watch failed (`WantedOK`).
- `QueueOK`: a directory's last event is that it is gone, and its inode is not used
  again: a late event cannot be taken for one of a new directory of that name.
- `ScanOK`: only the reading of the root finds subdirectories, and those that it
  is still to return are not watched yet.
- `StaleOK`, `GoneOK`: an open file that is not the one of its name, and a watched
  directory that is gone, have the event that says so still in the queue.
- `UnwatchedOK`, `MissingOK`: a directory not watched and a file not open will be
  returned by the reading under way or named by an event, *and by one that comes
  after every event that makes the reader forget it*. Without the order neither
  is inductive: an old deletion would be read last. Both except directories whose
  watch, or the root's, failed; a directory opened and not yet watched is about to
  be read, so that what is made in that gap is still to be returned.
- `ToldOK`: what was told last is what is open, unless a change is noted.

The queue is a sequence, and a step of the daemon adds one or two events, merged
with the last if equal, or loses them when the queue is full (`DidFollows`). There
is one lemma per system call and per event. From `WatchAssumption`: the root is no
subdirectory, files and subdirectories have different names, and none of them is
the word that stands for no name.

**JournalFileProofs** (for any payloads, hashes with any collisions, sizes of the
tables, entries, refusals of space, failing mappings, and a death of the writer
after any store, with a reader that takes no lock): `LookupsAreExact`,
`EnumerationsAreExact`, `EntriesAreExact` and `ObjectsAlwaysVerify`, all properties of
the run `journal_file`, from `FileInv` (`FileInvariant`). The properties speak of what
a walk over pointers visits. The invariant does not: it calls an object *linked*
if a head or a next_hash_offset points to it and *listed* if a head_data_offset or
next_field_offset does, and says of each single pointer where it leads:

- `HeadsOK`, `NextOK`: the head of a bucket is its first linked object in the order
  of the file, and each object leads to the next one; `TailsOK`: the tail is the
  last, except between the two stores that link an object.
- `ListsOK`: a field leads to its last listed object and each of them to the one
  before; a listed object has a field object that is linked. Between the two last
  stores of `journal_file_append_data()` the new object and its field lead to the
  same object, which is why the first of the two lists nothing and unlists nothing.
- `UniqueOK`, and of the object at work `Fresh`: it has no equal and lies behind all
  others, which makes linking it at the tail keep the order.
- `ListedOK`: a linked data object is listed, or at work, or an orphan. An object
  that a later entry finds by its payload is thus never one half made.
- `WalkOK`, `ListOK`: the object that the reader will find is at or after its place
  in the bucket, and what is left of a field's values at or before it in the list.

`WalkVisits` joins the two views, once for both kinds of chain: if a set of objects
has a rank and each one leads to the one with the next higher rank, a walk from
the first visits exactly the set (an induction over the walk, by `Recursion`). There
is a lemma for each store: what it does to *linked* and *listed*
(`AppendObjectExtends`, `JoinedLinks`, `SameLinks`), and from that the invariant.
`Grows` collects what every step of the writer does for the reader and for entries
stored: nothing is unlinked, unlisted or changed. From `JournalFileAssumption`:
hashes are numbers and no table is empty.

**RateLimitProofs** (for any configuration, clock and course of free space):
`DropsAreJustified`, `RateIsBounded` and `SuppressedAreReported`. A drop is measured by
the burst that the code grants at the moment and, outside 2 MB to 16 MB of free
space, by the configured one, too, which the granted one is then not below. `LimitInv` relates
each pool to the history: `num` is the number of messages passed since the
window's begin, and every message of the pool before the window is in an earlier
one that ended. `StretchBound` is the combinatorial core: a stretch of one
interval meets at most two windows, and if it meets two it misses the opening
message of the first. `SuppressedAreReported` is an equation between a
cardinality and a sum over the log; each call changes both by as much.

**Only model-checked:**
- liveness (`OperationEnds`, `Served`): fairness and ENABLED are out of
  the prover's reach;
- Hashmap with its refinement of OrderedMap, JournalReader and Vacuum: pointer
  structures, merges and a sort whose properties compare with a reference
  definition; reachability over chains of pointers would have to be proved by
  induction over each chain;
- `MessagesAsSent`: what is stored is compared with a selection of what was sent,
  with `SelectSeq`, of which the provers have neither a definition nor rules.

**Next to prove**: `RetentionKept` and `OldestDeletedFirst` of Vacuum, whose
RECURSIVE operators have to become recursive functions first.

## 5. Not modelled

- *Compression and the hash functions*: third-party arithmetic on which no
  property depends; hashes are constants with collisions.
- *journalctl, logs-show, pager, console forwarding*: command lines and
  formatting, one write per message, without state.
- *Configuration parser*: text to values that are constants here.
- *Daemon environment, shared utilities*: thin wrappers of system calls, string
  and time helpers. What a call of them can return is in the modules that use it.
- *Metadata of messages* (`dispatch_message_real()`): reads of /proc into fields
  that no other code looks at.
- *Verifier*: order of timestamps and sequence numbers, alignment, sizes.
- *Reader*: disk usage, a sum over the files; failing allocations of
  `sd_journal_add_match()`, which leave the levels of the tree half built.
