------------------------------ MODULE Journald ------------------------------
(***************************************************************************)
(* The server (core/journald-server.c, journald/journald.c) and the files  *)
(* it writes (the life cycle part of lib/journal-file.c): which journal a  *)
(* message goes to, rotation and the second attempt when an append fails,  *)
(* the flush of the runtime journal to /var, synchronisation to disk, and  *)
(* what a restart makes of the files it finds after the daemon was stopped *)
(* or killed or the machine lost power.                                    *)
(*                                                                         *)
(* The daemon has one thread.  A handler of its event loop is a sequence   *)
(* of tasks, done one by one; between two tasks the daemon may be killed   *)
(* and the machine may lose power.  The rate limiter, in front of all      *)
(* this, is in RateLimit; the inside of a file is in EntryIndex, of which  *)
(* one fact is used here: an append that fails may leave its entry visible.*)
(***************************************************************************)
EXTENDS Integers, Sequences, FiniteSets, ListOps

CONSTANTS
    Users,              \* the uids above SYSTEM_UID_MAX, which get a journal
    USER_JOURNALS_MAX,  \* 1024 in the source
    SyncInterval,       \* s->sync_interval_usec
    BootTime,           \* CLOCK_REALTIME when CLOCK_MONOTONIC was 0
    Scopes              \* bound: what a run explores together (see scope)

ASSUME JournaldAssumption ==
    /\ Users \cap {"runtime", "system", "root"} = {}
    /\ USER_JOURNALS_MAX \in Nat \ {0}
    /\ {SyncInterval, BootTime} \subseteq Nat
    /\ \A s \in Scopes :
         /\ s.users \subseteq Users /\ s.level \in Nat
         /\ {s.time, s.messages, s.signals, s.rotations, s.failures, s.crashes}
              \subseteq Nat

VARIABLES
    disk,       \* the files: a function from names to contents
    flushed,    \* does /run/journal/flushed exist?
    up,         \* is the daemon running?
    open,       \* s->runtime_journal, s->system_journal, s->user_journals
    nocreate,   \* was the runtime journal opened without O_CREAT?
    todo,       \* the tasks of the handler at work, the next one first
    flush,      \* server_flush_to_var(): entries left to copy, r < 0, and the
                \* messages of the files that could not be read
    seqnum,     \* s->seqnum
    sync,       \* s->sync_seqnum and s->sync_time
    loop,       \* n of main(): the time at which the loop turned
    clock,      \* CLOCK_MONOTONIC, in seconds
    ids,        \* file ids generated so far
    msgs,       \* history: the messages accepted for storing
    acked,      \* history: those that write_to_journal() stored, and where
    gone,       \* history: those no file has any more, and why
    faults,     \* history: failed assertions; flushes and runtime journals given
                \* up, and runtime journals that could not be opened
    used,       \* how much of the bounds is used up
    scope       \* bound: the users that send messages and the priority of these,
                \* facility included; how many seconds, messages, signals,
                \* rotations suggested by a file's header, failing system calls
                \* and crashes there are

serverVars == <<disk, flushed, up, open, nocreate, todo, flush, seqnum, sync,
                loop, clock, ids, msgs, acked, gone, faults, used, scope>>

-----------------------------------------------------------------------------
(* Files                                                                   *)

Runtime == "runtime"

System == "system"

Locs == {Runtime, System} \cup Users

\* A name: of the journal loc in use, of one archived by a rotation, or of one
\* put aside as corrupted (".journal~").  The last two carry a second.
Name(loc, kind, at) == [loc |-> loc, kind |-> kind, at |-> at]

Active(loc) == Name(loc, "active", 0)

InVar(name) == name.loc # Runtime

\* A file: header.state, the states that may be on disk after a loss of power
\* (those set since the last fsync), the entries, how many of them are on disk
\* for certain, seqnum_id, tail_entry_seqnum, head_entry_realtime, and whether
\* its hash tables were set up.
NewFile(id, tail) ==
    [state |-> "online", ondisk |-> {"online"}, entries |-> <<>>, synced |-> 0,
     seqid |-> id, tail |-> tail, head |-> 0, tables |-> TRUE]

Fsync(f) == [f EXCEPT !.synced = Len(f.entries), !.ondisk = {f.state}]

SetState(f, state) == [f EXCEPT !.state = state, !.ondisk = @ \cup {state}]

\* Mutant of SetOnline: the new state is not synced.
SetOnlineUnsynced(f) == IF f.state = "offline" THEN SetState(f, "online") ELSE f

SetOnline(f) == IF f.state = "offline" THEN Fsync(SetState(f, "online")) ELSE f

SetOffline(f) ==
    IF f.state = "online" THEN Fsync(SetState(Fsync(f), "offline")) ELSE f

With(dir, name, f) ==
    [x \in DOMAIN dir \cup {name} |-> IF x = name THEN f ELSE dir[x]]

Without(dir, names) == [x \in DOMAIN dir \ names |-> dir[x]]

\* rename(): a file of that name is replaced.
Renamed(dir, from, to) == With(Without(dir, {from}), to, dir[from])

\* The messages found in the files names of a disk.
Ids(dir, names) ==
    UNION {{dir[x].entries[i].id : i \in DOMAIN dir[x].entries} : x \in names}

\* The messages whose file a change of the disk deletes or replaces.
Deleted(dir) ==
    [id  : Ids(disk, {x \in DOMAIN disk :
                        x.kind # "active" /\ (x \notin DOMAIN dir \/ dir[x] # disk[x])}),
     why : {"deleted"}]

-----------------------------------------------------------------------------
(* Opening files                                                           *)

\* No journal is open; the users' are kept in the order of their opening.
NoJournals == [runtime |-> FALSE, system |-> FALSE, users |-> <<>>]

IsOpen(loc) ==
    \/ loc = Runtime /\ open.runtime
    \/ loc = System /\ open.system
    \/ \E i \in DOMAIN open.users : open.users[i] = loc

\* The journals that are open once loc, which is open now, is closed.
Shut(loc) ==
    CASE loc = Runtime -> [open EXCEPT !.runtime = FALSE]
      [] loc = System  -> [open EXCEPT !.system = FALSE]
      [] loc \in Users -> [open EXCEPT !.users = Unlinked(@, loc)]

\* journal_file_open() for writing refuses a file that is online ("unclean
\* closing") or archived.
Refused(dir, loc) == Active(loc) \in DOMAIN dir /\ dir[Active(loc)].state # "offline"

\* journal_file_open_reliably() renames such a file.
PutAside(dir, loc) ==
    IF Refused(dir, loc)
    THEN Renamed(dir, Active(loc), Name(loc, "corrupted", clock))
    ELSE dir

\* journal_file_open_reliably(): the files when it succeeds, ...
OpenReliably(dir, loc) ==
    LET aside == PutAside(dir, loc) IN
    With(aside, Active(loc),
         IF Active(loc) \in DOMAIN aside
         THEN Fsync(SetOnline(aside[Active(loc)]))
         ELSE NewFile(ids + 1, 0))

\* ... and when it fails: at once, after the renaming, or with a new file that
\* has no hash tables yet and is closed again.
OpenFailures(dir, loc) ==
    LET aside == PutAside(dir, loc)
        stub  == SetOffline([NewFile(ids + 1, 0) EXCEPT !.tables = FALSE])
    IN  {dir, aside} \cup
        (IF Active(loc) \in DOMAIN aside THEN {}
                                         ELSE {With(aside, Active(loc), stub)})

-----------------------------------------------------------------------------
(* Tasks                                                                   *)

Task(do) == [do |-> do, loc |-> "", id |-> 0, at |-> 0]

TaskOn(do, loc) == [Task(do) EXCEPT !.loc = loc]

TaskFor(do, id) == [Task(do) EXCEPT !.id = id]

Rest == Tail(todo)

Doing(do) == up /\ todo # <<>> /\ Head(todo).do = do

OnEach(do, locs) == [i \in DOMAIN locs |-> TaskOn(do, locs[i])]

\* server_rotate() and server_vacuum()
RotateAndVacuum == <<Task("rotate"), Task("vacuum")>>

Fails == used.failures < scope.failures

Failed == [used EXCEPT !.failures = @ + 1]

-----------------------------------------------------------------------------
(* write_to_journal()                                                      *)

Uid(id) == IF id = 0 THEN "root" ELSE msgs[id].uid

Priority(id) == IF id = 0 THEN 6 ELSE msgs[id].pri

\* Mutant of RuntimeOnly: the system journal is preferred once it is open.
RuntimeUntilSystem == IsOpen(Runtime) /\ ~IsOpen(System)

\* find_journal(): while the runtime journal is open all messages go there.
RuntimeOnly == IsOpen(Runtime)

\* Mutant of Full: off by one.
FullTooLate == Len(open.users) > USER_JOURNALS_MAX

\* find_journal(): a user journal is closed before another one is opened.
Full == Len(open.users) >= USER_JOURNALS_MAX

\* find_journal(): what it may return (loc, "" for NULL) and leave behind.
FindJournal(uid) ==
    LET fallback == IF IsOpen(System) THEN System ELSE ""
        first    == Head(open.users)
        dir      == IF Full THEN [disk EXCEPT ![Active(first)] = SetOffline(@)]
                            ELSE disk
        rest     == IF Full THEN [open EXCEPT !.users = Tail(@)] ELSE open
        Unchanged(loc) == {[loc |-> loc, disk |-> disk, open |-> open, used |-> used]}
    IN  CASE RuntimeOnly -> Unchanged(Runtime)
          [] ~RuntimeOnly /\ uid \notin Users -> Unchanged(fallback)
          [] ~RuntimeOnly /\ uid \in Users /\ IsOpen(uid) -> Unchanged(uid)
          [] ~RuntimeOnly /\ uid \in Users /\ ~IsOpen(uid) ->
               {[loc |-> uid, disk |-> OpenReliably(dir, uid),
                 open |-> [rest EXCEPT !.users = Append(@, uid)], used |-> used]}
               \cup {[loc |-> fallback, disk |-> d, open |-> rest, used |-> Failed] :
                       d \in {x \in OpenFailures(dir, uid) : Fails}}

\* journal_file_append_entry(), journal_file_copy_entry(): the file with one
\* more entry.
Appended(f, id, at, seq) ==
    [SetOnline(f) EXCEPT !.entries = Append(@, [id |-> id, at |-> at, seq |-> seq]),
                         !.tail = seq,
                         !.head = IF @ = 0 THEN at ELSE @]

\* journal_file_entry_seqnum()
EntrySeqnum(f) == IF seqnum > f.tail THEN seqnum + 1 ELSE f.tail + 1

\* One attempt to append message id to the journal that find_journal() has
\* returned as r.  An attempt that fails may leave its entry visible; a file
\* without hash tables fails with -EBADMSG.
Attempt(r, id, done, again) ==
    LET name == Active(r.loc)
        f    == r.disk[name]
        seq  == EntrySeqnum(f)
        g    == Appended(f, id, clock, seq)
    IN  \/ /\ f.tables
           /\ disk' = [r.disk EXCEPT ![name] = g]
           /\ seqnum' = seq
           /\ todo' = done
           /\ used' = r.used
        \/ /\ f.tables /\ r.used.failures < scope.failures
           /\ \E visible, retry \in BOOLEAN :
                /\ disk' = [r.disk EXCEPT ![name] = IF visible THEN g ELSE SetOnline(f)]
                /\ seqnum' = IF visible THEN seq ELSE seqnum
                /\ todo' = IF retry THEN again ELSE Rest
           /\ used' = [r.used EXCEPT !.failures = @ + 1]
        \/ /\ ~f.tables
           /\ disk' = r.disk
           /\ todo' = again
           /\ used' = r.used
           /\ UNCHANGED seqnum

\* server_schedule_sync() and the return of write_to_journal().
AfterAppend(id, loc) ==
    (IF Priority(id) <= 2 THEN <<Task("sync")>> ELSE <<>>)
      \o <<[TaskFor("return", id) EXCEPT !.loc = loc]>> \o Rest

\* The second attempt, after a rotation.
Retry(id) == RotateAndVacuum \o <<TaskFor("retry", id)>> \o Rest

Finding(r) ==
    /\ open' = r.open
    /\ ids' = IF r.disk = disk THEN ids ELSE ids + 1
    /\ UNCHANGED <<flushed, up, nocreate, flush, sync, loop, clock, msgs, acked,
                   faults>>

\* write_to_journal() up to the first attempt.  The rotation that
\* journal_file_rotate_suggested() asks for depends on the fill level of the
\* hash tables and the age of the file: it may happen once there is an entry.
Write ==
    /\ Doing("write")
    /\ LET id == Head(todo).id IN
       \E r \in FindJournal(Uid(id)) :
         /\ Finding(r)
         /\ gone' = gone \cup Deleted(r.disk)
         /\ \/ /\ r.loc = ""
               /\ disk' = r.disk /\ todo' = Rest /\ used' = r.used
               /\ UNCHANGED seqnum
            \/ r.loc # "" /\ Attempt(r, id, AfterAppend(id, r.loc), Retry(id))
            \/ /\ r.loc # "" /\ r.disk[Active(r.loc)].entries # <<>>
               /\ r.used.rotations < scope.rotations
               /\ disk' = r.disk
               /\ used' = [r.used EXCEPT !.rotations = @ + 1]
               /\ todo' = Retry(id)
               /\ UNCHANGED seqnum

\* The attempt after the rotation: a failure is logged and ignored.
WriteAgain ==
    /\ Doing("retry")
    /\ LET id == Head(todo).id IN
       \E r \in FindJournal(Uid(id)) :
         /\ Finding(r)
         /\ gone' = gone \cup Deleted(r.disk)
         /\ \/ /\ r.loc = ""
               /\ disk' = r.disk /\ todo' = Rest /\ used' = r.used
               /\ UNCHANGED seqnum
            \/ r.loc # "" /\ Attempt(r, id, AfterAppend(id, r.loc), Rest)

WriteReturns ==
    /\ Doing("return")
    /\ acked' = acked \cup [id : {Head(todo).id} \ {0}, loc : {Head(todo).loc}]
    /\ todo' = Rest
    /\ UNCHANGED <<disk, flushed, up, open, nocreate, flush, seqnum, sync, loop,
                   clock, ids, msgs, gone, faults, used>>

-----------------------------------------------------------------------------
(* Rotation, vacuuming, synchronisation                                    *)

\* Mutant of VarJournals: the users' journals are forgotten.
SystemJournal == IF open.system THEN <<System>> ELSE <<>>

\* The journals in /var that are open, in the order server_rotate() and
\* server_sync() go through them.
VarJournals == (IF open.system THEN <<System>> ELSE <<>>) \o open.users

OpenJournals == (IF open.runtime THEN <<Runtime>> ELSE <<>>) \o VarJournals

\* server_rotate(): the journals that are open, one after the other.
Rotate ==
    /\ Doing("rotate")
    /\ todo' = OnEach("rename", OpenJournals) \o Rest
    /\ UNCHANGED <<disk, flushed, up, open, nocreate, flush, seqnum, sync, loop,
                   clock, ids, msgs, acked, gone, faults, used>>

\* journal_file_rotate(), first half: the file gets the second of its first
\* entry as part of its name, and replaces a file that has the name.  If the
\* renaming fails the journal stays as it is.
RotateRename ==
    /\ Doing("rename")
    /\ LET loc  == Head(todo).loc
           at   == disk[Active(loc)].head
           dir  == Renamed(disk, Active(loc), Name(loc, "archived", at))
       IN  \/ /\ disk' = dir
              /\ gone' = gone \cup Deleted(dir)
              /\ todo' = <<[TaskOn("create", loc) EXCEPT !.at = at]>> \o Rest
              /\ UNCHANGED used
           \/ /\ Fails
              /\ todo' = Rest
              /\ used' = Failed
              /\ UNCHANGED <<disk, gone>>
    /\ UNCHANGED <<flushed, up, open, nocreate, flush, seqnum, sync, loop, clock,
                   ids, msgs, acked, faults>>

\* Mutant of RotateCreate: the new file does not continue the sequence numbers.
RotateCreateRestarts ==
    /\ Doing("create")
    /\ LET loc == Head(todo).loc
           old == Name(loc, "archived", Head(todo).at)
           dir == [disk EXCEPT ![old] = SetState(@, "archived")]
           new == NewFile(dir[old].seqid, 0)
       IN  /\ disk' = With(dir, Active(loc), new)
           /\ UNCHANGED <<open, used>>
    /\ todo' = Rest
    /\ UNCHANGED <<flushed, up, nocreate, flush, seqnum, sync, loop, clock, ids,
                   msgs, acked, gone, faults>>

\* Second half: the old file is marked, a new one continues its sequence
\* numbers, and the old one is closed, which syncs only a file that is online.
\* If the new file cannot be opened the journal is closed for good; a runtime
\* journal opened without O_CREAT never can.
RotateCreate ==
    /\ Doing("create")
    /\ LET loc == Head(todo).loc
           old == Name(loc, "archived", Head(todo).at)
           dir == [disk EXCEPT ![old] = SetOffline(SetState(@, "archived"))]
           new == NewFile(dir[old].seqid, dir[old].tail)
           GivenUp == /\ open' = Shut(loc)
                      /\ faults' = faults \cup (IF loc = Runtime THEN {"rotate"} ELSE {})
       IN  \/ /\ ~(loc = Runtime /\ nocreate)
              /\ disk' = With(dir, Active(loc), new)
              /\ UNCHANGED <<open, used, faults>>
           \/ /\ ~(loc = Runtime /\ nocreate) /\ Fails
              /\ disk' \in {dir, With(dir, Active(loc),
                                   SetOffline([new EXCEPT !.tables = FALSE]))}
              /\ used' = Failed
              /\ GivenUp
           \/ /\ loc = Runtime /\ nocreate
              /\ disk' = dir
              /\ GivenUp
              /\ UNCHANGED used
    /\ todo' = Rest
    /\ UNCHANGED <<flushed, up, nocreate, flush, seqnum, sync, loop, clock, ids,
                   msgs, acked, gone>>

\* server_vacuum().  journal_directory_vacuum() opens the ".journal" files by a
\* name relative to the working directory, and passes over them unless that is
\* the journal's own: this module is about a daemon with another one, module
\* Vacuum about both.  Which of the ".journal~" files are deleted depends on
\* their sizes and ages.
Vacuum ==
    /\ Doing("vacuum")
    /\ \E names \in SUBSET {x \in DOMAIN disk :
                              /\ x.kind = "corrupted"
                              /\ IF InVar(x) THEN IsOpen(System) ELSE IsOpen(Runtime)} :
         /\ disk' = Without(disk, names)
         /\ gone' = gone \cup Deleted(disk')
    /\ todo' = Rest
    /\ UNCHANGED <<flushed, up, open, nocreate, flush, seqnum, sync, loop, clock,
                   ids, msgs, acked, faults, used>>

\* server_sync()
Sync ==
    /\ Doing("sync")
    /\ todo' = (IF sync.seqnum >= seqnum THEN <<>>
                ELSE OnEach("set_offline", VarJournals) \o <<Task("synced")>>) \o Rest
    /\ UNCHANGED <<disk, flushed, up, open, nocreate, flush, seqnum, sync, loop,
                   clock, ids, msgs, acked, gone, faults, used>>

\* journal_file_set_offline(): a file that is online is synced, marked and
\* synced again.
SyncFile ==
    /\ LET loc  == Head(todo).loc
           name == Active(loc)
           Step(h, next) == /\ disk' = [disk EXCEPT ![name] = h]
                            /\ todo' = next \o Rest
       IN  \/ Doing("set_offline") /\
                IF disk[name].state = "online"
                THEN Step(Fsync(disk[name]), <<TaskOn("offline", loc)>>)
                ELSE UNCHANGED disk /\ todo' = Rest
           \/ Doing("offline") /\ Step(SetState(disk[name], "offline"), <<TaskOn("fsync", loc)>>)
           \/ Doing("fsync") /\ Step(Fsync(disk[name]), <<>>)
    /\ UNCHANGED <<flushed, up, open, nocreate, flush, seqnum, sync, loop, clock,
                   ids, msgs, acked, gone, faults, used>>

Synced ==
    /\ Doing("synced")
    /\ sync' = [seqnum |-> seqnum, time |-> clock]
    /\ todo' = Rest
    /\ UNCHANGED <<disk, flushed, up, open, nocreate, flush, seqnum, loop, clock,
                   ids, msgs, acked, gone, faults, used>>

\* The end of a turn of the main loop.
Turn ==
    /\ Doing("turn")
    /\ todo' = (IF sync.time + SyncInterval > loop THEN <<Task("sync")>> ELSE <<>>)
                 \o <<Task("loop")>> \o Rest
    /\ UNCHANGED <<disk, flushed, up, open, nocreate, flush, seqnum, sync, loop,
                   clock, ids, msgs, acked, gone, faults, used>>

\* The begin of the next one, which then waits for an event without a timeout.
Loop ==
    /\ Doing("loop")
    /\ todo' = Rest
    /\ loop' = BootTime + clock
    /\ UNCHANGED <<disk, flushed, up, open, nocreate, flush, seqnum, sync, clock,
                   ids, msgs, acked, gone, faults, used>>

-----------------------------------------------------------------------------
(* system_journal_open() and server_flush_to_var()                         *)

OpenSystem ==
    /\ Doing("open_system")
    /\ todo' = Rest
    /\ \/ /\ IsOpen(System) \/ ~flushed
          /\ UNCHANGED <<disk, open, gone, ids, used>>
       \/ /\ ~IsOpen(System) /\ flushed
          /\ ids' = ids + 1
          /\ \/ /\ disk' = OpenReliably(disk, System)
                /\ open' = [open EXCEPT !.system = TRUE]
                /\ UNCHANGED used
             \/ /\ Fails
                /\ disk' \in OpenFailures(disk, System)
                /\ used' = Failed
                /\ UNCHANGED open
          /\ gone' = gone \cup Deleted(disk')
    /\ UNCHANGED <<flushed, up, nocreate, flush, seqnum, sync, loop, clock, msgs,
                   acked, faults>>

\* With a system journal the runtime journal is only opened if it exists and
\* was closed in order, and the daemon goes on without it if that fails; without
\* one it is created, and the daemon gives up if that fails.  One that is open
\* already is left alone.
OpenRuntime ==
    /\ Doing("open_runtime")
    /\ \/ /\ ~IsOpen(Runtime) /\ ~IsOpen(System)
          /\ disk' = OpenReliably(disk, Runtime)
          /\ open' = [open EXCEPT !.runtime = TRUE]
          /\ nocreate' = FALSE
          /\ todo' = Rest
          /\ ids' = ids + 1
          /\ UNCHANGED <<used, faults>>
       \/ /\ ~IsOpen(Runtime) /\ ~IsOpen(System) /\ Fails
          /\ disk' \in OpenFailures(disk, Runtime)
          /\ todo' = <<Task("done")>>
          /\ ids' = ids + 1
          /\ used' = Failed
          /\ UNCHANGED <<open, nocreate, faults>>
       \/ /\ ~IsOpen(Runtime) /\ IsOpen(System)
          /\ Active(Runtime) \in DOMAIN disk /\ ~Refused(disk, Runtime)
          /\ disk' = [disk EXCEPT ![Active(Runtime)] = Fsync(SetOnline(@))]
          /\ open' = [open EXCEPT !.runtime = TRUE]
          /\ nocreate' = TRUE
          /\ todo' = Rest
          /\ UNCHANGED <<ids, used, faults>>
       \/ /\ ~IsOpen(Runtime) /\ IsOpen(System) /\ Fails
          /\ Active(Runtime) \in DOMAIN disk /\ ~Refused(disk, Runtime)
          /\ todo' = Rest
          /\ used' = Failed
          /\ faults' = faults \cup {"open"}
          /\ UNCHANGED <<disk, open, nocreate, ids>>
       \/ /\ \/ IsOpen(Runtime)
             \/ /\ IsOpen(System)
                /\ Active(Runtime) \notin DOMAIN disk \/ Refused(disk, Runtime)
          /\ todo' = Rest
          /\ UNCHANGED <<disk, open, nocreate, ids, used, faults>>
    /\ gone' = gone \cup Deleted(disk')
    /\ UNCHANGED <<flushed, up, flush, seqnum, sync, loop, clock, msgs, acked>>

\* server_driver_message(): a message of the server itself, which has number 0.
Driver == TaskFor("write", 0)

\* available_space() at the end of system_journal_open(): it reports the space
\* unless the directory cannot be read.
Space ==
    /\ Doing("space")
    /\ todo' \in {<<Driver>> \o Rest, Rest}
    /\ UNCHANGED <<disk, flushed, up, open, nocreate, flush, seqnum, sync, loop,
                   clock, ids, msgs, acked, gone, faults, used>>

\* server_flush_to_var() up to the check for a system journal.
Flush ==
    /\ Doing("flush")
    /\ todo' = (IF IsOpen(Runtime)
                THEN <<Task("open_system"), Task("open_runtime"), Task("space"),
                       Task("begin")>>
                ELSE <<>>) \o Rest
    /\ UNCHANGED <<disk, flushed, up, open, nocreate, flush, seqnum, sync, loop,
                   clock, ids, msgs, acked, gone, faults, used>>

\* The entries of the runtime journals, archived and corrupted ones included,
\* are what sd_journal_next() is going to yield of files that can be read.
RuntimeEntries ==
    UNION {{[id  |-> disk[x].entries[i].id, at |-> disk[x].entries[i].at,
             seqid |-> disk[x].seqid, seq |-> disk[x].entries[i].seq] :
              i \in DOMAIN disk[x].entries} :
           x \in {y \in DOMAIN disk : ~InVar(y)}}

\* What an error that nobody is told of may take from the entries left: those of
\* any of the files, which add_file() does not open or real_journal_next() drops,
\* or all of them, where sd_journal_next() returns an error and ends the loop.
PassedOver(left) ==
    LET Of(x) == {e \in left : /\ e.seqid = disk[x].seqid
                               /\ \E i \in DOMAIN disk[x].entries :
                                     disk[x].entries[i].seq = e.seq}
    IN  {left} \cup {UNION {Of(x) : x \in X} :
                      X \in SUBSET {y \in DOMAIN disk : ~InVar(y)}}

BeginFlush ==
    /\ Doing("begin")
    /\ \/ /\ ~IsOpen(System)
          /\ todo' = Rest
          /\ UNCHANGED <<flush, used>>
       \/ /\ IsOpen(System)
          /\ \E missed \in PassedOver(RuntimeEntries) :
               /\ flush' = [left |-> RuntimeEntries \ missed, err |-> FALSE,
                            unread |-> {e.id : e \in missed}]
               /\ \/ missed = {} /\ UNCHANGED used
                  \/ missed # {} /\ Fails /\ used' = Failed
          /\ todo' = <<Task("copy")>> \o Rest
       \/ /\ IsOpen(System) /\ Fails
          /\ todo' = Rest
          /\ used' = Failed
          /\ UNCHANGED flush
    /\ UNCHANGED <<disk, flushed, up, open, nocreate, seqnum, sync, loop, clock,
                   ids, msgs, acked, gone, faults>>

\* The entry that sd_journal_next() yields next: entries of one source of
\* sequence numbers by number, and the sources by age.
NextLeft ==
    CHOOSE e \in flush.left : \A x \in flush.left :
        e.seqid < x.seqid \/ (e.seqid = x.seqid /\ e.seq <= x.seq)

\* journal_file_copy_entry() into the system journal, and after a rotation the
\* second and last attempt.  At the first one the entry is located, too.
Copy(again) ==
    LET f   == disk[Active(System)]
        e   == NextLeft
        g   == Appended(f, e.id, e.at, f.tail + 1)
        Put(h) == disk' = [disk EXCEPT ![Active(System)] = h]
        left == [flush EXCEPT !.left = @ \ {e}]
        Stop == /\ todo' = <<Task("finish")>> \o Rest
                /\ flush' = [left EXCEPT !.err = TRUE]
                /\ faults' = faults \cup {"flush"}
        Again == /\ todo' = RotateAndVacuum \o <<Task("recopy")>> \o Rest
                 /\ UNCHANGED <<flush, faults>>
    IN  \/ /\ f.tables
           /\ Put(g) /\ flush' = left /\ todo' = <<Task("copy")>> \o Rest
           /\ UNCHANGED <<used, faults>>
        \/ /\ f.tables /\ Fails
           /\ Put(g) \/ Put(SetOnline(f))
           /\ used' = Failed
           /\ Stop \/ (again /\ Again)
        \/ /\ again /\ Fails /\ Stop
           /\ used' = Failed
           /\ UNCHANGED disk
        \/ /\ ~f.tables
           /\ IF again THEN Again ELSE Stop
           /\ UNCHANGED <<disk, used>>

CopyEntry ==
    /\ \/ /\ Doing("copy")
          /\ IF flush.left = {}
             THEN /\ todo' = <<Task("finish")>> \o Rest
                  /\ UNCHANGED <<disk, flush, faults, used>>
             ELSE Copy(TRUE)
       \/ /\ Doing("copy") /\ Fails
          /\ \E missed \in PassedOver(flush.left) \ {{}} :
               flush' = [flush EXCEPT !.left = @ \ missed,
                                      !.unread = @ \cup {e.id : e \in missed}]
          /\ todo' = <<Task("copy")>> \o Rest
          /\ used' = Failed
          /\ UNCHANGED <<disk, faults>>
       \/ Doing("recopy") /\ IsOpen(System) /\ Copy(FALSE)
       \/ /\ Doing("recopy") /\ ~IsOpen(System)
          /\ todo' = <<Task("finish")>> \o Rest
          /\ flush' = [flush EXCEPT !.err = TRUE]
          /\ faults' = faults \cup {"flush"}
          /\ UNCHANGED <<disk, used>>
    /\ UNCHANGED <<flushed, up, open, nocreate, seqnum, sync, loop, clock, ids,
                   msgs, acked, gone>>

NoFlush == [left |-> {}, err |-> FALSE, unread |-> {}]

\* Mutant of FinishFlush: the runtime journal is removed after an error, too.
FinishFlushAlways ==
    /\ Doing("finish") /\ IsOpen(System) /\ IsOpen(Runtime)
    /\ disk' = Without(disk, {x \in DOMAIN disk : ~InVar(x)})
    /\ open' = Shut(Runtime)
    /\ todo' = <<Driver>> \o Rest
    /\ flush' = NoFlush
    /\ UNCHANGED <<flushed, up, nocreate, seqnum, sync, loop, clock, ids, msgs,
                   acked, gone, faults, used>>

\* The label "finish": journal_file_post_change() of the system journal,
\* journal_file_close() of the runtime journal; unless there was an error all
\* of /run/journal/log is removed, the files that could not be read included.
FinishFlush ==
    /\ Doing("finish") /\ IsOpen(System) /\ IsOpen(Runtime)
    /\ \/ /\ flush.err
          /\ disk' = [disk EXCEPT ![Active(Runtime)] = SetOffline(@)]
          /\ UNCHANGED gone
       \/ /\ ~flush.err
          /\ disk' = Without(disk, {x \in DOMAIN disk : ~InVar(x)})
          /\ gone' = gone \cup [id  : flush.unread \ Ids(disk', DOMAIN disk'),
                                 why : {"unread"}]
    /\ open' = Shut(Runtime)
    /\ todo' = <<Driver>> \o Rest
    /\ flush' = NoFlush
    /\ UNCHANGED <<flushed, up, nocreate, seqnum, sync, loop, clock, ids, msgs,
                   acked, faults, used>>

-----------------------------------------------------------------------------
(* The life of the daemon                                                  *)

Idle == up /\ todo = <<>>

\* The daemon ends: the memory is lost, the files of the kernel are not.
Ended ==
    /\ up' = FALSE /\ open' = NoJournals /\ nocreate' = FALSE
    /\ todo' = <<>> /\ flush' = NoFlush
    /\ seqnum' = 0 /\ sync' = [seqnum |-> 0, time |-> -1] /\ loop' = 0
    /\ UNCHANGED <<clock, ids, msgs, acked>>

\* A NULL pointer at the label "finish", which assert(f) names in the two
\* functions called there; the daemon dies.
FlushFaults ==
    /\ Doing("finish") /\ ~(IsOpen(System) /\ IsOpen(Runtime))
    /\ faults' = faults \cup {IF IsOpen(System) THEN "journal_file_close"
                                              ELSE "journal_file_post_change"}
    /\ Ended
    /\ UNCHANGED <<disk, flushed, gone, used>>

\* server_done()
Done ==
    /\ Doing("done")
    /\ disk' = [x \in DOMAIN disk |->
                  IF x.kind = "active" /\ IsOpen(x.loc) THEN SetOffline(disk[x])
                                                        ELSE disk[x]]
    /\ Ended
    /\ UNCHANGED <<flushed, gone, faults, used>>

Crash == used.crashes < scope.crashes /\ used' = [used EXCEPT !.crashes = @ + 1]

\* The daemon is killed.
Kill == up /\ Crash /\ Ended /\ UNCHANGED <<disk, flushed, gone, faults>>

\* The machine loses power: /run is empty afterwards, and a file keeps what was
\* synced and, maybe, what was not.
PowerLoss ==
    /\ Crash
    /\ LET var == {x \in DOMAIN disk : InVar(x)} IN
       \E cut \in SUBSET var, state \in [var -> {"online", "offline", "archived"}] :
         /\ \A x \in var : state[x] \in disk[x].ondisk
         /\ disk' = [x \in var |->
              LET n == IF x \in cut THEN disk[x].synced ELSE Len(disk[x].entries)
              IN  [disk[x] EXCEPT !.entries = SubSeq(@, 1, n), !.synced = n,
                                  !.state = state[x], !.ondisk = {state[x]}]]
    /\ gone' = gone \cup [id  : Ids(disk, DOMAIN disk) \ Ids(disk', DOMAIN disk'),
                           why : {"power"}]
    /\ flushed' = FALSE
    /\ Ended
    /\ UNCHANGED faults

\* main() and server_init()
Start ==
    /\ ~up
    /\ up' = TRUE
    /\ todo' = <<Task("open_system"), Task("open_runtime"), Task("space"),
                 Task("vacuum"), Task("flush"), Driver, Task("loop")>>
    /\ UNCHANGED <<disk, flushed, open, nocreate, flush, seqnum, sync, loop, clock,
                   ids, msgs, acked, gone, faults, used>>

\* server_dispatch_message() of a message that passed the rate limiter, which
\* may have a number of suppressed messages to report first.
Receive(uid, pri) ==
    /\ Idle /\ Len(msgs) < scope.messages
    /\ msgs' = Append(msgs, [uid |-> uid, pri |-> pri])
    /\ \E suppressed \in {<<>>, <<Driver>>} :
         todo' = suppressed \o <<TaskFor("write", Len(msgs) + 1), Task("turn")>>
    /\ UNCHANGED <<disk, flushed, up, open, nocreate, flush, seqnum, sync, loop,
                   clock, ids, acked, gone, faults, used>>

\* dispatch_sigusr1(), dispatch_sigusr2() and dispatch_sigterm(): flush, rotate,
\* end.
Signal(tasks) ==
    /\ Idle /\ used.signals < scope.signals
    /\ used' = [used EXCEPT !.signals = @ + 1]
    /\ todo' = tasks
    /\ UNCHANGED <<disk, up, open, nocreate, flush, seqnum, sync, loop, clock, ids,
                   msgs, acked, gone, faults>>

SIGUSR1 ==
    /\ Signal(<<Task("flush"), Task("sync"), Task("turn")>>)
    /\ flushed' = TRUE

SIGUSR2 ==
    /\ Signal(RotateAndVacuum \o <<Task("turn")>>)
    /\ UNCHANGED flushed

\* After the turn that received it, one more turn sets SERVER_FINISHED.
SIGTERM ==
    /\ Signal(<<Task("turn"), Task("turn"), Driver, Task("done")>>)
    /\ UNCHANGED flushed

Tick ==
    /\ clock < scope.time
    /\ clock' = clock + 1
    /\ UNCHANGED <<disk, flushed, up, open, nocreate, todo, flush, seqnum, sync,
                   loop, ids, msgs, acked, gone, faults, used>>

ServerInit ==
    /\ disk = <<>> /\ flushed = FALSE
    /\ up = FALSE /\ open = NoJournals /\ nocreate = FALSE
    /\ todo = <<>> /\ flush = NoFlush
    /\ seqnum = 0 /\ sync = [seqnum |-> 0, time |-> -1] /\ loop = 0
    /\ clock = 1 /\ ids = 0
    /\ msgs = <<>> /\ acked = {} /\ gone = {}
    /\ faults = {} /\ used = [signals |-> 0, rotations |-> 0,
                               failures |-> 0, crashes |-> 0]
    /\ scope \in Scopes

ServerStep ==
    \/ Write \/ WriteAgain \/ WriteReturns
    \/ Rotate \/ RotateRename \/ RotateCreate \/ Vacuum
    \/ Sync \/ SyncFile \/ Synced \/ Turn \/ Loop
    \/ OpenSystem \/ OpenRuntime \/ Space
    \/ Flush \/ BeginFlush \/ CopyEntry \/ FinishFlush \/ FlushFaults \/ Done

ServerNext ==
    /\ \/ ServerStep \/ Start
       \/ \E uid \in scope.users \cup {"root"} : Receive(uid, scope.level)
       \/ SIGUSR1 \/ SIGUSR2 \/ SIGTERM
       \/ Kill \/ PowerLoss \/ Tick
    /\ UNCHANGED scope

ServerSpec == ServerInit /\ [][ServerNext]_serverVars

-----------------------------------------------------------------------------
(* Properties                                                              *)

\* Every variable has its type, what is open exists, and the user journals
\* stay within their limit.
ServerTypeOK ==
    /\ \A x \in DOMAIN disk :
         /\ x.loc \in Locs /\ x.kind \in {"active", "archived", "corrupted"}
         /\ disk[x].state \in disk[x].ondisk
         /\ disk[x].synced \in 0..Len(disk[x].entries)
    /\ \A loc \in Locs : IsOpen(loc) =>
         \/ Active(loc) \in DOMAIN disk
         \/ todo # <<>> /\ Head(todo).do = "create" /\ Head(todo).loc = loc
    /\ \A i, j \in DOMAIN open.users : open.users[i] = open.users[j] => i = j
    /\ Len(open.users) <= USER_JOURNALS_MAX
    /\ {a.id : a \in acked} \subseteq DOMAIN msgs

Entries(x) == DOMAIN disk[x].entries

\* Sequence numbers order the entries of all files that share a seqnum_id, as
\* compare_entry_order() and vacuum_compare() rely on: they ascend in a file,
\* and of two files one precedes the other.
SeqnumsIncrease ==
    \A x, y \in DOMAIN disk : disk[x].seqid = disk[y].seqid =>
        LET seq(z, i) == disk[z].entries[i].seq IN
        /\ x = y => \A i, j \in Entries(x) : i < j => seq(x, i) < seq(x, j)
        /\ x # y => \/ \A i \in Entries(x), j \in Entries(y) : seq(x, i) < seq(y, j)
                    \/ \A i \in Entries(x), j \in Entries(y) : seq(y, j) < seq(x, i)

\* A file that a loss of power leaves marked offline, and which is therefore
\* opened again without further ado, has all its entries.
OfflineIntact ==
    \A x \in DOMAIN disk :
        "offline" \in disk[x].ondisk => disk[x].synced = Len(disk[x].entries)

\* A message that was stored is in some file, whatever rotations, failed
\* flushes and restarts followed, unless a loss of power cut it off, its file
\* was deleted by the vacuuming or replaced by one of the same name, or a flush
\* could not read its runtime file: sd-journal passes over a file that it cannot
\* open or read and tells nobody, and server_flush_to_var() then removes it with
\* the others.  A message that such a flush did read is never lost.
NothingLost ==
    \A a \in acked : a.id \in Ids(disk, DOMAIN disk) \cup {g.id : g \in gone}

\* A message with a priority of LOG_CRIT or more severe, and no facility, is on
\* disk once its write has ended, unless its file was deleted.
CritDurable ==
    \A a \in acked : a.loc # Runtime /\ Priority(a.id) <= 2 =>
        \/ [id |-> a.id, why |-> "deleted"] \in gone
        \/ \E x \in DOMAIN disk : InVar(x) /\
             \E i \in 1..disk[x].synced : disk[x].entries[i].id = a.id

Ordered ==
    \A x, y \in DOMAIN disk : disk[x].seqid = disk[y].seqid =>
        \A i \in Entries(x), j \in Entries(y) :
            LET e == disk[x].entries[i]
                d == disk[y].entries[j]
            IN  e.seq < d.seq /\ e.id # 0 /\ d.id # 0 => e.id <= d.id

\* Messages are stored in the order of their arrival, through all flushes and
\* orderly restarts, as long as no flush is given up half-way, no rotation gives
\* the runtime journal up and a start can open the one it finds: the entries left
\* in /run are copied by a later flush, behind younger ones.
OrderKept == used.crashes = 0 /\ faults = {} => Ordered
=============================================================================
