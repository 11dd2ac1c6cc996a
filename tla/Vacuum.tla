------------------------------- MODULE Vacuum -------------------------------
(***************************************************************************)
(* How the daemon keeps its journals small and young: the vacuuming of a   *)
(* directory (lib/journal-vacuum.c), the limits it keeps to                *)
(* (journal_default_metrics() of lib/journal-file.c), and what             *)
(* core/journald-server.c and the loop of journald/journald.c make of it:  *)
(* the time of the oldest file decides when to vacuum next, the free space *)
(* is remembered for a while.                                              *)
(*                                                                         *)
(* journal_directory_vacuum() opens a journal by its bare name, that is,   *)
(* in the working directory of the daemon, which is the home of its user   *)
(* (run_user()): scope.here says whether that is the directory itself.     *)
(***************************************************************************)
EXTENDS Integers, Sequences, SequencesExt, FiniteSets, FiniteSetsExt, Functions

CONSTANTS
    FILE_SIZE_MIN, MAX_USE_LOWER, MAX_USE_UPPER,    \* limits of lib/journal-file.c
    MAX_SIZE_UPPER, KEEP_FREE_UPPER,
    Page,                 \* the size of a page
    Capacity,             \* the size of the file system
    RECHECK,              \* RECHECK_AVAILABLE_SPACE_USEC
    Scopes                \* configurations, and bounds on what happens

ASSUME VacuumAssumption == {FILE_SIZE_MIN, Page, Capacity, RECHECK} \subseteq Nat \ {0}

VARIABLES
    files,      \* the files of both directories
    active,     \* the file that is open, of each directory that is in use
    oldest,     \* s->oldest_file_usec
    cache,      \* s->cached_available_space and its time
    clock,      \* CLOCK_MONOTONIC, and CLOCK_REALTIME
    loop,       \* where the loop of main() is, and its n
    scope,      \* the configuration and the bounds of this behaviour
    used,       \* how much of the bounds is used up
    hist,       \* history: see VacuumInit
    step        \* the step that was taken last

vacuumVars == <<files, active, oldest, cache, clock, loop, scope, used, hist, step>>

-----------------------------------------------------------------------------
(* Limits                                                                  *)

Unset == -1

PageAlign(n) == ((n + Page - 1) \div Page) * Page
AtMost(n, bound) == IF n > bound THEN bound ELSE n
AtLeast(n, bound) == IF n < bound THEN bound ELSE n

\* LESS_BY()
LessBy(a, b) == IF a > b THEN a - b ELSE 0

\* journal_default_metrics()
DefaultMetrics(m) ==
    LET use  == IF m.max_use = Unset
                THEN AtLeast(AtMost(PageAlign(Capacity \div 10), MAX_USE_UPPER), MAX_USE_LOWER)
                ELSE AtLeast(PageAlign(m.max_use), 2 * FILE_SIZE_MIN)
        size == AtLeast(IF m.max_size = Unset
                        THEN AtMost(PageAlign(use \div 8), MAX_SIZE_UPPER)
                        ELSE PageAlign(m.max_size), FILE_SIZE_MIN)
        min  == IF m.min_size = Unset THEN FILE_SIZE_MIN
                ELSE AtLeast(PageAlign(m.min_size), FILE_SIZE_MIN)
    IN  [max_use   |-> AtLeast(use, 2 * size),
         max_size  |-> IF m.min_size = Unset THEN size ELSE AtLeast(size, min),
         min_size  |-> min,
         keep_free |-> IF m.keep_free = Unset
                       THEN AtMost(PageAlign((Capacity * 3) \div 20), KEEP_FREE_UPPER)
                       ELSE m.keep_free]

Metrics == DefaultMetrics(scope.conf)

-----------------------------------------------------------------------------
(* journal_directory_vacuum()                                              *)

\* Mutant: the other way round.
NotAfterReversed(fs, a, b) ==
    IF ~fs[a].tilde /\ ~fs[b].tilde /\ fs[a].sid = fs[b].sid THEN fs[a].head >= fs[b].head
    ELSE fs[a].mtime >= fs[b].mtime

\* vacuum_compare(): is a before b, or equal to it?  Files are numbered in the
\* order of their names.
NotAfter(fs, a, b) ==
    IF ~fs[a].tilde /\ ~fs[b].tilde /\ fs[a].sid = fs[b].sid THEN fs[a].head <= fs[b].head
    ELSE IF fs[a].mtime # fs[b].mtime THEN fs[a].mtime < fs[b].mtime
    ELSE IF ~fs[a].tilde /\ ~fs[b].tilde THEN fs[a].sid <= fs[b].sid
    ELSE a <= b

\* Of the journals of one sequence, the later ones were written to later.  Without
\* this, after the wall clock was set back, vacuum_compare() need not be transitive.
InSequence(fs, f, g) ==
    fs[f].dir = fs[g].dir /\ fs[f].sid = fs[g].sid /\ ~fs[f].tilde /\ ~fs[g].tilde
      /\ fs[f].head < fs[g].head
Chronological(fs) == \A f, g \in DOMAIN fs : InSequence(fs, f, g) => fs[f].mtime <= fs[g].mtime

\* qsort(), as a merge sort: when the order above is not transitive the outcome
\* depends on the order in which readdir() returned the names.
RECURSIVE MergeSorted(_, _, _), Qsort(_, _)
MergeSorted(fs, s, t) ==
    IF s = <<>> THEN t ELSE IF t = <<>> THEN s
    ELSE IF NotAfter(fs, s[1], t[1]) THEN <<s[1]>> \o MergeSorted(fs, Tail(s), t)
    ELSE <<t[1]>> \o MergeSorted(fs, s, Tail(t))
Qsort(fs, s) ==
    LET h == Len(s) \div 2 IN
    IF Len(s) <= 1 THEN s
    ELSE MergeSorted(fs, Qsort(fs, SubSeq(s, 1, h)), Qsort(fs, SubSeq(s, h + 1, Len(s))))

Usage(fs, S) == MapThenSumSet(LAMBDA f : fs[f].size, S)

\* The files of directory d that are looked at: a journal must be found and
\* opened by its bare name.
Considered(fs, d) == {f \in DOMAIN fs : fs[f].dir = d /\ (fs[f].tilde \/ scope.here)}

\* Files without entries go at once.
Empty(fs, d) == {f \in Considered(fs, d) : fs[f].n = 0}

\* The time before which files are too old; 0 when there is none.
RetentionLimit == LessBy(clock.real, scope.retention)
Retained(fs, f) ==
    scope.retention = 0 \/ RetentionLimit = 0 \/ fs[f].mtime >= RetentionLimit

\* One turn of the loop over the sorted files; busy are those unlinkat() fails on.
VacuumFile(fs, busy, acc, f) ==
    IF acc.first # 0 THEN acc
    ELSE IF Retained(fs, f) /\ acc.sum <= Metrics.max_use THEN [acc EXCEPT !.first = f]
    ELSE IF f \in busy THEN acc
    ELSE [acc EXCEPT !.gone = @ \cup {f}, !.sum = LessBy(@, fs[f].size)]

\* Mutant: the directory looked at last decides.
LastOf(old, t) == t

OldestOf(old, t) == IF old = 0 \/ t < old THEN t ELSE old

\* The files left, and the oldest time, after directory d was vacuumed, the names
\* being read in the order given.
DirectoryVacuum(r, d, order, busy) ==
    LET fs   == r.files
        list == Qsort(fs, SelectSeq(order, LAMBDA f : f \in Considered(fs, d) \ Empty(fs, d)))
        end  == FoldLeft(LAMBDA acc, f : VacuumFile(fs, busy, acc, f),
                         [first |-> 0, gone |-> Empty(fs, d) \ busy,
                          sum |-> Usage(fs, ToSet(list))], list)
    IN  [files  |-> Restrict(fs, DOMAIN fs \ end.gone),
         oldest |-> IF end.first = 0 THEN r.oldest ELSE OldestOf(r.oldest, fs[end.first].mtime)]

-----------------------------------------------------------------------------
(* core/journald-server.c                                                  *)

\* Mutant: the time of the oldest file is that of the last vacuuming.
ServerVacuumKeepsOldest(r, order, busy) ==
    LET sys == IF "system" \in DOMAIN r.active
               THEN DirectoryVacuum([files |-> r.files, oldest |-> oldest], "system", order, busy)
               ELSE [files |-> r.files, oldest |-> oldest]
    IN  IF "runtime" \in DOMAIN r.active THEN DirectoryVacuum(sys, "runtime", order, busy) ELSE sys

\* server_vacuum(), as far as files go
ServerVacuum(r, order, busy) ==
    LET none == [files |-> r.files, oldest |-> 0]
        sys  == IF "system" \in DOMAIN r.active
                THEN DirectoryVacuum(none, "system", order, busy) ELSE none
    IN  IF "runtime" \in DOMAIN r.active THEN DirectoryVacuum(sys, "runtime", order, busy) ELSE sys

\* A new file, made at this time.
NewFile(d, sid) == [dir |-> d, tilde |-> FALSE, size |-> 1, mtime |-> clock.real, sid |-> sid,
                    head |-> 0, n |-> 0]

\* File new takes the place of the one that is open in d.
Replaced(r, d, old, new) ==
    [files  |-> [f \in DOMAIN r.files \cup {r.next} |->
                   IF f = r.next THEN new ELSE IF f = r.active[d] THEN old ELSE r.files[f]],
     active |-> [r.active EXCEPT ![d] = r.next],
     next   |-> r.next + 1]

\* do_rotate(): the file gets the name of an archive, unless it is gone, and a
\* new one takes its place.
DoRotate(r, d) ==
    IF d \notin DOMAIN r.active \/ r.active[d] \notin DOMAIN r.files THEN r
    ELSE LET f == r.files[r.active[d]]
         IN  Replaced(r, d, [f EXCEPT !.mtime = clock.real], NewFile(d, f.sid))

ServerRotate(r) == DoRotate(DoRotate(r, "runtime"), "system")

\* The space that may still be used, of the directory in use.
Usable(r) ==
    LET m   == Metrics
        dir == IF "system" \in DOMAIN r.active THEN "system" ELSE "runtime"
        sum == Usage(r.files, {f \in DOMAIN r.files : r.files[f].dir = dir})
        free == LessBy(Capacity, Usage(r.files, DOMAIN r.files))
    IN  LessBy(AtMost(LessBy(free, m.keep_free), m.max_use), sum)

\* available_space()
AvailableSpace(r, verbose) ==
    IF cache.at + RECHECK > clock.mono /\ ~verbose THEN cache
    ELSE [space |-> Usable(r), at |-> clock.mono]

\* Mutant: the remembered space outlives a vacuuming.
SpaceRemembered(c) == c

\* The last step of server_vacuum()
SpaceForgotten(c) == [c EXCEPT !.at = 0]

\* The orders in which readdir() may return the files; when vacuum_compare() orders
\* them, one is as good as another.
Orders(fs, dirs) ==
    LET S == UNION {Considered(fs, d) : d \in dirs} IN
    IF Chronological(fs) THEN {SetToSeq(S)} ELSE SetToSeqs(S)

\* server_vacuum(), in state r
ThenVacuum(r) ==
    \E order \in Orders(r.files, DOMAIN r.active) :
    \E busy \in SUBSET ToSet(order) :
      LET v == ServerVacuum(r, order, busy) IN
      /\ Cardinality(busy) <= scope.busy
      /\ files' = v.files /\ active' = r.active /\ oldest' = v.oldest
      /\ hist' = [hist EXCEPT !.next = r.next, !.busy = busy, !.dirty = TRUE,
                              !.seen = IF Chronological(r.files) THEN DOMAIN r.files ELSE {}]

Now == [files |-> files, active |-> active, next |-> hist.next]

Target == IF "runtime" \in DOMAIN active THEN "runtime" ELSE "system"
Full(f) == f \in DOMAIN files /\ files[f].size >= Metrics.max_size

\* k entries are appended to file f.
Stored(f, k) == [f EXCEPT !.size = @ + k, !.n = @ + k, !.mtime = clock.real,
                          !.head = IF @ = 0 THEN scope.seqnum + used.messages + used.copied + 1 ELSE @]

\* A message is stored; before, the rate limiter asks for the free space.  A file
\* that was deleted while it is open takes what is written with it.
DispatchMessage ==
    /\ loop.at = "run" /\ used.messages < scope.messages
    /\ ~Full(active[Target])
    /\ files' = IF active[Target] \in DOMAIN files
                THEN [files EXCEPT ![active[Target]] = Stored(@, 1)] ELSE files
    /\ cache' = AvailableSpace(Now, FALSE)
    /\ used' = [used EXCEPT !.messages = @ + 1]
    /\ hist' = IF cache'.at = cache.at THEN hist
               ELSE [hist EXCEPT !.dirty = FALSE, !.measured = clock.mono]
    /\ loop' = [loop EXCEPT !.at = "check"]
    /\ step' = "dispatch"
    /\ UNCHANGED <<active, oldest, clock, scope>>

\* The file is full (the message comes next), or SIGUSR2 was received.
RotateAndVacuum ==
    /\ loop.at = "run"
    /\ \/ Full(active[Target]) /\ UNCHANGED <<used, loop>>
       \/ /\ used.signals < scope.signals
          /\ used' = [used EXCEPT !.signals = @ + 1]
          /\ loop' = [loop EXCEPT !.at = "check"]
    /\ ThenVacuum(ServerRotate(Now))
    /\ cache' = SpaceForgotten(cache)
    /\ step' = "rotate"
    /\ UNCHANGED <<clock, scope>>

\* server_flush_to_var(): the system journal is opened, and the free space measured;
\* then the runtime journals are copied to it, closed and deleted.
FlushToVar ==
    LET opened == IF "system" \in DOMAIN active THEN Now
                  ELSE [files |-> files @@ (hist.next :> NewFile("system", hist.next)),
                        active |-> active @@ [system |-> hist.next], next |-> hist.next + 1]
        fs     == opened.files
        to     == opened.active["system"]
        copied == MapThenSumSet(LAMBDA f : fs[f].n, {f \in DOMAIN fs : fs[f].dir = "runtime"})
        left   == Restrict(fs, {f \in DOMAIN fs : fs[f].dir = "system"})
    IN
    /\ loop.at = "run" /\ "runtime" \in DOMAIN active
    /\ files' = IF copied > 0 /\ to \in DOMAIN left THEN [left EXCEPT ![to] = Stored(@, copied)]
                ELSE left
    /\ active' = [system |-> to]
    /\ cache' = AvailableSpace(opened, TRUE)
    /\ used' = [used EXCEPT !.copied = @ + copied]
    /\ hist' = [hist EXCEPT !.next = opened.next, !.dirty = FALSE, !.measured = clock.mono]
    /\ loop' = [loop EXCEPT !.at = "check"]
    /\ step' = "flush"
    /\ UNCHANGED <<oldest, clock, scope>>

-----------------------------------------------------------------------------
(* journald/journald.c                                                     *)

\* After server_init().
Start ==
    /\ loop.at = "start" /\ ThenVacuum(Now)
    /\ cache' = SpaceForgotten(cache)
    /\ loop' = [loop EXCEPT !.at = "check"]
    /\ step' = "start"
    /\ UNCHANGED <<clock, scope, used>>

\* One turn of the loop: the retention time is reached ...
Due(n) == scope.retention > 0 /\ oldest > 0 /\ oldest + scope.retention < n

RetentionReached ==
    /\ loop.at = "check" /\ Due(clock.real)
    /\ ThenVacuum(ServerRotate(Now))
    /\ cache' = SpaceForgotten(cache)
    /\ step' = "retention"
    /\ UNCHANGED <<clock, scope, used, loop>>

\* ... or not, and the next event is waited for, however long that takes.
Run ==
    /\ loop.at = "check" /\ ~Due(clock.real)
    /\ loop' = [at |-> "run", n |-> clock.real]
    /\ step' = "run"
    /\ UNCHANGED <<files, active, oldest, cache, clock, scope, used, hist>>

\* An event that leaves the files alone.
OtherEvent ==
    /\ loop.at = "run" /\ loop' = [loop EXCEPT !.at = "check"]
    /\ step' = "event"
    /\ UNCHANGED <<files, active, oldest, cache, clock, scope, used, hist>>

\* The daemon is started again, by server_init(): the header of a journal is written
\* to, and one that it finds open is renamed first (journal_file_open_reliably()).
Reopened(r, d, clean) ==
    IF d \notin DOMAIN r.active THEN r
    ELSE IF clean /\ r.active[d] \in DOMAIN r.files
    THEN [r EXCEPT !.files[r.active[d]].mtime = clock.real]
    ELSE Replaced(r, d, [r.files[r.active[d]] EXCEPT !.tilde = TRUE], NewFile(d, r.next))

Restart ==
    \E clean \in BOOLEAN :
      LET r == Reopened(Reopened(Now, "system", clean), "runtime", clean) IN
      /\ used.restarts < scope.restarts
      /\ used' = [used EXCEPT !.restarts = @ + 1]
      /\ files' = r.files /\ active' = r.active /\ oldest' = 0
      /\ cache' = AvailableSpace(r, TRUE)
      /\ hist' = [hist EXCEPT !.next = r.next, !.seen = {}, !.busy = {}, !.dirty = FALSE,
                              !.measured = clock.mono]
      /\ loop' = [at |-> "start", n |-> 0]
      /\ step' = "restart"
      /\ UNCHANGED <<clock, scope>>

\* Time passes, and the wall clock may be set back, while the daemon waits.
Tick ==
    /\ loop.at = "run" /\ clock.mono < scope.time
    /\ clock' = [mono |-> clock.mono + 1, real |-> clock.real + 1]
    /\ step' = "tick"
    /\ UNCHANGED <<files, active, oldest, cache, loop, scope, used, hist>>

SetBack ==
    /\ loop.at = "run" /\ used.steps < scope.steps /\ clock.real > 2
    /\ used' = [used EXCEPT !.steps = @ + 1]
    /\ clock' = [clock EXCEPT !.real = @ - 2]
    /\ step' = "set"
    /\ UNCHANGED <<files, active, oldest, cache, loop, scope, hist>>

\* History: the next name; the files that the last vacuuming saw, if their order was
\* sound, and those it failed to delete; when the free space was measured, and whether
\* there was a vacuuming since.
VacuumInit ==
    /\ scope \in Scopes
    /\ clock = [mono |-> 1, real |-> scope.start]
    /\ active = scope.active /\ files = scope.found
    /\ oldest = 0
    /\ cache = [space |-> Usable([files |-> files, active |-> active]), at |-> clock.mono]
    /\ loop = [at |-> "start", n |-> 0]
    /\ used = [messages |-> 0, copied |-> 0, signals |-> 0, restarts |-> 0, steps |-> 0]
    /\ hist = [next |-> Max(DOMAIN files) + 1, busy |-> {}, seen |-> {}, measured |-> 1, dirty |-> FALSE]
    /\ step = "init"

VacuumNext ==
    \/ DispatchMessage \/ RotateAndVacuum \/ FlushToVar \/ RetentionReached \/ Run
    \/ OtherEvent \/ Start \/ Restart \/ Tick \/ SetBack

VacuumSpec == VacuumInit /\ [][VacuumNext]_vacuumVars

-----------------------------------------------------------------------------
(* Properties                                                              *)

\* journal_directory_vacuum() keeps the files it looks at within max_use, those it could
\* not delete apart; and when times and sequence numbers agree it never deletes a file
\* and keeps one that was written to, or begun, before.
OldestDeletedFirst ==
    [][step' \in {"start", "rotate", "retention"} =>
         \A d \in DOMAIN active' :
           LET seen == IF step' = "start" THEN files ELSE ServerRotate(Now).files
               kept == Considered(files', d) \ hist'.busy
               gone == {f \in Considered(seen, d) \ DOMAIN files' : seen[f].n > 0}
           IN  /\ Usage(files', kept) <= Metrics.max_use
               /\ Chronological(seen) =>
                    \A f \in gone, g \in kept :
                      ~InSequence(seen, g, f) /\ seen[f].mtime <= seen[g].mtime]_vacuumVars

\* After it vacuumed because the retention time was reached, main() does not find it
\* reached again: it would rotate all journals in a loop without waiting.
NoSpin ==
    [][step' = "retention" => ~Due(clock.real)']_vacuumVars

\* When main() waits, no file that the last vacuuming looked at and could delete is
\* older than the retention time, when times and sequence numbers agree:
\* s->oldest_file_usec stands for all files.
RetentionKept ==
    loop.at = "run" /\ scope.retention > 0 =>
      \A d \in DOMAIN active : \A f \in (Considered(files, d) \cap hist.seen) \ hist.busy :
        files[f].mtime + scope.retention >= AtMost(loop.n, clock.real)

\* From half a minute after boot on (before, a remembered value never looks stale), the
\* free space given to the rate limiter was measured after the last vacuuming, and not
\* longer than RECHECK ago.
SpaceFresh ==
    [][step' = "dispatch" /\ clock.mono >= RECHECK
         => ~hist'.dirty /\ hist'.measured + RECHECK > clock.mono]_vacuumVars
=============================================================================
