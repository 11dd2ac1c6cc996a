--------------------------- MODULE JournalReader ----------------------------
(***************************************************************************)
(* The reader of lib/sd-journal.c: the merge of several journal files into *)
(* one sequence of entries, in both directions, filtered by matches, from  *)
(* the head, the tail, a time or a cursor, while the daemon appends to the *)
(* files, files are added and removed, and files turn out to be damaged.   *)
(*                                                                         *)
(* An entry is named by its file and its place in the file, which stands   *)
(* for its offset; 0 is no entry.  Searches in a file return what          *)
(* EntrySearch shows them to return.                                       *)
(***************************************************************************)
EXTENDS Integers, Sequences, SequencesExt, FiniteSets, FiniteSetsExt

CONSTANTS
    Files,              \* the journal files
    SeqnumId(_),        \* header.seqnum_id of a file
    Data,               \* the data objects, numbers: their own hashes
    FieldOf(_),         \* the field of a data object
    Payloads,           \* the sets of data objects an entry may have
    Jumps,              \* how far a seek by time may lie from now
    MaxEntries,         \* bound: messages that are logged
    Scopes              \* bounds: files, entries, boots, matches and their data, damages

ASSUME ReaderAssumption ==
    /\ Data \subseteq Nat
    /\ \A s \in Payloads : s # {} /\ s \subseteq Data
    /\ MaxEntries \in Nat
    /\ \A s \in Scopes : s.files \subseteq Files /\ s.data \subseteq Data /\ s.entries <= MaxEntries

VARIABLES
    disk,      \* disk[f]: the entries of a file
    damaged,   \* the files whose entries cannot be read any more
    now,       \* the two clocks and the boot, and the messages logged so far
    scope,     \* the bounds of this behaviour
    journal,   \* the reader's object
    told,      \* history of an enumeration of unique values
    call       \* the last call and what it returned

readerVars == <<disk, damaged, now, scope, journal, told, call>>

NoFile == "none"
DOWN == "down"
UP == "up"
Directions == {DOWN, UP}
EADDRNOTAVAIL == -99
EBADMSG == -74
ENOENT == -2
ESTALE == -116

-----------------------------------------------------------------------------
(* Entries and their order                                                 *)

\* entry.xor_hash: an entry's data objects, each of them once.
XorHash(s) == SumSet(s)

\* The entry that is logged now into file f.
NewEntry(f, s) ==
    [seqnum |-> 1 + Max({0} \cup UNION {{disk[g][i].seqnum : i \in DOMAIN disk[g]} :
                                        g \in {h \in Files : SeqnumId(h) = SeqnumId(f)}}),
     realtime |-> now.realtime + 1, monotonic |-> now.monotonic + 1, boot |-> now.boot,
     xor_hash |-> XorHash(s), items |-> s]

Compare(a, b) == IF a < b THEN -1 ELSE IF a > b THEN 1 ELSE 0

\* The first of a sequence of comparisons that tells a difference.
FirstOf(s) == IF \E i \in DOMAIN s : s[i] # 0
              THEN s[CHOOSE i \in DOMAIN s : s[i] # 0 /\ \A j \in 1..i - 1 : s[j] = 0]
              ELSE 0

If(p, c) == IF p THEN c ELSE 0

SameEntry(a, b) ==
    /\ a.boot = b.boot /\ a.monotonic = b.monotonic
    /\ a.realtime = b.realtime /\ a.xor_hash = b.xor_hash

\* compare_entry_order(): entries a of file f and b of file g.
CompareEntryOrder(f, a, g, b) ==
    IF SameEntry(a, b) THEN 0
    ELSE FirstOf(<<If(SeqnumId(f) = SeqnumId(g), Compare(a.seqnum, b.seqnum)),
                   If(a.boot = b.boot, Compare(a.monotonic, b.monotonic)),
                   Compare(a.realtime, b.realtime),
                   Compare(a.xor_hash, b.xor_hash)>>)

\* A location; what is not set is UNSET.
UNSET == -1
Location(type) ==
    [type |-> type, seqnum |-> UNSET, id |-> UNSET, realtime |-> UNSET,
     monotonic |-> UNSET, boot |-> UNSET, xor_hash |-> UNSET]

\* init_location() with the entry e of file f.
LocationOf(type, f, e) ==
    [type |-> type, seqnum |-> e.seqnum, id |-> SeqnumId(f), realtime |-> e.realtime,
     monotonic |-> e.monotonic, boot |-> e.boot, xor_hash |-> e.xor_hash]

\* compare_with_location(): entry a of file f.
CompareWithLocation(f, a, l) ==
    IF /\ l.monotonic # UNSET /\ a.boot = l.boot
       /\ l.realtime = a.realtime /\ l.xor_hash = a.xor_hash
    THEN 0
    ELSE FirstOf(<<If(l.seqnum # UNSET /\ SeqnumId(f) = l.id, Compare(a.seqnum, l.seqnum)),
                   If(l.monotonic # UNSET /\ a.boot = l.boot,
                      Compare(a.monotonic, l.monotonic)),
                   If(l.realtime # UNSET, Compare(a.realtime, l.realtime)),
                   If(l.xor_hash # UNSET, Compare(a.xor_hash, l.xor_hash))>>)

-----------------------------------------------------------------------------
(* Searches in one file                                                    *)

\* The nearest of the places S in a direction, 0 if there is none.
Nearest(S, dir) == IF S = {} THEN 0 ELSE IF dir = DOWN THEN Min(S) ELSE Max(S)

Beyond(x, y, dir) == IF dir = DOWN THEN x >= y ELSE x <= y

\* journal_file_next_entry(): from place p, or from the end if p is 0.
NextEntry(f, p, dir) ==
    LET q == IF dir = DOWN THEN p + 1 ELSE IF p = 0 THEN Len(disk[f]) ELSE p - 1
    IN  IF q \in DOMAIN disk[f] THEN q ELSE 0

\* The places of the entries with the data object d.
PlacesOf(f, d) == {p \in DOMAIN disk[f] : d \in disk[f][p].items}

\* journal_file_move_to_entry_by_offset_for_data()
ByOffset(f, d, p, dir) == Nearest({q \in PlacesOf(f, d) : Beyond(q, p, dir)}, dir)

\* The seek for the location among the places S of f, which are all of them or
\* those of a data object: by sequence number if it is of the file's source, by
\* the time of a boot the file knows, by real time, or from the end.
FindAmong(f, S, l, dir) ==
    LET e(p)  == disk[f][p]
        boots == {e(p).boot : p \in DOMAIN disk[f]}
    IN
    IF l.type = "head" THEN Nearest(S, DOWN)
    ELSE IF l.type = "tail" THEN Nearest(S, UP)
    ELSE IF l.seqnum # UNSET /\ l.id = SeqnumId(f)
         THEN Nearest({p \in S : Beyond(e(p).seqnum, l.seqnum, dir)}, dir)
    ELSE IF l.monotonic # UNSET /\ l.boot \in boots
         THEN Nearest({p \in S : e(p).boot = l.boot
                                 /\ Beyond(e(p).monotonic, l.monotonic, dir)}, dir)
    ELSE IF l.realtime # UNSET
         THEN Nearest({p \in S : Beyond(e(p).realtime, l.realtime, dir)}, dir)
    ELSE Nearest(S, dir)

-----------------------------------------------------------------------------
(* Matches: an AND of ORs of ANDs of ORs of data objects, newest first     *)

NoMatches == [level0 |-> <<>>, level1 |-> FALSE, level2 |-> FALSE]

\* The part of next_for_match() for an OR: the nearest of its terms' results.
OrTerm(results, dir) == Nearest({r \in results : r > 0}, dir)

\* The part for an AND of n terms, where Child(i, p) is the result of term i
\* from p on: jump ahead until no term has moved since it was its turn.
AndTerm(Child(_, _), n, after, dir) ==
    LET Turn(i) == IF i = n THEN 1 ELSE i + 1
        Loop[x \in (0..MaxEntries + 1) \X (1..n) \X (1..n)] ==
          LET np == x[1]  i == x[2]  last == x[3]
              moved(cp) == <<cp, Turn(i), IF cp # np THEN i ELSE last>>
          IN  IF np = 0 \/ i = last THEN np ELSE Loop[moved(Child(i, np))]
    IN  Loop[<<Child(1, after), Turn(1), 1>>]

\* next_for_match(), by the levels of the term.
NextLevel3(f, m, p, dir) == OrTerm({ByOffset(f, m[i], p, dir) : i \in DOMAIN m}, dir)
NextLevel2(f, m, p, dir) ==
    LET child(i, q) == NextLevel3(f, m[i], q, dir) IN AndTerm(child, Len(m), p, dir)
NextLevel1(f, m, p, dir) == OrTerm({NextLevel2(f, m[i], p, dir) : i \in DOMAIN m}, dir)
NextForMatch(f, m, p, dir) ==
    LET child(i, q) == NextLevel1(f, m[i], q, dir) IN AndTerm(child, Len(m), p, dir)

\* The part of find_location_for_match() for an AND: from the furthest of its
\* terms' results on, Next being next_for_match().
FindAnd(results, Next(_), dir) ==
    IF 0 \in results THEN 0
    ELSE Next(IF dir = DOWN THEN Max(results) ELSE Min(results))

\* find_location_for_match(), by the levels of the term.
FindLevel3(j, f, m, dir) ==
    OrTerm({FindAmong(f, PlacesOf(f, m[i]), j.location, dir) : i \in DOMAIN m}, dir)
FindLevel2(j, f, m, dir) ==
    LET next(p) == NextLevel2(f, m, p, dir)
    IN  FindAnd({FindLevel3(j, f, m[i], dir) : i \in DOMAIN m}, next, dir)
FindLevel1(j, f, m, dir) == OrTerm({FindLevel2(j, f, m[i], dir) : i \in DOMAIN m}, dir)
FindLocationForMatch(j, f, m, dir) ==
    LET next(p) == NextForMatch(f, m, p, dir)
    IN  FindAnd({FindLevel1(j, f, m[i], dir) : i \in DOMAIN m}, next, dir)

FindLocationWithMatches(j, f, dir) ==
    IF j.matches.level0 = <<>> THEN FindAmong(f, DOMAIN disk[f], j.location, dir)
    ELSE FindLocationForMatch(j, f, j.matches.level0, dir)

NextWithMatches(j, f, p, dir) ==
    IF j.matches.level0 = <<>> THEN NextEntry(f, p, dir)
    ELSE NextForMatch(f, j.matches.level0, IF dir = DOWN THEN p + 1 ELSE p - 1, dir)

-----------------------------------------------------------------------------
(* The merge                                                               *)

\* Mutant of NextBeyondLocation: an entry like the one at the location counts.
NextBeyondLocationAgain(j, f, dir) ==
    LET from == IF j.place[f].dir = dir /\ j.place[f].offset > 0
                THEN NextWithMatches(j, f, j.place[f].offset, dir)
                ELSE FindLocationWithMatches(j, f, dir)
        found(p) == \/ j.location.type # "discrete"
                    \/ CompareWithLocation(f, disk[f][p], j.location) #
                         IF dir = DOWN THEN -1 ELSE 1
        Loop[p \in 0..MaxEntries + 1] ==
          IF p = 0 \/ found(p) THEN p ELSE Loop[NextWithMatches(j, f, p, dir)]
    IN  Loop[from]

\* next_beyond_location(): a place in f, or 0.
NextBeyondLocation(j, f, dir) ==
    LET from == IF j.place[f].dir = dir /\ j.place[f].offset > 0
                THEN NextWithMatches(j, f, j.place[f].offset, dir)
                ELSE FindLocationWithMatches(j, f, dir)
        found(p) == \/ j.location.type # "discrete"
                    \/ CompareWithLocation(f, disk[f][p], j.location) =
                         IF dir = DOWN THEN 1 ELSE -1
        Loop[p \in 0..MaxEntries + 1] ==
          IF p = 0 \/ found(p) THEN p ELSE Loop[NextWithMatches(j, f, p, dir)]
    IN  Loop[from]

\* The loop of real_journal_next() over the files that can be read: the file
\* whose entry comes first, and the entry's place.
BestEntry(j, dir) ==
    LET better(best, f, p) ==
          LET k == CompareEntryOrder(f, disk[f][p], best.file, disk[best.file][best.p])
          IN  IF p # 0 /\ (best.file = NoFile \/ k = IF dir = DOWN THEN -1 ELSE 1)
              THEN [file |-> f, p |-> p] ELSE best
        step(best, f) == better(best, f, NextBeyondLocation(j, f, dir))
    IN  FoldLeft(step, [file |-> NoFile, p |-> 0],
                 SelectSeq(j.files, LAMBDA f : f \notin damaged))

NoPlace == [offset |-> 0, dir |-> DOWN]

\* detach_location()
DetachLocation(j) ==
    [j EXCEPT !.current = NoFile, !.field = 0,
              !.place = [f \in Files |-> [j.place[f] EXCEPT !.offset = 0]]]

\* reset_location(), and the new location l.
SeekTo(l) == [DetachLocation(journal) EXCEPT !.location = l]

\* Mutant of RemoveFilesReal: the current file is not looked after.
RemoveFilesRealOnly(j, F) ==
    [j EXCEPT !.files = SelectSeq(@, LAMBDA f : f \notin F),
              !.place = [f \in Files |-> IF f \in F THEN NoPlace ELSE j.place[f]]]

\* remove_file_real(): the files F are closed and forgotten.
RemoveFilesReal(j, F) ==
    [j EXCEPT !.files = SelectSeq(@, LAMBDA f : f \notin F),
              !.place = [f \in Files |-> IF f \in F THEN NoPlace ELSE j.place[f]],
              !.current = IF @ \in F THEN NoFile ELSE @,
              !.field = IF j.current \in F THEN 0 ELSE @,
              !.unique = IF @.file \in F THEN [@ EXCEPT !.file = NoFile, !.data = 0] ELSE @]

\* set_location() at place p of file f.
SetLocation(j, f, p, dir) ==
    [j EXCEPT !.place[f] = [offset |-> p, dir |-> dir],
              !.current = f, !.field = 0,
              !.location = LocationOf("discrete", f, disk[f][p])]

\* real_journal_next(): the reader afterwards, and the result.
RealJournalNext(j, dir) ==
    LET rest == RemoveFilesReal(j, damaged)
        at(best) == IF best.file = NoFile THEN [j |-> rest, ret |-> 0]
                    ELSE [j |-> SetLocation(rest, best.file, best.p, dir), ret |-> 1]
    IN  at(BestEntry(j, dir))

\* real_journal_next_skip(): until there is nothing more, or n are skipped.
RealJournalNextSkip(j, dir, n) ==
    LET and(s, s2) == [j |-> s2.j, ret |-> s.ret + s2.ret, end |-> s2.ret = 0]
        step(s, i) == IF s.end THEN s ELSE and(s, RealJournalNext(s.j, dir))
    IN  IF n = 0 /\ j.location.type # "discrete" THEN RealJournalNext(j, dir)
        ELSE FoldLeft(step, [j |-> j, ret |-> 0, end |-> FALSE], [i \in 1..n |-> i])

-----------------------------------------------------------------------------
(* The calls                                                               *)

\* The items of an entry are sorted.
Items(e) == [i \in 1..Cardinality(e.items) |->
               CHOOSE d \in e.items : Cardinality({c \in e.items : c < d}) = i - 1]

\* The values of a field in a file, by the list of the field object: newest first.
FieldList(f, x) ==
    LET link(s, d) == IF FieldOf(d) = x /\ d \notin ToSet(s) THEN <<d>> \o s ELSE s
    IN  FoldLeft(LAMBDA s, e : FoldLeft(link, s, Items(e)), <<>>, disk[f])

Position(s, x) == CHOOSE i \in DOMAIN s : s[i] = x

\* The values of the field that is asked for in the files F.
ValuesIn(j, F) == UNION {ToSet(FieldList(f, j.unique.field)) : f \in F}

\* The history of an enumeration: the values returned, unless a file went that
\* had them, and the values still due.  A value that is logged again meanwhile
\* is due no longer, nor is one at which an error was returned (the next call goes
\* on behind it), and when the file at hand goes all begins anew.
NotTold == [active |-> FALSE, seen |-> {}, due |-> {}]

ToldAfter(op, j, r) ==
    LET gone == ToSet(journal.files) \ ToSet(j.files) IN
    IF op = "query_unique"
    THEN [active |-> TRUE, seen |-> {}, due |-> ValuesIn(j, ToSet(j.files))]
    ELSE IF op = "unique" /\ r > 0 THEN [told EXCEPT !.seen = @ \cup {r}, !.due = @ \ {r}]
    ELSE IF op = "unique" /\ r < 0 THEN [told EXCEPT !.due = @ \ {j.unique.data}]
    ELSE IF op = "unique" THEN NotTold
    ELSE IF told.active /\ gone # {}
    THEN [told EXCEPT !.seen = IF journal.unique.file \in gone THEN {}
                               ELSE @ \ ValuesIn(journal, gone),
                      !.due = @ \cap ValuesIn(j, ToSet(j.files))]
    ELSE told

\* The call op(arg) leaves the reader j and returns r.
Returns(op, arg, j, r) ==
    /\ journal' = j
    /\ call' = [op |-> op, arg |-> arg, ret |-> r]
    /\ told' = ToldAfter(op, j, r)
    /\ UNCHANGED <<disk, damaged, now, scope>>

\* sd_journal_next() and sd_journal_previous()
Moves(op, arg, s) == Returns(op, arg, s.j, s.ret)
Next(dir) == Moves("next", dir, RealJournalNext(journal, dir))
NextSkip(dir, n) == Moves("skip", <<dir, n>>, RealJournalNextSkip(journal, dir, n))

\* The entry at hand: j->current_file at its current_offset.
AtEntry(j) == j.current # NoFile /\ j.place[j.current].offset > 0
EntryAt(j) == disk[j.current][j.place[j.current].offset]
Unreadable == journal.current \in damaged

\* What the calls that need an entry return without one.
AtEntryElse(r) == IF ~AtEntry(journal) THEN EADDRNOTAVAIL ELSE IF Unreadable THEN EBADMSG ELSE r

\* A cursor: all that identifies an entry, written out by sd_journal_get_cursor()
\* and kept by the caller for as long as it likes.
Cursors == UNION {{LocationOf("seek", f, disk[f][p]) : p \in DOMAIN disk[f]} : f \in Files}

GetCursor ==
    Returns("get_cursor", 0, journal, AtEntryElse(0))

\* sd_journal_seek_cursor() with all of the cursor's items, or with its times only.
SeekCursor(c) ==
    \/ Returns("seek", 0, SeekTo(c), 0)
    \/ Returns("seek", 0, SeekTo([c EXCEPT !.seqnum = UNSET, !.id = UNSET]), 0)

TestCursor(c) ==
    Returns("test_cursor", 0, journal,
            AtEntryElse(IF LocationOf("seek", journal.current, EntryAt(journal)) = c
                        THEN 1 ELSE 0))

SeekHead == Returns("seek", 0, SeekTo(Location("head")), 0)
SeekTail == Returns("seek", 0, SeekTo(Location("tail")), 0)

SeekRealtimeUsec(t) ==
    Returns("seek", 0, SeekTo([Location("seek") EXCEPT !.realtime = t]), 0)

SeekMonotonicUsec(boot, t) ==
    Returns("seek", 0,
            SeekTo([Location("seek") EXCEPT !.monotonic = t, !.boot = boot]), 0)

\* sd_journal_add_match(): to the OR of the same field, or to a new one.  Only the
\* newest match of that OR is compared, an older one is added again.
AddMatch(d) ==
    LET m  == journal.matches
        l1 == IF m.level1 THEN m.level0[1] ELSE <<>>
        l2 == IF m.level2 THEN l1[1] ELSE <<>>
        i3 == {i \in DOMAIN l2 : FieldOf(l2[i][1]) = FieldOf(d)}
        known == \E i \in i3 : l2[i][1] = d
        new2 == IF i3 = {} THEN <<<<d>>>> \o l2
                ELSE [l2 EXCEPT ![Min(i3)] = <<d>> \o @]
        new1 == IF m.level2 THEN [l1 EXCEPT ![1] = new2] ELSE <<new2>> \o l1
        new0 == IF m.level1 THEN [m.level0 EXCEPT ![1] = new1] ELSE <<new1>> \o m.level0
    IN
    Returns("add_match", d,
            IF known THEN journal
            ELSE [DetachLocation(journal) EXCEPT
                    !.matches = [level0 |-> new0, level1 |-> TRUE, level2 |-> TRUE]], 0)

\* sd_journal_add_conjunction() and sd_journal_add_disjunction()
AddConjunction ==
    Returns("add_conjunction", 0,
            [journal EXCEPT !.matches.level1 = FALSE, !.matches.level2 = FALSE], 0)

AddDisjunction ==
    Returns("add_disjunction", 0, [journal EXCEPT !.matches.level2 = FALSE], 0)

FlushMatches ==
    Returns("flush_matches", 0,
            [DetachLocation(journal) EXCEPT !.matches = NoMatches], 0)

\* sd_journal_enumerate_data() of the entry at hand
EnumerateData ==
    LET n == Cardinality(EntryAt(journal).items)
        r == AtEntryElse(IF journal.field >= n THEN 0
                         ELSE Items(EntryAt(journal))[journal.field + 1])
    IN  Returns("enumerate_data", 0,
                IF r > 0 THEN [journal EXCEPT !.field = @ + 1] ELSE journal, r)

RestartData ==
    Returns("restart_data", 0, [journal EXCEPT !.field = 0], 0)

\* sd_journal_get_data(): the first item of the field.
GetData(x) ==
    LET s == SelectSeq(Items(EntryAt(journal)), LAMBDA d : FieldOf(d) = x)
    IN  Returns("get_data", x, journal,
                AtEntryElse(IF s = <<>> THEN ENOENT ELSE s[1]))

GetRealtimeUsec ==
    Returns("get_realtime", 0, journal, AtEntryElse(EntryAt(journal).realtime))

\* sd_journal_get_monotonic_usec(), which fails for an entry of another boot
\* unless its caller takes the boot, too.
GetMonotonicUsec(wantsBoot) ==
    Returns("get_monotonic", wantsBoot, journal,
            AtEntryElse(IF ~wantsBoot /\ EntryAt(journal).boot # now.boot THEN ESTALE
                        ELSE EntryAt(journal).monotonic))

\* sd_journal_get_cutoff_realtime_usec(): from the headers of all files that
\* have entries, the first and the last time.
Cutoff(S) == IF S = {} THEN <<>> ELSE <<Min(S), Max(S)>>

GetCutoffRealtimeUsec ==
    LET used == {f \in ToSet(journal.files) : disk[f] # <<>>}
    IN  Returns("cutoff", 0, journal,
                Cutoff({Head(disk[f]).realtime : f \in used} \cup
                       {Last(disk[f]).realtime : f \in used}))

\* sd_journal_get_cutoff_monotonic_usec(): from the first and the last entry of
\* the boot in each file.
GetCutoffMonotonicUsec(b) ==
    LET of(f) == {p \in DOMAIN disk[f] : disk[f][p].boot = b}
        used  == {f \in ToSet(journal.files) : of(f) # {}}
    IN  Returns("cutoff", b, journal,
                Cutoff({disk[f][Min(of(f))].monotonic : f \in used} \cup
                       {disk[f][Max(of(f))].monotonic : f \in used}))

\* The files up to f in the order of the table, f included or not.
UpTo(j, f) == {j.files[i] : i \in 1..Position(j.files, f)}
Before(j, f) == UpTo(j, f) \ {f}

\* sd_journal_query_unique(), also sd_journal_restart_unique()
QueryUnique(x) ==
    Returns("query_unique", x,
            [journal EXCEPT !.unique = [field |-> x, file |-> NoFile, data |-> 0]], 0)

\* The first file that sd_journal_enumerate_unique() will find damaged, as it walks
\* on from the one at hand, or the number of files plus one.
FirstAt(j) == IF j.unique.file = NoFile THEN 1 ELSE Position(j.files, j.unique.file)
DamagedAt(j) == Min({i \in FirstAt(j) .. Len(j.files) : j.files[i] \in damaged}
                      \cup {Len(j.files) + 1})

\* What it will walk through up to there: pairs of a file and a value, behind the
\* value it was at last.
Remaining(j) ==
    LET u    == j.unique
        pairs(f, s) == FoldLeft(LAMBDA t, d : Append(t, [file |-> f, data |-> d]), <<>>, s)
        behind(i, s) == IF i = FirstAt(j) /\ u.data # 0
                        THEN SubSeq(s, Position(s, u.data) + 1, Len(s)) ELSE s
        add(t, i) == t \o pairs(j.files[i], behind(i, FieldList(j.files[i], u.field)))
    IN  FoldLeft(add, <<>>, [n \in 1..DamagedAt(j) - FirstAt(j) |-> FirstAt(j) + n - 1])

\* Mutant of Fresh: only the file before is looked at.
FreshInNeighbour(j, c) ==
    \A g \in Before(j, c.file) : Position(j.files, g) = Position(j.files, c.file) - 1 =>
       c.data \notin ToSet(FieldList(g, j.unique.field))

\* A value is passed over if a file in front has it now.
Fresh(j, c) == \A g \in Before(j, c.file) : c.data \notin ToSet(FieldList(g, j.unique.field))

\* The walk ends at a value that is new, or where a damaged file in front keeps it
\* from being looked up, or at a damaged file.
EnumerateUnique ==
    LET s     == Remaining(journal)
        front(c) == Before(journal, c.file) \cap damaged # {}
        stop  == {i \in DOMAIN s : front(s[i]) \/ Fresh(journal, s[i])}
        bad   == DamagedAt(journal)
        to(c) == [journal EXCEPT !.unique.file = c.file, !.unique.data = c.data]
        end   == [file |-> journal.files[Min({bad, Len(journal.files)})],
                  data |-> IF bad = FirstAt(journal) THEN journal.unique.data ELSE 0]
    IN
    /\ journal.unique.field # NoFile
    /\ IF journal.files = <<>> THEN Returns("unique", 0, journal, 0)
       ELSE IF stop # {}
       THEN LET c == s[Min(stop)] IN Returns("unique", 0, to(c), IF front(c) THEN EBADMSG ELSE c.data)
       ELSE Returns("unique", 0, to(end), IF bad <= Len(journal.files) THEN EBADMSG ELSE 0)

\* A file is found by add_any_file(), or goes by remove_file().
AddAnyFile(f) ==
    /\ f \notin ToSet(journal.files) /\ f \notin damaged
    /\ Returns("add_file", f, [journal EXCEPT !.files = Append(@, f)], 0)

RemoveFile(f) ==
    /\ f \in ToSet(journal.files)
    /\ Returns("remove_file", f, RemoveFilesReal(journal, {f}), 0)


-----------------------------------------------------------------------------
(* The daemon's side                                                       *)

NoCall == [op |-> "none", arg |-> 0, ret |-> 0]

\* A message is logged to the files F: to one, and a copy of it to others (as
\* server_flush_to_var() makes them).
Log(F, s) ==
    /\ now.logged < scope.entries
    /\ disk' = [f \in Files |-> IF f \in F THEN Append(disk[f], NewEntry(f, s)) ELSE disk[f]]
    /\ now' = [now EXCEPT !.realtime = @ + 1, !.monotonic = @ + 1, !.logged = @ + 1]
    /\ call' = NoCall
    /\ told' = [told EXCEPT !.due = @ \ s]
    /\ UNCHANGED <<damaged, journal, scope>>

Reboot ==
    /\ now.boot < scope.boots
    /\ now' = [now EXCEPT !.boot = @ + 1, !.monotonic = 0]
    /\ call' = NoCall
    /\ UNCHANGED <<disk, damaged, journal, scope, told>>

Damage(f) ==
    /\ Cardinality(damaged) < scope.damages
    /\ disk[f] # <<>> /\ f \notin damaged
    /\ damaged' = damaged \cup {f}
    /\ call' = NoCall
    /\ UNCHANGED <<disk, now, journal, scope, told>>

ReaderInit ==
    /\ disk = [f \in Files |-> <<>>]
    /\ damaged = {}
    /\ scope \in Scopes
    /\ now = [realtime |-> 0, monotonic |-> 0, boot |-> 1, logged |-> 0]
    /\ journal = [files |-> <<>>, place |-> [f \in Files |-> NoPlace], current |-> NoFile,
                  location |-> Location("head"), matches |-> NoMatches, field |-> 0,
                  unique |-> [field |-> NoFile, file |-> NoFile, data |-> 0]]
    /\ told = NotTold
    /\ call = NoCall

\* How many matches there are.
Matches ==
    LET Level2(l2) == FoldLeft(LAMBDA n, l3 : n + Len(l3), 0, l2)
        Level1(l1) == FoldLeft(LAMBDA n, l2 : n + Level2(l2), 0, l1)
    IN  FoldLeft(LAMBDA n, l1 : n + Level1(l1), 0, journal.matches.level0)

\* Stepping through the entries.
Walk ==
    \/ \E dir \in Directions : Next(dir) \/ \E n \in {0, 2} : NextSkip(dir, n)
    \/ GetCursor \/ SeekHead \/ SeekTail
    \/ \E c \in Cursors : SeekCursor(c) \/ TestCursor(c)
    \/ \E t \in Jumps : SeekRealtimeUsec(t) \/ \E b \in 1..scope.boots : SeekMonotonicUsec(b, t)
    \/ Matches < scope.matches /\ \E d \in scope.data : AddMatch(d)
    \/ AddConjunction \/ AddDisjunction \/ FlushMatches
    \/ EnumerateData \/ RestartData \/ GetRealtimeUsec \/ GetCutoffRealtimeUsec
    \/ \E b \in BOOLEAN : GetMonotonicUsec(b)
    \/ \E b \in 1..scope.boots : GetCutoffMonotonicUsec(b)
    \/ \E d \in Data : GetData(FieldOf(d))

\* Enumerating the values of a field.
Enumerate == \/ \E d \in scope.data : QueryUnique(FieldOf(d))
             \/ EnumerateUnique

ReaderNext ==
    \/ scope.walk /\ Walk
    \/ ~scope.walk /\ Enumerate
    \/ \E f \in scope.files : AddAnyFile(f) \/ RemoveFile(f) \/ Damage(f)
    \/ \E F \in SUBSET scope.files \ {{}}, s \in Payloads : Log(F, s)
    \/ Reboot

ReaderSpec == ReaderInit /\ [][ReaderNext]_readerVars

-----------------------------------------------------------------------------
(* Properties                                                              *)

\* The reader points to nothing that is closed: the current file is one of its
\* files and was left at the entry that the current location describes, files it
\* has not open have no place, and current_field counts items of that entry
\* (set_location(), detach_location(), remove_file_real()).
PointsToEntry ==
    /\ IsInjective(journal.files)
    /\ \A f \in Files : journal.place[f].offset \in
                          {0} \cup IF f \in ToSet(journal.files) THEN DOMAIN disk[f] ELSE {}
    /\ journal.field <= IF AtEntry(journal) THEN Cardinality(EntryAt(journal).items) ELSE 0
    /\ journal.current # NoFile =>
         /\ journal.current \in ToSet(journal.files)
         /\ AtEntry(journal)
         /\ journal.location = LocationOf("discrete", journal.current, EntryAt(journal))

\* What the matches ask of an entry.
Wanted(e) ==
    LET m == journal.matches.level0 IN
    \A i \in DOMAIN m : \E k \in DOMAIN m[i] : \A x \in DOMAIN m[i][k] :
       \E y \in DOMAIN m[i][k][x] : m[i][k][x][y] \in e.items

\* The entries of the reader's files that can be read and match, as pairs of a
\* file and a place.
Candidates ==
    {c \in UNION {{f} \X DOMAIN disk[f] : f \in ToSet(journal.files) \ damaged} :
       Wanted(disk[c[1]][c[2]])}

Time(c) == disk[c[1]][c[2]].realtime

\* The candidates a call in direction dir may return: those beyond the location.
\* A seek by monotonic time does not leave its boot.
Ahead(dir) ==
    LET l == journal.location IN
    {c \in Candidates :
       IF l.type \in {"head", "tail"} THEN TRUE
       ELSE IF l.realtime = UNSET
            THEN disk[c[1]][c[2]].boot = l.boot
                 /\ Beyond(disk[c[1]][c[2]].monotonic, l.monotonic, dir)
       ELSE /\ Beyond(Time(c), l.realtime, dir)
            /\ l.type = "discrete" => Time(c) # l.realtime}

\* The nearest moments ahead in direction dir.
NearestAhead(dir) ==
    {c \in Ahead(dir) : \A d \in Ahead(dir) : Beyond(Time(d), Time(c), dir)}

\* The reader remembers a place of the same direction in some file that lies
\* beyond its location: the direction was changed twice since.
TurnedTwice(dir) ==
    \E f \in ToSet(journal.files) :
       /\ journal.place[f].dir = dir /\ journal.place[f].offset > 0
       /\ LET e == disk[f][journal.place[f].offset].realtime
          IN  journal.location.realtime # e /\ Beyond(e, journal.location.realtime, dir)

\* A file that does not know the boot of a seek by monotonic time is read from
\* its end ("FIXME" of find_location_for_match()).
UnknownBoot ==
    /\ journal.location.realtime = UNSET /\ journal.location.monotonic # UNSET
    /\ \E f \in ToSet(journal.files) :
          journal.location.boot \notin {disk[f][p].boot : p \in DOMAIN disk[f]}

\* The end the reader is at and from which it is asked to go further.
WrongEnd(dir) == \/ journal.location.type = "head" /\ dir = UP
                 \/ journal.location.type = "tail" /\ dir = DOWN

NextIsExact(dir) ==
    IF Ahead(dir) = {} THEN call'.ret = 0
    ELSE /\ call'.ret = 1
         /\ <<journal'.current, journal'.place[journal'.current].offset>>
              \in NearestAhead(dir)

\* sd_journal_next() and sd_journal_previous() return the nearest entry of all
\* files that matches and lies beyond the location, and return each message once
\* though several files have it; whatever was appended, added, removed, damaged
\* or sought before.  The exceptions are named above.
NextExact ==
    [][\A dir \in Directions :
         call'.op = "next" /\ call'.arg = dir =>
           WrongEnd(dir) \/ TurnedTwice(dir) \/ UnknownBoot \/ NextIsExact(dir)]_readerVars

\* An enumeration of the unique values of a field returns no value twice and
\* every value that the files had when it began, while values are logged, files
\* are added, removed and found damaged, and after an error as well; what the
\* history excepts aside (sd_journal_enumerate_unique()).
UniqueExact ==
    [][told.active /\ call'.op = "unique" /\ call'.ret >= 0 =>
         IF call'.ret = 0 THEN told.due = {} ELSE call'.ret \notin told.seen]_readerVars
=============================================================================
