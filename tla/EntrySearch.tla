---------------------------- MODULE EntrySearch -----------------------------
(***************************************************************************)
(* A reader of the entry index (lib/journal-file.c): one JournalFile that  *)
(* another process has opened, with its chain cache.  It seeks entries by  *)
(* bisection over a chain of entry arrays, steps to the next or previous   *)
(* entry and skips entries, while the writer of EntryIndex appends to the  *)
(* same file.                                                              *)
(*                                                                         *)
(* A seek reads the chain's counter, then the fields that lead to its      *)
(* items, then one array after the other; each read is a step of its own.  *)
(***************************************************************************)
EXTENDS EntryIndex, Integers, SequencesExt

CONSTANTS
    CHAIN_CACHE_MAX,  \* cached chains (20 in the source)
    Scopes            \* bound: what a run explores together (see scope)

ASSUME SearchAssumption ==
    /\ CHAIN_CACHE_MAX \in Nat \ {0}
    /\ \A s \in Scopes :
         /\ s.items \subseteq Items /\ s.entries \in 0..MaxEntries
         /\ s.calls \subseteq {"seek", "next", "skip", "both"}
         /\ s.needles \subseteq Nat

VARIABLES
    cache,     \* f->chain_cache, in the order of insertion
    reader,    \* the operation in progress
    scope      \* bound: the items and number of entries appended, the functions
               \* called and the values searched for in this behaviour

searchVars == <<entry, chain, writer, unlinked, cache, reader, scope>>

Down == "DIRECTION_DOWN"
Up   == "DIRECTION_UP"

\* last_index == (uint64_t) -1
NONE == -1

\* The attribute a test_object_*() callback compares: the entry's offset, its
\* sequence number (in the same order) or a timestamp two entries may share.
Key(test, p) == IF test = "offset" THEN p ELSE (p + 1) \div 2

\* TEST_FOUND counts as TEST_RIGHT downwards and as TEST_LEFT upwards.
IsRight(q, p) ==
    IF q.dir = Down THEN Key(q.test, p) >= q.needle
                    ELSE Key(q.test, p) > q.needle

-----------------------------------------------------------------------------
(* The chain cache                                                         *)

Cached(c) == {k \in DOMAIN cache : cache[k].first = c}

CacheItem(c) == cache[CHOOSE k \in Cached(c) : TRUE]

\* chain_cache_put(): an item is updated in place; the first array of a chain
\* is not worth a new item; a full cache gives up its oldest item.
ChainCachePut(c, j, total, lastIndex) ==
    LET ci   == [first |-> c, array |-> j, total |-> total,
                 begin |-> chain[c].arrays[j].items[1], last |-> lastIndex]
        kept == IF Len(cache) >= CHAIN_CACHE_MAX THEN Tail(cache) ELSE cache
    IN  IF Cached(c) # {}
        THEN [k \in DOMAIN cache |-> IF k \in Cached(c) THEN ci ELSE cache[k]]
        ELSE IF j = 1 THEN cache ELSE Append(kept, ci)

-----------------------------------------------------------------------------
(* generic_array_bisect()                                                  *)

\* The loop that halves the range <<left, right>>; the result is the first index
\* to the right of the needle.
Halve(q, items) ==
    LET f[w \in (0..Len(items)) \X (0..Len(items))] ==
          IF w[1] >= w[2] THEN w[1]
          ELSE LET i == (w[1] + w[2]) \div 2
               IN  IF IsRight(q, items[i + 1]) THEN f[<<w[1], i>>]
                                               ELSE f[<<i + 1, w[2]>>]
    IN  f

\* Mutant of Narrow: the neighbour above is cut off together with what follows.
NarrowTooFar(q, items, last, right) ==
    LET x == IF last = NONE \/ last = 0 THEN <<0, right>>
             ELSE IF IsRight(q, items[last]) THEN <<0, last - 1>>
                                             ELSE <<last, right>>
    IN  IF last = NONE \/ last >= x[2] THEN x
        ELSE IF IsRight(q, items[last + 2]) THEN <<x[1], last>>
                                            ELSE <<last + 2, x[2]>>

\* The range left to halve once the neighbours of the index used last time
\* have been looked at; last <= right is asserted by the code.
Narrow(q, items, last, right) ==
    LET x == IF last = NONE \/ last = 0 THEN <<0, right>>
             ELSE IF IsRight(q, items[last]) THEN <<0, last - 1>>
                                             ELSE <<last, right>>
    IN  IF last = NONE \/ last >= x[2] THEN x
        ELSE IF IsRight(q, items[last + 2]) THEN <<x[1], last + 1>>
                                            ELSE <<last + 2, x[2]>>
-----------------------------------------------------------------------------
(* The reader's steps                                                      *)

\* A call of the public functions below, and a bisection one of them makes.
\* seen is history: the entries whose linking was over when the call was made.
NoCall  == [name |-> "none", c |-> Header, dir |-> Down, test |-> "offset",
            arg |-> 0, boot |-> Header, seen |-> 0]
NoQuery == [c |-> Header, test |-> "offset", needle |-> 0, dir |-> Down]

\* The loop state of a bisection: the array reached, what is left of n, the
\* items before that array, the cached index, the last item passed over.
NoLoop == [a |-> 0, n |-> 0, t |-> 0, last |-> NONE, prev |-> 0]

\* call: the function called; query: the bisection in progress, on a chain
\* whose counter was n and whose extra entry was extra, with loop state at;
\* count: the counter the function itself read, or the entry whose presence in
\* the second chain "both" is looking for; res, idx: the entry found (0: none)
\* and its index.
IdleReader ==
    [pc |-> "idle", call |-> NoCall, query |-> NoQuery, n |-> 0, extra |-> 0,
     at |-> NoLoop, count |-> 0, res |-> 0, idx |-> 0]

SearchInit ==
    /\ IndexInit
    /\ cache = <<>>
    /\ reader = IdleReader
    /\ scope \in Scopes

\* Mutant of ArgumentOrder: the counter is read last.
ArgumentOrderReversed == <<"head", "count">>

\* The order in which the arguments of a generic_array_bisect*() call are read
\* from the shared header or data object: the compiler evaluates them from the
\* last one, the counter, to the first.
ArgumentOrder == <<"count", "head">>

\* Reader r calls generic_array_bisect() or its plus_one variant.
Bisect(r, c, test, needle, dir) ==
    [r EXCEPT !.pc = ArgumentOrder[1], !.at = NoLoop,
              !.query = [c |-> c, test |-> test, needle |-> needle, dir |-> dir]]

\* The operation of reader r ends with entry p at index i, without an entry,
\* or in a failed assertion or -EBADMSG.
Return(r, p, i) == [r EXCEPT !.pc = "done", !.res = p, !.idx = i]
Nothing(r)      == Return(r, 0, 0)
Abort(r)        == [r EXCEPT !.pc = "abort"]

\* generic_array_get() at index i follows.
Get(r, i) == [r EXCEPT !.pc = "get", !.idx = i]

\* Mutant of ResumeNext: a step past the last entry counted.
ResumeNextPastLast(r, i) ==
    IF r.call.dir = Down
    THEN IF i >= r.count THEN Nothing(r) ELSE Get(r, i + 1)
    ELSE IF i = 0 THEN Nothing(r) ELSE Get(r, i - 1)

\* journal_file_next_entry() steps from index i.
ResumeNext(r, i) ==
    IF r.call.dir = Down
    THEN IF i >= r.count - 1 THEN Nothing(r) ELSE Get(r, i + 1)
    ELSE IF i = 0 THEN Nothing(r) ELSE Get(r, i - 1)

\* Mutants of ResumeBoth: the second chain is not asked; the search of the first
\* one is repeated with the old needle.
ResumeBothUnconfirmed(r, p, i) ==
    IF r.query.test = "offset" THEN Return(r, p, i)
    ELSE Bisect(r, r.call.c, "offset", p, r.call.dir)

ResumeBothSameNeedle(r, p, i) ==
    IF r.query.test = "offset" /\ r.count = 0
    THEN Bisect([r EXCEPT !.count = p], r.call.boot, "offset", p, r.call.dir)
    ELSE IF p = r.count THEN Return(r, p, i)
    ELSE Bisect([r EXCEPT !.count = 0], r.call.c, "offset",
                IF r.count = 0 THEN p ELSE r.count, r.call.dir)

\* journal_file_move_to_entry_by_monotonic_for_data(): an entry found in chain
\* call.c is looked up in the boot's chain, and one found there that is not the
\* same is looked up in chain call.c.
ResumeBoth(r, p, i) ==
    IF r.query.test = "offset" /\ r.count = 0
    THEN Bisect([r EXCEPT !.count = p], r.call.boot, "offset", p, r.call.dir)
    ELSE IF p = r.count THEN Return(r, p, i)
    ELSE Bisect([r EXCEPT !.count = 0], r.call.c, "offset", p, r.call.dir)

\* The operation's next move once its bisection has found entry p at index i,
\* or nothing (p = 0).
Resume(r, p, i) ==
    CASE p = 0 -> Nothing(r)
      [] p # 0 /\ r.call.name = "seek" -> Return(r, p, i)
      [] p # 0 /\ r.call.name = "next" -> ResumeNext(r, i)
      [] p # 0 /\ r.call.name = "skip" -> [r EXCEPT !.pc = "skip", !.idx = i]
      [] p # 0 /\ r.call.name = "both" -> ResumeBoth(r, p, i)

\* The bisection found nothing; looking upwards from beyond the extra entry of
\* a data object it then falls back on that entry.
NotFound(r) ==
    IF r.query.c # Header /\ r.query.dir = Up
    THEN Resume(r, r.extra, 0)
    ELSE Resume(r, 0, 0)

\* Begin an operation.
Begin(call, r) ==
    /\ reader = IdleReader
    /\ call.name \in scope.calls
    /\ reader' = [r EXCEPT !.call = call]
    /\ UNCHANGED <<indexVars, cache, scope>>

\* journal_file_move_to_entry_by_*(): one bisection of chain c.
Seek(c, test, needle, dir) ==
    Begin([NoCall EXCEPT !.name = "seek", !.c = c, !.dir = dir,
                         !.test = test, !.arg = needle],
          Bisect(reader, c, test, needle, dir))

\* journal_file_next_entry() from entry p of the main chain, and (p = 0) the
\* first or last entry of a chain, journal_file_next_entry_for_data() included.
NextEntry(c, p, dir) ==
    LET n == chain[c].n
        r == [reader EXCEPT !.count = n, !.query.c = c]
    IN  /\ p # 0 => c = Header
        /\ Begin([NoCall EXCEPT !.name = "next", !.c = c, !.dir = dir,
                                !.arg = p],
                 IF n = 0 THEN Nothing(r)
                 ELSE IF p = 0 THEN Get(r, IF dir = Down THEN 0 ELSE n - 1)
                 ELSE Bisect(r, Header, "offset", p, Down))

\* journal_file_skip_entry(): by entries down or up from entry p.
SkipEntry(p, dir, by) ==
    Begin([NoCall EXCEPT !.name = "skip", !.dir = dir, !.arg = by],
          Bisect(reader, Header, "offset", p, Down))

\* journal_file_move_to_entry_by_monotonic_for_data(): the first entry of data
\* object d at or after a time of the boot whose data object is boot.
SeekBoth(d, boot, needle, dir) ==
    Begin([NoCall EXCEPT !.name = "both", !.c = d, !.dir = dir,
                         !.test = "time", !.arg = needle, !.boot = boot,
                         !.seen = IF writer = Idle THEN Current ELSE Current - 1],
          Bisect(reader, boot, "time", needle, dir))

Step(pc, r) ==
    /\ reader.pc = pc
    /\ reader' = r
    /\ UNCHANGED <<indexVars, scope>>

\* The argument to read after this one, or the search itself.
After(arg) == IF arg = ArgumentOrder[1] THEN ArgumentOrder[2] ELSE "begin"

ReadCount ==
    /\ Step("count", [reader EXCEPT !.pc = After("count"),
                                    !.n = chain[reader.query.c].n])
    /\ UNCHANGED cache

ReadHead ==
    LET c == reader.query.c IN
    /\ Step("head", [reader EXCEPT !.pc = After("head"),
                        !.extra = chain[c].extra,
                        !.at.a = IF chain[c].arrays = <<>> THEN 0 ELSE 1])
    /\ UNCHANGED cache

\* generic_array_bisect() enters its loop, at the cached array if that starts
\* left of the needle.
EnterLoop(r, n) ==
    LET c  == r.query.c
        ci == CacheItem(c)
    IN  IF r.at.a = 0 THEN NotFound(r)
        ELSE IF /\ Cached(c) # {}
                /\ n > ci.total
                /\ Key(r.query.test, ci.begin) < r.query.needle
        THEN [r EXCEPT !.pc = "array",
                       !.at = [NoLoop EXCEPT !.a = ci.array, !.n = n - ci.total,
                                             !.t = ci.total, !.last = ci.last]]
        ELSE [r EXCEPT !.pc = "array", !.at.n = n]

\* generic_array_bisect_plus_one() looks at the extra entry first.
BeginBisect ==
    LET r == reader IN
    /\ Step("begin",
            IF r.query.c = Header THEN EnterLoop(r, r.n)
            ELSE IF r.n = 0 THEN Resume(r, 0, 0)
            ELSE IF r.extra = 0 THEN Abort(r)
            ELSE IF ~IsRight(r.query, r.extra) THEN EnterLoop(r, r.n - 1)
            ELSE IF r.query.dir = Down THEN Resume(r, r.extra, 0)
            ELSE Resume(r, 0, 0))
    /\ UNCHANGED cache

\* The label "found": index i of array a, or the item before it.
Found(r, i) ==
    LET c     == r.query.c
        at    == r.at
        items == chain[c].arrays[at.a].items
        back  == r.query.dir = Up
        plus  == IF c = Header THEN 0 ELSE 1
        p     == IF back /\ i = 0 THEN at.prev
                 ELSE IF back THEN items[i] ELSE items[i + 1]
    IN  IF back /\ at.t = 0 /\ i = 0
        THEN Step("array", NotFound(r)) /\ UNCHANGED cache
        ELSE /\ cache' = ChainCachePut(c, at.a, at.t,
                            IF ~back THEN i ELSE IF i > 0 THEN i - 1 ELSE NONE)
             /\ Step("array",
                     IF p = 0 THEN Abort(r)
                     ELSE Resume(r, p, at.t + i + plus - (IF back THEN 1 ELSE 0)))

\* One turn of the loop over the arrays.
SearchArray ==
    LET r     == reader
        at    == r.at
        items == chain[r.query.c].arrays[at.a].items
        k     == Len(items)
        right == IF k < at.n THEN k ELSE at.n
        range == Narrow(r.query, items, at.last, right - 1)
        next  == IF at.a < Len(chain[r.query.c].arrays) THEN at.a + 1 ELSE 0
    IN  /\ r.pc = "array"
        /\ \/ /\ right = 0
              /\ Step("array", NotFound(r)) /\ UNCHANGED cache
           \/ /\ right > 0 /\ items[right] = 0
              /\ Step("array", Abort(r)) /\ UNCHANGED cache
           \/ /\ right > 0 /\ items[right] # 0 /\ IsRight(r.query, items[right])
              /\ IF at.last # NONE /\ at.last > right - 1
                 THEN Step("array", Abort(r)) /\ UNCHANGED cache
                 ELSE Found(r, Halve(r.query, items)[range])
           \/ /\ right > 0 /\ items[right] # 0 /\ ~IsRight(r.query, items[right])
              /\ IF k > at.n
                 THEN IF r.query.dir = Up THEN Found(r, at.n)
                      ELSE Step("array", NotFound(r)) /\ UNCHANGED cache
                 ELSE LET s == [r EXCEPT !.at = [a |-> next, n |-> at.n - k,
                                                 t |-> at.t + k, last |-> NONE,
                                                 prev |-> items[right]]]
                      IN  /\ Step("array", IF next = 0 THEN NotFound(s) ELSE s)
                          /\ UNCHANGED cache
\* journal_file_skip_entry() moves the index and cuts it off at the counter,
\* which it reads only now.
ClampSkip ==
    LET i == reader.idx
        n == chain[Header].n
        m == IF reader.call.dir = Down THEN i + reader.call.arg
             ELSE IF reader.call.arg >= i THEN 0 ELSE i - reader.call.arg
    IN  /\ Step("skip", IF n = 0 THEN Abort(reader)
                        ELSE Get([reader EXCEPT !.count = n],
                                 IF m >= n THEN n - 1 ELSE m))
        /\ UNCHANGED cache

\* generic_array_get(): walk the arrays from the cached one, or from the first
\* one if the index lies before it, to the item with the index wanted.
GetFromArrays(r, i) ==
    LET c      == r.query.c
        arrays == chain[c].arrays
        skip   == Cached(c) # {} /\ i > CacheItem(c).total
        a      == IF skip THEN CacheItem(c).array ELSE 1
        t      == IF skip THEN CacheItem(c).total ELSE 0
        j      == CHOOSE j \in a..Len(arrays) :
                    /\ arrays[j].start <= arrays[a].start + i - t
                    /\ arrays[a].start + i - t < End(arrays[j])
        k      == arrays[a].start + i - t - arrays[j].start
        p      == arrays[j].items[k + 1]
        wrong  == /\ r.call.name = "next" /\ r.call.arg # 0
                  /\ IF r.call.dir = Down THEN p <= r.call.arg
                                          ELSE p >= r.call.arg
    IN  IF arrays = <<>> \/ arrays[a].start + i - t >= End(arrays[Len(arrays)])
        THEN Step("get", Nothing(r)) /\ UNCHANGED cache
        ELSE /\ Step("get", IF p = 0 \/ wrong THEN Abort(r)
                                              ELSE Return(r, p, r.idx))
             /\ cache' = ChainCachePut(c, j, i - k, k)

\* generic_array_get() and generic_array_get_plus_one().
GetEntry ==
    LET r == reader
        c == r.query.c
    IN  /\ r.pc = "get"
        /\ IF c # Header /\ r.idx = 0
           THEN Step("get", Return(r, chain[c].extra, 0)) /\ UNCHANGED cache
           ELSE GetFromArrays(r, ArrayIndex(c, r.idx))

\* The caller takes the result.
Finish == Step("done", IdleReader) /\ UNCHANGED cache

\* Entries a reader may hold: the published ones.
Positions == {Item(Header, i) : i \in Indices(Header)}

\* The data objects, and so the chains, of the scope.
ScopeData == UNION {{s[k] : k \in DOMAIN s} : s \in scope.items}

ScopeChains == {Header} \cup ScopeData

ReaderNext ==
    \/ \E c \in ScopeChains, test \in {"offset", "time"}, dir \in {Down, Up} :
          \E needle \in scope.needles : Seek(c, test, needle, dir)
    \/ \E c \in ScopeChains, p \in Positions \cup {0}, dir \in {Down, Up} :
          NextEntry(c, p, dir)
    \/ \E p \in Positions, dir \in {Down, Up}, by \in 1..2 :
          SkipEntry(p, dir, by)
    \/ \E d, boot \in ScopeData, needle \in scope.needles, dir \in {Down, Up} :
          d # boot /\ SeekBoth(d, boot, needle, dir)
    \/ ReadCount \/ ReadHead \/ BeginBisect \/ SearchArray
    \/ ClampSkip \/ GetEntry \/ Finish

SearchNext ==
    \/ /\ \/ \E items \in scope.items : Len(entry) < scope.entries /\ AppendEntry(items)
          \/ StoreEntry \/ StoreFails \/ CountEntry
       /\ UNCHANGED <<cache, reader, scope>>
    \/ ReaderNext

ReaderStep == ReadCount \/ ReadHead \/ BeginBisect \/ SearchArray \/ ClampSkip
                \/ GetEntry \/ Finish

SearchSpec ==
    /\ SearchInit /\ [][SearchNext]_searchVars
    /\ WF_searchVars(ReaderStep)
-----------------------------------------------------------------------------
(* Properties                                                              *)

\* The indices among the first n of chain c that a search may return, and the
\* one it must return: the nearest to the needle.
Candidates(call, n) ==
    {i \in 0..n : /\ i < n
                  /\ IF call.dir = Down
                     THEN Key(call.test, Item(call.c, i)) >= call.arg
                     ELSE Key(call.test, Item(call.c, i)) <= call.arg}

IsNearest(i, call, n) ==
    /\ i \in Candidates(call, n)
    /\ \A j \in Candidates(call, n) : IF call.dir = Down THEN i <= j ELSE j <= i

Done(name) == reader.pc = "done" /\ reader.call.name = name

SeekIsExact ==
    \/ reader.res = 0 /\ Candidates(reader.call, reader.n) = {}
    \/ /\ IsNearest(reader.idx, reader.call, reader.n)
       /\ reader.res = Item(reader.call.c, reader.idx)

\* Looking upwards from beyond the last item of a chain whose arrays are
\* exactly full, generic_array_bisect() runs out of arrays ("k > n" is not
\* satisfied when k = n) and reports that there is nothing.
EndsInFullArray ==
    LET c == reader.call.c IN
    /\ reader.call.dir = Up
    /\ reader.n > 0 /\ (reader.n - 1) \in Candidates(reader.call, reader.n)
    /\ \E j \in DOMAIN chain[c].arrays :
          End(chain[c].arrays[j]) = ArrayIndex(c, reader.n)

\* A seek returns exactly the entry that the chain's items, as many as the
\* counter showed, make the nearest one to the needle, whatever earlier seeks
\* left in the cache and however much is appended meanwhile; the one exception
\* is EndsInFullArray.
SeekExact == Done("seek") /\ ~EndsInFullArray => SeekIsExact

\* journal_file_next_entry() and journal_file_skip_entry() move by the number
\* of entries asked for and stop at the first and at the last entry that was
\* counted, never earlier and never later.
StepExact ==
    LET call == reader.call IN
    /\ Done("next") =>
         LET from == CHOOSE i \in Indices(Header) : Item(Header, i) = call.arg
             to   == IF call.arg = 0
                     THEN IF call.dir = Down THEN {0} ELSE {reader.count - 1}
                     ELSE IF call.dir = Down THEN {from + 1}
                     ELSE IF from = 0 THEN {} ELSE {from - 1}
             ok   == {i \in to : 0 <= i /\ i < reader.count}
         IN  IF ok = {} THEN reader.res = 0
             ELSE \E i \in ok : reader.idx = i /\ reader.res = Item(call.c, i)
    /\ Done("skip") =>
         LET from == CHOOSE i \in Indices(Header) :
                       Item(Header, i) = reader.query.needle
         IN  /\ reader.res = Item(Header, reader.idx)
             /\ IF call.dir = Down
                THEN \/ reader.idx = from + call.arg
                     \/ reader.idx = reader.count - 1 /\ reader.idx < from + call.arg
                ELSE \/ reader.idx + call.arg = from
                     \/ reader.idx = 0 /\ from < call.arg

\* Whatever is called returns what the entries counted make the right answer.
SearchExact == SeekExact /\ StepExact

\* A seek by time within a boot returns an entry of that boot with the data
\* object asked for, on the right side of the time; downwards it skips none
\* that was linked when the call was made.
SeekBothExact ==
    LET call  == reader.call
        In(p) == /\ Linked(call.c, p) /\ Linked(call.boot, p)
                 /\ IF call.dir = Down THEN Key("time", p) >= call.arg
                                       ELSE Key("time", p) <= call.arg
    IN  Done("both") =>
          /\ reader.res # 0 => In(reader.res)
          /\ call.dir = Down =>
               \A p \in 1..call.seen : In(p) => reader.res # 0 /\ reader.res <= p

\* No assertion of the search fails ("last_index <= right", "p > 0" in the
\* test_object_*() callbacks) and no item is found unset, which the code
\* reports as -EBADMSG.
NeverAborts == reader.pc # "abort"

\* A cached position stays true while the chain grows: its array starts where
\* the cache says, with the item it says, and the index looked at last is still
\* one of those counted.
CacheCoherent ==
    /\ Len(cache) <= CHAIN_CACHE_MAX
    /\ \A k \in DOMAIN cache :
         LET ci     == cache[k]
             arrays == chain[ci.first].arrays
         IN  /\ Cached(ci.first) = {k}
             /\ ci.array \in DOMAIN arrays
             /\ ci.total = arrays[ci.array].start
             /\ ci.begin = arrays[ci.array].items[1] /\ ci.begin # 0
             /\ \/ ci.last = NONE
                \/ ci.total + ci.last < ArrayIndex(ci.first, chain[ci.first].n)

\* A search neither fails nor leaves a position in the cache that could mislead
\* the next one.
SearchSafe == NeverAborts /\ CacheCoherent

\* Every operation ends, the unbounded loop that seeks one entry in two chains
\* included.
OperationEnds == reader.pc # "idle" ~> reader.pc = "idle"
=============================================================================
