------------------------------ MODULE Hashmap -------------------------------
(***************************************************************************)
(* The hash map of shared/hashmap.c, on which the server keeps the user    *)
(* journals and the reader its files, pointer by pointer: every entry is   *)
(* in a doubly linked list of its bucket and in one of the whole map, in   *)
(* the order of insertion, and is a tile of a pool that all maps share.    *)
(* Callers walk a map with an iterator and change the map meanwhile.       *)
(***************************************************************************)
EXTENDS Integers, Sequences, SequencesExt, FiniteSets

CONSTANTS
    Maps,               \* the hash maps, numbers
    Pairs,              \* the keys and values callers put: pairs of positive numbers
    HashKeys,           \* the random hash keys
    Hash(_, _),         \* hash_func: of a key under a hash key
    INITIAL_N_BUCKETS,
    Busy,               \* bound: the maps of the other calls than put, merge and move
    MaxTiles            \* bound: tiles of the pool

ASSUME HashAssumption ==
    /\ Pairs \subseteq (Nat \ {0}) \X (Nat \ {0})
    /\ \A k \in {p[1] : p \in Pairs}, r \in HashKeys : Hash(k, r) \in Nat
    /\ INITIAL_N_BUCKETS \in Nat \ {0}
    /\ MaxTiles \in Nat

VARIABLES
    heap,      \* the tiles, the maps and the pool
    call,      \* the last call, its arguments and what it returned
    loop       \* a HASHMAP_FOREACH in progress

hashVars == <<heap, call, loop>>

Keys == {p[1] : p \in Pairs}

NULL == 0
ENOENT == -2
ENOMEM == -12
EEXIST == -17

\* The tiles of the pool; at NULL there is a blank one that is never written.
Tiles == 1..MaxTiles
BlankTile == [key |-> NULL, value |-> NULL, bucket_next |-> NULL, bucket_previous |-> NULL,
              iterate_next |-> NULL, iterate_previous |-> NULL]

\* hashmap_new() under the hash key that was drawn last.
NewMap(r) ==
    [iterate_list_head |-> NULL, iterate_list_tail |-> NULL,
     buckets |-> [b \in 0..INITIAL_N_BUCKETS - 1 |-> NULL],
     n_buckets |-> INITIAL_N_BUCKETS, n_entries |-> 0, hash_key |-> r]

-----------------------------------------------------------------------------
(* Lists                                                                   *)

\* The tiles met from p on by the pointer f, at most one more than there are.
Follow(tile, p, f) ==
    LET Nth[n \in 1..MaxTiles + 1] == IF n = 1 THEN p ELSE tile[Nth[n - 1]][f]
    IN  SelectSeq([n \in 1..MaxTiles + 1 |-> Nth[n]], LAMBDA e : e # NULL)

IterateList(h, m) == Follow(h.tile, h.maps[m].iterate_list_head, "iterate_next")

\* tile with the pointer f of e set to q; setting one of NULL does nothing.
Point(tile, e, f, q) == IF e = NULL THEN tile ELSE [tile EXCEPT ![e][f] = q]

\* e into, and out of, the list of bucket b: a record of tiles and buckets.
BucketPush(t, e, b) ==
    LET first == t.buckets[b] IN
    [tile    |-> Point(Point(Point(t.tile, e, "bucket_next", first),
                             e, "bucket_previous", NULL),
                       first, "bucket_previous", e),
     buckets |-> [x \in DOMAIN t.buckets |-> IF x = b THEN e ELSE t.buckets[x]]]

BucketDrop(t, e, b) ==
    LET next == t.tile[e].bucket_next
        prev == t.tile[e].bucket_previous
    IN  [tile    |-> Point(Point(t.tile, next, "bucket_previous", prev),
                           prev, "bucket_next", next),
         buckets |-> IF prev = NULL THEN [t.buckets EXCEPT ![b] = next] ELSE t.buckets]

Table(h, m) == [tile |-> h.tile, buckets |-> h.maps[m].buckets]

BucketHash(h, m, k) == Hash(k, h.maps[m].hash_key) % h.maps[m].n_buckets

\* link_entry()
LinkEntry(h, m, e, b) ==
    LET t    == BucketPush(Table(h, m), e, b)
        tail == h.maps[m].iterate_list_tail
    IN  [h EXCEPT
           !.tile = Point(Point(Point(t.tile, e, "iterate_previous", tail),
                                e, "iterate_next", NULL),
                          tail, "iterate_next", e),
           !.maps[m].buckets = t.buckets,
           !.maps[m].iterate_list_head = IF tail = NULL THEN e ELSE @,
           !.maps[m].iterate_list_tail = e,
           !.maps[m].n_entries = @ + 1]

\* unlink_entry()
UnlinkEntry(h, m, e, b) ==
    LET next == h.tile[e].iterate_next
        prev == h.tile[e].iterate_previous
        i    == [h EXCEPT
                   !.tile = Point(Point(@, next, "iterate_previous", prev),
                                  prev, "iterate_next", next),
                   !.maps[m].iterate_list_tail = IF next = NULL THEN prev ELSE @,
                   !.maps[m].iterate_list_head = IF prev = NULL THEN next ELSE @]
        t    == BucketDrop(Table(i, m), e, b)
    IN  [i EXCEPT !.tile = t.tile, !.maps[m].buckets = t.buckets,
                  !.maps[m].n_entries = @ - 1]

\* deallocate_tile(): the pointer to the next free tile overwrites the key.
Deallocate(h, e) == [h EXCEPT !.tile[e] = BlankTile, !.free = @ \cup {e}]

\* allocate_tile(): the tile released last or a new one; which one makes no
\* difference to anybody, so let it be the least.
TileOf(h) == CHOOSE e \in h.free : \A f \in h.free : e <= f
Allocate(h) == [h EXCEPT !.free = @ \ {TileOf(h)}]

\* remove_entry()
RemoveEntry(h, m, e) ==
    Deallocate(UnlinkEntry(h, m, e, BucketHash(h, m, h.tile[e].key)), e)

\* hash_scan(): the first entry of the key's bucket with the key.
Scan(h, m, k) ==
    LET s == Follow(h.tile, h.maps[m].buckets[BucketHash(h, m, k)], "bucket_next")
        i == {j \in DOMAIN s : h.tile[s[j]].key = k}
    IN  IF i = {} THEN NULL ELSE s[CHOOSE j \in i : \A x \in i : j <= x]

\* resize_buckets() to m buckets under the hash key r: every entry, in the
\* order of the iteration list, leaves its old bucket for its new one.
Resize(h, m, r) ==
    LET n    == (h.maps[m].n_entries + 1) * 4 - 1
        step(a, e) ==
          LET d == BucketDrop([tile |-> a.tile, buckets |-> a.old], e,
                              BucketHash(h, m, h.tile[e].key))
              p == BucketPush([tile |-> d.tile, buckets |-> a.new], e,
                              Hash(h.tile[e].key, r) % n)
          IN  [tile |-> p.tile, old |-> d.buckets, new |-> p.buckets]
        end  == FoldLeft(step, [tile |-> h.tile, old |-> h.maps[m].buckets,
                                new |-> [b \in 0..n - 1 |-> NULL]], IterateList(h, m))
    IN  [h EXCEPT !.tile = end.tile, !.maps[m].buckets = end.new,
                  !.maps[m].n_buckets = n, !.maps[m].hash_key = r]

Crowded(h, m) == h.maps[m].n_entries * 4 >= h.maps[m].n_buckets * 3

\* What resize_buckets() can make of m: nothing when memory is short.
Resizings(h, m) ==
    {h} \cup (IF Crowded(h, m) THEN {Resize(h, m, r) : r \in HashKeys} ELSE {})

\* A new entry behind all others.
Insert(h, m, k, v) ==
    LET e == TileOf(h)
        a == [Allocate(h) EXCEPT !.tile[e] = [BlankTile EXCEPT !.key = k, !.value = v]]
    IN  LinkEntry(a, m, e, BucketHash(h, m, k))

\* Entry e of m under a new key, behind all others (hashmap_remove_and_put()).
Rekey(h, m, e, k, v) ==
    LET u == UnlinkEntry(h, m, e, BucketHash(h, m, h.tile[e].key))
    IN  LinkEntry([u EXCEPT !.tile[e].key = k, !.tile[e].value = v], m, e,
                  BucketHash(h, m, k))

\* Entry e of map n becomes one of m (hashmap_move_one()).
Transfer(h, m, n, e) ==
    LET k == h.tile[e].key
    IN  LinkEntry(UnlinkEntry(h, n, e, BucketHash(h, n, k)), m, e, BucketHash(h, m, k))

-----------------------------------------------------------------------------
(* The calls                                                               *)

\* A caller in the middle of a loop over m removes no entry of m but the one
\* it is at: the server, the reader and the mmap cache all keep to that.
MayRemove(m, k) == loop.map = m => k = loop.key
MayRemoveAny(m) == loop.map # m

\* The entries the loop has still to visit, once those of keys left m.
Gone(m, ks) == IF loop.map = m THEN [loop EXCEPT !.ahead = @ \ ks] ELSE loop

\* The call op(args) leaves the heap h and returns r.
Done(op, args, h, r) ==
    heap' = h /\ call' = [op |-> op, args |-> args, ret |-> <<r>>]

PutEntry(op, m, k, v) ==
    LET e == Scan(heap, m, k) IN
    IF e # NULL
    THEN Done(op, <<m, k, v>>, heap, IF heap.tile[e].value = v THEN 0 ELSE EEXIST)
    ELSE \E h \in Resizings(heap, m) :
            \/ h.free # {} /\ Done(op, <<m, k, v>>, Insert(h, m, k, v), 1)
            \/ Done(op, <<m, k, v>>, h, ENOMEM)

HashmapPut(m, k, v) == PutEntry("put", m, k, v) /\ UNCHANGED loop

HashmapReplace(m, k, v) ==
    LET e == Scan(heap, m, k) IN
    /\ UNCHANGED loop
    /\ IF e # NULL
       THEN Done("replace", <<m, k, v>>,
                 [heap EXCEPT !.tile[e].key = k, !.tile[e].value = v], 0)
       ELSE PutEntry("replace", m, k, v)

HashmapUpdate(m, k, v) ==
    LET e == Scan(heap, m, k) IN
    /\ UNCHANGED loop
    /\ IF e = NULL THEN Done("update", <<m, k, v>>, heap, ENOENT)
       ELSE Done("update", <<m, k, v>>, [heap EXCEPT !.tile[e].value = v], 0)

HashmapRemove(m, k) ==
    LET e == Scan(heap, m, k) IN
    /\ MayRemove(m, k)
    /\ loop' = Gone(m, {k})
    /\ IF e = NULL THEN Done("remove", <<m, k>>, heap, NULL)
       ELSE Done("remove", <<m, k>>, RemoveEntry(heap, m, e), heap.tile[e].value)

HashmapRemoveValue(m, k, v) ==
    LET e == Scan(heap, m, k) IN
    /\ MayRemove(m, k)
    /\ IF e = NULL \/ heap.tile[e].value # v
       THEN Done("remove_value", <<m, k, v>>, heap, NULL) /\ UNCHANGED loop
       ELSE Done("remove_value", <<m, k, v>>, RemoveEntry(heap, m, e), v)
            /\ loop' = Gone(m, {k})

HashmapRemoveAndPut(m, old, new, v) ==
    LET e == Scan(heap, m, old)
        done(h, r) == Done("remove_and_put", <<m, old, new, v>>, h, r)
    IN
    /\ MayRemove(m, old)
    /\ IF e = NULL THEN done(heap, ENOENT) /\ UNCHANGED loop
       ELSE IF Scan(heap, m, new) # NULL THEN done(heap, EEXIST) /\ UNCHANGED loop
       ELSE done(Rekey(heap, m, e, new, v), 0) /\ loop' = Gone(m, {old})

HashmapRemoveAndReplace(m, old, new, v) ==
    LET e == Scan(heap, m, old)
        k == Scan(heap, m, new)
        h == IF k # NULL /\ k # e THEN RemoveEntry(heap, m, k) ELSE heap
    IN
    /\ MayRemoveAny(m)
    /\ UNCHANGED loop
    /\ Done("remove_and_replace", <<m, old, new, v>>,
            IF e = NULL THEN heap ELSE Rekey(h, m, e, new, v),
            IF e = NULL THEN ENOENT ELSE 0)

\* hashmap_steal_first(); hashmap_steal_first_key() returns the key instead.
HashmapStealFirst(m) ==
    LET e == heap.maps[m].iterate_list_head IN
    /\ MayRemoveAny(m)
    /\ UNCHANGED loop
    /\ IF e = NULL THEN Done("steal_first", <<m>>, heap, NULL)
       ELSE Done("steal_first", <<m>>, RemoveEntry(heap, m, e), heap.tile[e].value)

HashmapClear(m) ==
    LET remove(h, e) == RemoveEntry(h, m, e) IN
    /\ MayRemoveAny(m)
    /\ UNCHANGED loop
    /\ Done("clear", <<m>>, FoldLeft(remove, heap, IterateList(heap, m)), NULL)

\* The outcomes of hashmap_put() for each entry of n in turn, until one fails:
\* pairs of a heap and a result.
Merged(m, n) ==
    LET step(S, e) ==
          UNION {IF s.r # 0 \/ Scan(s.h, m, heap.tile[e].key) # NULL THEN {s}
                 ELSE UNION {{[h |-> h, r |-> ENOMEM]} \cup
                             (IF h.free # {}
                              THEN {[h |-> Insert(h, m, heap.tile[e].key,
                                                  heap.tile[e].value), r |-> 0]}
                              ELSE {}) : h \in Resizings(s.h, m)} : s \in S}
    IN  FoldLeft(step, {[h |-> heap, r |-> 0]}, IterateList(heap, n))

\* hashmap_merge(); hashmap_copy() merges into a new map.
HashmapMerge(m, n) ==
    /\ UNCHANGED loop
    /\ \E s \in Merged(m, n) : Done("merge", <<m, n>>, s.h, s.r)

\* Mutant of HashmapMove: the next entry is read after the entry has moved.
HashmapMoveOnward(m, n) ==
    LET first == heap.maps[n].iterate_list_head IN
    /\ MayRemoveAny(n)
    /\ UNCHANGED loop
    /\ Done("move", <<m, n>>,
            IF first = NULL \/ Scan(heap, m, heap.tile[first].key) # NULL THEN heap
            ELSE Transfer(heap, m, n, first), NULL)

HashmapMove(m, n) ==
    LET step(h, e) ==
          IF Scan(h, m, heap.tile[e].key) # NULL THEN h ELSE Transfer(h, m, n, e)
    IN
    /\ MayRemoveAny(n)
    /\ UNCHANGED loop
    /\ Done("move", <<m, n>>, FoldLeft(step, heap, IterateList(heap, n)), NULL)

HashmapMoveOne(m, n, k) ==
    LET e == Scan(heap, n, k)
        done(h, r) == Done("move_one", <<m, n, k>>, h, r)
    IN
    /\ MayRemove(n, k)
    /\ IF Scan(heap, m, k) # NULL THEN done(heap, EEXIST) /\ UNCHANGED loop
       ELSE IF e = NULL THEN done(heap, ENOENT) /\ UNCHANGED loop
       ELSE done(Transfer(heap, m, n, e), 0) /\ loop' = Gone(n, {k})

ValueAt(e) == IF e = NULL THEN NULL ELSE heap.tile[e].value

\* hashmap_get(), and hashmap_next(): the value behind that of k.
Get(m, k) == ValueAt(Scan(heap, m, k))
NextOf(m, k) ==
    LET e == Scan(heap, m, k) IN IF e = NULL THEN NULL ELSE ValueAt(heap.tile[e].iterate_next)

\* hashmap_first() and hashmap_last()
First(m) == ValueAt(heap.maps[m].iterate_list_head)
Final(m) == ValueAt(heap.maps[m].iterate_list_tail)

HashmapSize(m) == heap.maps[m].n_entries

\* The calls that only ask.
HashmapQuery(m, k) ==
    /\ call' = [op |-> "query", args |-> <<m, k>>,
                ret |-> <<Get(m, k), NextOf(m, k), First(m), Final(m), HashmapSize(m)>>]
    /\ UNCHANGED <<heap, loop>>

-----------------------------------------------------------------------------
(* HASHMAP_FOREACH: hashmap_iterate() hands out an entry and has stepped   *)
(* over it already when the loop's body runs.                              *)

ITERATOR_LAST == -1
ITERATOR_FIRST == NULL
NoLoop == [map |-> NULL, i |-> ITERATOR_FIRST, key |-> NULL, ahead |-> {}]

KeysIn(m) == {heap.tile[e].key : e \in ToSet(IterateList(heap, m))}

BeginLoop(m) ==
    /\ loop = NoLoop
    /\ loop' = [NoLoop EXCEPT !.map = m, !.ahead = KeysIn(m)]
    /\ UNCHANGED <<heap, call>>

\* Mutant of Iterate: the step over the entry is left to the next call.
IterateLate ==
    LET m == loop.map
        e == IF loop.i = ITERATOR_FIRST THEN heap.maps[m].iterate_list_head
             ELSE IF loop.i = ITERATOR_LAST THEN NULL ELSE heap.tile[loop.i].iterate_next
    IN
    /\ m # NULL
    /\ loop' = IF e = NULL THEN NoLoop
               ELSE [loop EXCEPT !.i = e, !.key = heap.tile[e].key,
                                 !.ahead = @ \ {heap.tile[e].key}]
    /\ UNCHANGED <<heap, call>>

\* hashmap_iterate(): the next entry, or the end of the loop.
Iterate ==
    LET m == loop.map
        e == IF loop.i = ITERATOR_FIRST THEN heap.maps[m].iterate_list_head
             ELSE IF loop.i = ITERATOR_LAST THEN NULL ELSE loop.i
        next == IF heap.tile[e].iterate_next = NULL THEN ITERATOR_LAST
                ELSE heap.tile[e].iterate_next
    IN
    /\ m # NULL
    /\ loop' = IF e = NULL THEN NoLoop
               ELSE [loop EXCEPT !.i = next, !.key = heap.tile[e].key,
                                 !.ahead = @ \ {heap.tile[e].key}]
    /\ UNCHANGED <<heap, call>>

\* break, or return, out of the loop's body.
BreakLoop == loop # NoLoop /\ loop' = NoLoop /\ UNCHANGED <<heap, call>>

\* shared/set.c: a set is a map of every member to itself.
Members == {k \in Keys : <<k, k>> \in Pairs}

SetNext(m) ==
    \/ \E v \in Members : HashmapPut(m, v, v)
    \/ \E n \in Maps \ {m} :
          \/ HashmapMerge(m, n)
          \/ HashmapMove(m, n)
          \/ \E v \in Members : HashmapMoveOne(m, n, v)
    \/ /\ m \in Busy
       /\ \/ HashmapStealFirst(m)
          \/ HashmapClear(m)
          \/ \E v \in Members :
                \/ HashmapReplace(m, v, v)
                \/ HashmapRemove(m, v)
                \/ HashmapQuery(m, v)
                \/ \E new \in Members : HashmapRemoveAndPut(m, v, new, new)

HashmapInit ==
    /\ \E r \in HashKeys :
          heap = [tile |-> [e \in {NULL} \cup Tiles |-> BlankTile],
                  maps |-> [m \in Maps |-> NewMap(r)],
                  free |-> Tiles]
    /\ call = [op |-> "none", args |-> <<>>, ret |-> <<NULL>>]
    /\ loop = NoLoop

HashmapNext ==
    \/ \E m \in Maps : SetNext(m)
    \/ \E m \in Busy :
          \/ BeginLoop(m)
          \/ \E p \in Pairs :
                \/ p[1] # p[2] /\ HashmapPut(m, p[1], p[2])
                \/ p[1] # p[2] /\ HashmapReplace(m, p[1], p[2])
                \/ HashmapUpdate(m, p[1], p[2])
                \/ HashmapRemoveValue(m, p[1], p[2])
                \/ \E old \in Keys : HashmapRemoveAndReplace(m, old, p[1], p[2])
    \/ Iterate
    \/ BreakLoop

HashmapSpec == HashmapInit /\ [][HashmapNext]_hashVars

-----------------------------------------------------------------------------
(* Properties                                                              *)

Entries(m) == ToSet(IterateList(heap, m))

\* The pointers make lists: the iteration list is as long as n_entries says, the
\* same forwards and backwards, its keys are distinct, every entry is in the
\* bucket of its key and in no other, and no tile is used twice or released and
\* used (link_entry(), unlink_entry(), resize_buckets(), the tile pool).
ListsWellFormed ==
    /\ \A m \in Maps :
          LET s == IterateList(heap, m) IN
          /\ Len(s) = heap.maps[m].n_entries
          /\ IsInjective(s)
          /\ Reverse(s) = Follow(heap.tile, heap.maps[m].iterate_list_tail,
                                 "iterate_previous")
          /\ \A e, f \in Entries(m) : heap.tile[e].key = heap.tile[f].key => e = f
          /\ \A b \in DOMAIN heap.maps[m].buckets :
                LET c == Follow(heap.tile, heap.maps[m].buckets[b], "bucket_next") IN
                /\ IsInjective(c)
                /\ ToSet(c) = {e \in Entries(m) : BucketHash(heap, m, heap.tile[e].key) = b}
                /\ \A i \in DOMAIN c : heap.tile[c[i]].bucket_previous =
                                         IF i = 1 THEN NULL ELSE c[i - 1]
    /\ \A m, n \in Maps : m # n => Entries(m) \cap Entries(n) = {}
    /\ heap.free = {e \in Tiles : \A m \in Maps : e \notin Entries(m)}

\* The lists are well-formed, the iterator of a loop is never a released entry, and every entry that was
\* there when the loop began, is there still and was not visited lies ahead of
\* it: so a loop that removes its own entry, replaces values and adds entries
\* misses none (hashmap_iterate(); server_rotate() and the reader rely on it).
LoopOnTrack ==
    ListsWellFormed /\ (loop.map # NULL =>
      LET s   == IterateList(heap, loop.map)
          pos == IF loop.i = ITERATOR_FIRST THEN 1
                 ELSE IF loop.i = ITERATOR_LAST THEN Len(s) + 1
                 ELSE CHOOSE j \in 1..Len(s) + 1 :
                        IF loop.i \in ToSet(s) THEN j <= Len(s) /\ s[j] = loop.i
                        ELSE j = Len(s) + 1
      IN  /\ loop.i > NULL => loop.i \in ToSet(s)
          /\ loop.ahead \subseteq {heap.tile[s[j]].key : j \in pos..Len(s)})

\* The map as the abstract specification sees it.
Contents(m) ==
    LET s == IterateList(heap, m)
    IN  [i \in 1..Len(s) |-> [key |-> heap.tile[s[i]].key, value |-> heap.tile[s[i]].value]]

Abstract == INSTANCE OrderedMap WITH map <- [m \in Maps |-> Contents(m)]

\* Every call returns what an ordered map returns and leaves what it leaves,
\* whatever the buckets, the hash keys and the tiles (all of shared/hashmap.c).
ImplementsOrderedMap == Abstract!AbstractSpec
=============================================================================
