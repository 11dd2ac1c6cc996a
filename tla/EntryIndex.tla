----------------------------- MODULE EntryIndex -----------------------------
(***************************************************************************)
(* The entry index of one journal file, as lib/journal-file.c writes it.   *)
(*                                                                         *)
(* Every entry object of the file is linked into several chains of entry   *)
(* arrays: the main chain that starts in the header, and one chain for     *)
(* each data object the entry refers to.  A chain is a linked list of      *)
(* arrays of growing capacity; a data object's chain keeps its first entry *)
(* outside the arrays, in data.entry_offset (the "plus one" entry).  The   *)
(* file is shared, through mmap, with readers of other processes that take *)
(* no lock: an item is stored first and the chain's counter is raised      *)
(* afterwards, and a reader relies on the counter alone.                   *)
(*                                                                         *)
(* Objects are named by small numbers that stand for their offsets: entry  *)
(* p is the p-th entry object of the file, a data object is a member of    *)
(* Data, and the order of the numbers is the order of the offsets.         *)
(***************************************************************************)
EXTENDS Naturals, Sequences, FiniteSets

CONSTANTS
    Data,        \* the data objects, named by their offsets
    ARRAY_MIN,   \* the least capacity of an entry array (4 in the source)
    Items,       \* the entries clients send, as sequences of data objects
    MaxEntries   \* bound: entries appended to the file

ASSUME IndexAssumption ==
    /\ Data \subseteq Nat \ {0}
    /\ ARRAY_MIN \in Nat \ {0}
    /\ Items \subseteq Seq(Data) \ {<<>>}
    /\ MaxEntries \in Nat

VARIABLES
    entry,       \* entry[p]: the data objects of entry p, in offset order
    chain,       \* chain[c]: the array chain of the header or of a data object
    writer,      \* what journal_file_link_entry() is about to do
    unlinked     \* history: the entries whose linking ended in an error

indexVars == <<entry, chain, writer, unlinked>>

\* The header's chain; no object has offset 0.
Header == 0

Chains == {Header} \cup Data

\* A chain: the first array is arrays[1], its next_entry_array_offset leads to
\* arrays[2], and so on.  An array's capacity is Len(items); an item not yet
\* set is 0.  start, the capacity of all the arrays before, is derived: the
\* code finds it by walking the chain.  extra is data.entry_offset.
EmptyChain == [extra |-> 0, arrays |-> <<>>, n |-> 0]

End(array) == array.start + Len(array.items)

-----------------------------------------------------------------------------
(* link_entry_into_array() and its plus_one variant                        *)

\* The capacity of the array appended when index hidx has no room: the walk
\* left n, the capacity of the last array, or 0.
NewCapacity(arrays, hidx) ==
    LET last == IF arrays = <<>> THEN 0 ELSE Len(arrays[Len(arrays)].items)
        n    == IF hidx > last THEN (hidx + 1) * 2 ELSE last * 2
    IN  IF n < ARRAY_MIN THEN ARRAY_MIN ELSE n

\* The arrays in which the walk finds room for index hidx.
Room(arrays, hidx) == {j \in DOMAIN arrays : hidx < End(arrays[j])}

\* The arrays once p is stored at index hidx.  The walk stops at the first
\* array with room; without one an array is appended that holds p.
StoreItem(arrays, hidx, p) ==
    IF Room(arrays, hidx) # {}
    THEN LET j == CHOOSE j \in Room(arrays, hidx) :
                    \A i \in Room(arrays, hidx) : j <= i
         IN  [arrays EXCEPT ![j].items[hidx - arrays[j].start + 1] = p]
    ELSE LET begin == IF arrays = <<>> THEN 0 ELSE End(arrays[Len(arrays)])
         IN  Append(arrays,
                    [start |-> begin,
                     items |-> [k \in 1..NewCapacity(arrays, hidx) |->
                                  IF k = hidx - begin + 1 THEN p ELSE 0]])

\* Chain c's index for its next array item: a data object keeps one entry
\* outside the arrays.
ArrayIndex(c, n) == IF c = Header THEN n ELSE n - 1

\* Does linking one more entry into chain c need a new array object?
NeedsArray(c) ==
    /\ c = Header \/ chain[c].n > 0
    /\ Room(chain[c].arrays, ArrayIndex(c, chain[c].n)) = {}

\* Mutants of Stored: the arrays of a data object indexed by its counter; the
\* last item overwritten, off by one.
StoredUnshifted(c, p) ==
    IF c # Header /\ chain[c].n = 0
    THEN [chain[c] EXCEPT !.extra = p]
    ELSE [chain[c] EXCEPT !.arrays = StoreItem(@, chain[c].n, p)]

StoredOverLast(c, p) ==
    IF c # Header /\ chain[c].n = 0
    THEN [chain[c] EXCEPT !.extra = p]
    ELSE LET n == ArrayIndex(c, chain[c].n) IN
         [chain[c] EXCEPT !.arrays = StoreItem(@, IF n = 0 THEN 0 ELSE n - 1, p)]

\* Chain c with p stored behind its last entry and the counter not yet raised.
Stored(c, p) ==
    IF c # Header /\ chain[c].n = 0
    THEN [chain[c] EXCEPT !.extra = p]
    ELSE [chain[c] EXCEPT
            !.arrays = StoreItem(@, ArrayIndex(c, chain[c].n), p)]

-----------------------------------------------------------------------------
(* The writer: journal_file_append_entry()                                 *)

Idle == [pc |-> "idle", at |-> 0]

\* The entry the writer is linking, and the chain it links it into: the
\* header's first, then that of each item.
Current == Len(entry)

\* Mutant of Target: the items are linked before the entry itself.
TargetItemsFirst ==
    IF writer.at = Len(entry[Current]) THEN Header
                                       ELSE entry[Current][writer.at + 1]

Target == IF writer.at = 0 THEN Header ELSE entry[Current][writer.at]

IndexInit ==
    /\ entry = <<>>
    /\ chain = [c \in Chains |-> EmptyChain]
    /\ writer = Idle
    /\ unlinked = {}

\* journal_file_append_entry_internal() writes the entry object and turns to
\* journal_file_link_entry().  The items are the data objects of the fields,
\* sorted by offset (qsort); append_data() finds the object of a field again,
\* so that a field sent twice occurs twice.
AppendEntry(items) ==
    /\ writer = Idle
    /\ Len(entry) < MaxEntries
    /\ entry' = Append(entry, items)
    /\ writer' = [pc |-> "store", at |-> 0]
    /\ UNCHANGED <<chain, unlinked>>

\* The entry's offset reaches its slot (in a new array if there is no room)
\* while readers still see the old counter.
StoreEntry ==
    /\ writer.pc = "store"
    /\ chain' = [chain EXCEPT ![Target] = Stored(Target, Current)]
    /\ writer' = [writer EXCEPT !.pc = "count"]
    /\ UNCHANGED <<entry, unlinked>>

\* journal_file_append_object() refuses a new array (-E2BIG, -ENOSPC, ...):
\* the error is returned at once and the remaining items stay unlinked.
StoreFails ==
    /\ writer.pc = "store"
    /\ NeedsArray(Target)
    /\ unlinked' = unlinked \cup {Current}
    /\ writer' = Idle
    /\ UNCHANGED <<entry, chain>>

\* Mutant of CountEntry: the loop over the items stops one too early.
CountEntryTooShort ==
    /\ writer.pc = "count"
    /\ chain' = [chain EXCEPT ![Target].n = @ + 1]
    /\ writer' = IF writer.at + 1 < Len(entry[Current])
                 THEN [pc |-> "store", at |-> writer.at + 1]
                 ELSE Idle
    /\ UNCHANGED <<entry, unlinked>>

\* The counter is raised, which publishes the item, and the writer goes on
\* with the entry's next item.
CountEntry ==
    /\ writer.pc = "count"
    /\ chain' = [chain EXCEPT ![Target].n = @ + 1]
    /\ writer' = IF writer.at < Len(entry[Current])
                 THEN [pc |-> "store", at |-> writer.at + 1]
                 ELSE Idle
    /\ UNCHANGED <<entry, unlinked>>

WriterNext ==
    \/ \E items \in Items : AppendEntry(items)
    \/ StoreEntry
    \/ StoreFails
    \/ CountEntry

IndexSpec == IndexInit /\ [][WriterNext]_indexVars

-----------------------------------------------------------------------------
(* What a reader finds: the items below the counter                        *)

\* The item at index i of a chain of arrays.
ArrayItem(arrays, i) ==
    LET j == CHOOSE j \in DOMAIN arrays :
               arrays[j].start <= i /\ i < End(arrays[j])
    IN  arrays[j].items[i - arrays[j].start + 1]

\* The entry at index i of chain c, counting from 0.
Item(c, i) ==
    IF c # Header /\ i = 0
    THEN chain[c].extra
    ELSE ArrayItem(chain[c].arrays, ArrayIndex(c, i))

\* The indices that chain c's counter publishes.
Indices(c) == {i \in 0..chain[c].n : i < chain[c].n}

\* Is entry p published in chain c?
Linked(c, p) == \E i \in Indices(c) : Item(c, i) = p

-----------------------------------------------------------------------------
(* journal_file_verify(), what it demands of the index                     *)

\* entry_points_to_data(): the entry names the data object, and it is in the
\* main array unless it lies beyond the last entry found there.
EntryPointsToData(p, d) ==
    /\ p \in DOMAIN entry
    /\ \E k \in DOMAIN entry[p] : entry[p][k] = d
    /\ \/ Linked(Header, p)
       \/ \A i \in Indices(Header) : Item(Header, i) < p

\* The chain is long enough for its counter and its items ascend strictly.
VerifyChain(c) ==
    /\ \A i \in Indices(c) :
          \/ c # Header /\ i = 0
          \/ Room(chain[c].arrays, ArrayIndex(c, i)) # {}
    /\ \A i \in Indices(c) : i > 0 => Item(c, i - 1) < Item(c, i)

\* verify_entry_array()
VerifyEntryArray ==
    /\ VerifyChain(Header)
    /\ \A i \in Indices(Header) : Item(Header, i) \in DOMAIN entry

\* Mutant of VerifyData: an array demanded to hold two items of its own.
VerifyDataTooStrict(d) ==
    /\ (chain[d].extra = 0) = (chain[d].n = 0)
    /\ chain[d].arrays # <<>> => chain[d].n > 2
    /\ VerifyChain(d)
    /\ \A i \in Indices(d) : EntryPointsToData(Item(d, i), d)

\* verify_data() and the check of n_entries in journal_file_object_verify()
VerifyData(d) ==
    /\ (chain[d].extra = 0) = (chain[d].n = 0)
    /\ chain[d].arrays # <<>> => chain[d].n >= 2
    /\ VerifyChain(d)
    /\ \A i \in Indices(d) : EntryPointsToData(Item(d, i), d)

\* journal_file_verify(): the entry objects of the file are counted, the main
\* array exists, and both directions of the index are followed.
Verify ==
    /\ Len(entry) = chain[Header].n
    /\ chain[Header].arrays # <<>>
    /\ VerifyEntryArray
    /\ \A d \in Data : VerifyData(d)

-----------------------------------------------------------------------------
(* Properties                                                              *)

Array == [start : Nat, items : Seq(Nat)]

Chain == [extra : Nat, arrays : Seq(Array), n : Nat]

\* Every variable has its type; in particular the loop of
\* journal_file_link_entry() never runs past the entry's last item.
IndexTypeOK ==
    /\ entry \in Seq(Seq(Data))
    /\ chain \in [Chains -> Chain]
    /\ writer \in [pc : {"idle", "store", "count"}, at : Nat]
    /\ writer.pc = "idle" => writer.at = 0
    /\ writer.pc # "idle" => /\ entry # <<>>
                             /\ writer.at <= Len(entry[Current])
    /\ unlinked \subseteq DOMAIN entry

\* The arrays of a chain are laid end to end and none is empty, so that
\* "i -= n" leads the walk of link_entry_into_array() and of every reader to
\* one slot for each index below the chain's capacity.
ChainShape ==
    \A c \in Chains :
        LET arrays == chain[c].arrays IN
        /\ arrays # <<>> => arrays[1].start = 0
        /\ \A j \in DOMAIN arrays : arrays[j].items # <<>>
        /\ \A j \in DOMAIN arrays : \A k \in DOMAIN arrays :
              k = j + 1 => arrays[k].start = End(arrays[j])

\* A reader that has read a chain's counter finds an entry of the file at
\* every index below it, whatever the writer is doing: p = 0 there is what
\* generic_array_bisect() reports as -EBADMSG.
CountedItemsSet ==
    \A c \in Chains : \A i \in Indices(c) :
        /\ c # Header \/ Room(chain[c].arrays, ArrayIndex(c, i)) # {}
        /\ Item(c, i) \in DOMAIN entry

\* The items of every chain ascend, those of the main chain strictly: what
\* bisection rests on.
ChainsSorted ==
    \A c \in Chains : \A i \in Indices(c) : \A j \in Indices(c) :
        i < j => IF c = Header THEN Item(c, i) < Item(c, j)
                               ELSE Item(c, i) <= Item(c, j)

\* A match never yields a wrong entry: what a data object's chain publishes is
\* an entry with that data object, and the main chain published it before.
IndexSound ==
    \A d \in Data : \A i \in Indices(d) :
        /\ \E k \in DOMAIN entry[Item(d, i)] : entry[Item(d, i)][k] = d
        /\ Linked(Header, Item(d, i))

\* A match misses no entry, except the one being linked and those whose
\* linking failed.
IndexComplete ==
    \A i \in Indices(Header) :
        LET p == Item(Header, i) IN
        \/ p \in unlinked
        \/ p = Current /\ writer # Idle
        \/ \A k \in DOMAIN entry[p] : Linked(entry[p][k], p)

\* What a reader has seen of a chain never changes under it: a step only adds
\* entries behind those that are published.
AppendOnly ==
    [][\A c \in Chains :
         /\ chain[c].n <= chain'[c].n
         /\ \A i \in Indices(c) : Item(c, i)' = Item(c, i)]_indexVars

\* Does an entry carry the same field twice?
Repeats(p) == \E j, k \in DOMAIN entry[p] : j # k /\ entry[p][j] = entry[p][k]

\* The verifier accepts every file that holds at least one entry ("missing
\* entry array" otherwise), whose appends all succeeded and none of whose
\* entries carries a field twice.
VerifyAccepts ==
    /\ writer = Idle /\ entry # <<>>
    /\ unlinked = {} /\ \A p \in DOMAIN entry : ~Repeats(p)
    => Verify
=============================================================================
