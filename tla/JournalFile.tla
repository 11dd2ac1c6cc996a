---------------------------- MODULE JournalFile -----------------------------
(***************************************************************************)
(* The objects of a journal file and the two hash tables that find them    *)
(* (lib/journal-file.c), with one process that appends, which may fail or  *)
(* be killed between any two stores to the mapped file, and another that   *)
(* searches the same file without a lock; and what the verifier            *)
(* (journalctl/journal-verify.c) asks of the objects and tables.           *)
(*                                                                         *)
(* The number of an object stands for its offset.  A data object is the    *)
(* key [field, value], a field object the key that is its name.  How       *)
(* entries are listed and found is in module EntryIndex.                   *)
(***************************************************************************)
EXTENDS Integers, Sequences, FiniteSets

CONSTANTS Payloads,      \* what may be logged: a set of [field, value]
          Hash,          \* hash64() of every payload and of every field's name
          Buckets,       \* the size of each hash table, by type of object
          EntryLists,    \* the entries that may be appended, as sequences of payloads
          Scopes         \* bounds: [entries, full, unmapped, kills, reads]

Types == {"data", "field"}
Fields == {d.field : d \in Payloads}

ASSUME JournalFileAssumption ==
    /\ Buckets \in [Types -> Nat \ {0}]
    /\ Hash \in [({"data"} \X Payloads) \union ({"field"} \X Fields) -> Nat]
    /\ EntryLists \subseteq Seq(Payloads)

VARIABLES objects,   \* the data and field objects, in the order of the file
          table,     \* head and tail offset of every bucket of both tables
          header,    \* n_objects, n_data, n_fields
          entries,   \* the entries appended: what was to be stored, and the offsets stored
          writer,    \* where journal_file_append_entry() is, and its local variables
          reader,    \* where the reader is, its local variables and its result
          orphans,   \* history: data objects linked by a call that failed before their field listed them
          used,      \* how much of the bounds is used up
          scope      \* the bounds of this behaviour

vars == <<objects, table, header, entries, writer, reader, orphans, used, scope>>

Bucket(t, key) == Hash[<<t, key>>] % Buckets[t]

-----------------------------------------------------------------------------
(* Chains                                                                  *)

\* The offsets of a chain from p on, and 0 after the last
Chain(p, link) ==
    LET at[i \in 0 .. Len(objects)] == IF i = 0 THEN p ELSE link[at[i - 1]] IN at

\* next_hash_offset; and the list of a field's data: head_data_offset, next_field_offset
NextHash == [p \in 0 .. Len(objects) |-> IF p = 0 THEN 0 ELSE objects[p].next]
NextField == [p \in 0 .. Len(objects) |-> IF p = 0 THEN 0 ELSE objects[p].list]

HashChain(t, b) == Chain(table[t][b].head, NextHash)
FieldList(fp) == Chain(objects[fp].list, NextField)

Offsets(c) == {c[i] : i \in DOMAIN c} \ {0}

\* Mutant: objects with the same hash are taken for the same.
MatchesHash(p, t, key) == objects[p].hash = Hash[<<t, key>>]

\* Is it the object looked for?
Matches(p, t, key) == objects[p].hash = Hash[<<t, key>>] /\ objects[p].key = key

\* journal_file_find_data_object_with_hash(), journal_file_find_field_object_with_hash(), as
\* the only writer sees them: the offset, 0 if there is none
FindObject(t, key) ==
    LET c == HashChain(t, Bucket(t, key))
        found == {i \in DOMAIN c : c[i] # 0 /\ Matches(c[i], t, key)}
    IN  IF found = {} THEN 0 ELSE c[CHOOSE i \in found : \A k \in found : i <= k]

-----------------------------------------------------------------------------
(* The writer                                                              *)

Idle == [pc |-> "idle", todo |-> <<>>, want |-> <<>>, done |-> <<>>, p |-> 0, fp |-> 0]

\* journal_file_init_header(), journal_file_setup_data_hash_table(),
\* journal_file_setup_field_hash_table()
Init ==
    /\ objects = <<>>
    /\ table = [t \in Types |-> [b \in 0 .. Buckets[t] - 1 |-> [head |-> 0, tail |-> 0]]]
    /\ header = [objects |-> 2, data |-> 0, field |-> 0]
    /\ entries = {}
    /\ writer = Idle
    /\ reader = [pc |-> "idle"]
    /\ orphans = {}
    /\ used = [entries |-> 0, full |-> 0, unmapped |-> 0, reads |-> 0, kills |-> 0]
    /\ scope \in Scopes

Use(what) == used[what] < scope[what] /\ used' = [used EXCEPT ![what] = @ + 1]

\* journal_file_append_entry() is called.
AppendEntry ==
    /\ writer.pc = "idle"
    /\ Use("entries")
    /\ \E list \in EntryLists : writer' = [Idle EXCEPT !.pc = "data", !.todo = list, !.want = list]
    /\ UNCHANGED <<objects, table, header, entries, reader, orphans, scope>>

\* An error ends the call.
Fail ==
    /\ writer' = Idle
    /\ orphans' = IF writer.pc \in {"field", "link_field"} THEN orphans \union {writer.p} ELSE orphans

\* journal_file_append_object(), with what its callers write into the object before they link it
AppendObject(t, key) ==
    /\ objects' = Append(objects, [type |-> t, key |-> key, hash |-> Hash[<<t, key>>],
                                   next |-> 0, list |-> 0])
    /\ header' = [header EXCEPT !.objects = @ + 1]

\* journal_file_allocate(): the file may not grow.
Full == Use("full") /\ Fail /\ UNCHANGED <<objects, header>>

Stored(w, p) == [w EXCEPT !.pc = "data", !.todo = Tail(@), !.done = Append(@, p), !.p = 0, !.fp = 0]

AppendData ==
    /\ writer.pc = "data" /\ writer.todo # <<>>
    /\ LET d == Head(writer.todo)
           p == FindObject("data", d)
       IN  \/ /\ p # 0
              /\ writer' = Stored(writer, p)
              /\ UNCHANGED <<objects, header, orphans, used>>
           \/ /\ p = 0
              /\ AppendObject("data", d)
              /\ writer' = [writer EXCEPT !.pc = "link_data", !.p = Len(objects) + 1]
              /\ UNCHANGED <<orphans, used>>
           \/ p = 0 /\ Full
    /\ UNCHANGED <<table, entries, reader, scope>>

AppendField ==
    /\ writer.pc = "field"
    /\ LET name == objects[writer.p].key.field
           fp == FindObject("field", name)
       IN  \/ /\ fp # 0
              /\ writer' = [writer EXCEPT !.pc = "next_field", !.fp = fp]
              /\ UNCHANGED <<objects, header, orphans, used>>
           \/ /\ fp = 0
              /\ AppendObject("field", name)
              /\ writer' = [writer EXCEPT !.pc = "link_field", !.fp = Len(objects) + 1]
              /\ UNCHANGED <<orphans, used>>
           \/ fp = 0 /\ Full
    /\ UNCHANGED <<table, entries, reader, scope>>

\* Mutants: the object becomes the only one of its bucket; the tail stays at the first object.
PatchHead(bk, p) == [object |-> 0, head |-> p]
FirstTail(tail, p) == IF tail = 0 THEN p ELSE tail

\* Where journal_file_link_data() and journal_file_link_field() store the new offset: in the last
\* object of the bucket, or in its head
Patch(bk, p) == IF bk.tail = 0 THEN [object |-> 0, head |-> p] ELSE [object |-> bk.tail, head |-> bk.head]
NewTail(tail, p) == p

\* The first store, that makes an object visible; the last object of the bucket may not be mapped.
LinkObject(t, p) ==
    LET b == Bucket(t, objects[p].key)
        patch == Patch(table[t][b], p)
    IN  \/ /\ table' = [table EXCEPT ![t][b].head = patch.head]
           /\ objects' = IF patch.object = 0 THEN objects
                         ELSE [objects EXCEPT ![patch.object].next = p]
           /\ writer' = [writer EXCEPT !.pc = IF t = "data" THEN "tail_data" ELSE "tail_field"]
           /\ UNCHANGED <<orphans, used>>
        \/ /\ patch.object # 0
           /\ Use("unmapped")
           /\ Fail
           /\ UNCHANGED <<table, objects>>

\* The second, of the tail, and the number of objects
LinkTail(t, p) ==
    LET b == Bucket(t, objects[p].key)
    IN  /\ table' = [table EXCEPT ![t][b].tail = NewTail(@, p)]
        /\ header' = [header EXCEPT ![t] = @ + 1]

LinkData ==
    /\ writer.pc = "link_data"
    /\ LinkObject("data", writer.p)
    /\ UNCHANGED <<header, entries, reader, scope>>
LinkDataTail ==
    /\ writer.pc = "tail_data"
    /\ LinkTail("data", writer.p)
    /\ writer' = [writer EXCEPT !.pc = "field"]
    /\ UNCHANGED <<objects, entries, reader, orphans, used, scope>>
LinkField ==
    /\ writer.pc = "link_field"
    /\ LinkObject("field", writer.fp)
    /\ UNCHANGED <<header, entries, reader, scope>>
LinkFieldTail ==
    /\ writer.pc = "tail_field"
    /\ LinkTail("field", writer.fp)
    /\ writer' = [writer EXCEPT !.pc = "next_field"]
    /\ UNCHANGED <<objects, entries, reader, orphans, used, scope>>

\* Mutant: what the field lists already is not kept.
NextListedNone(fp) == 0

NextListed(fp) == objects[fp].list

\* The last two stores of journal_file_append_data()
SetNextField ==
    /\ writer.pc = "next_field"
    /\ objects' = [objects EXCEPT ![writer.p].list = NextListed(writer.fp)]
    /\ writer' = [writer EXCEPT !.pc = "head_data"]
    /\ UNCHANGED <<table, header, entries, reader, orphans, used, scope>>
SetHeadData ==
    /\ writer.pc = "head_data"
    /\ objects' = [objects EXCEPT ![writer.fp].list = writer.p]
    /\ writer' = Stored(writer, writer.p)
    /\ UNCHANGED <<table, header, entries, reader, orphans, used, scope>>

\* The entry object is appended and linked (module EntryIndex).
LinkEntry ==
    /\ writer.pc = "data" /\ writer.todo = <<>>
    /\ entries' = entries \union {[want |-> writer.want, items |-> writer.done]}
    /\ writer' = Idle
    /\ UNCHANGED <<objects, table, header, reader, orphans, used, scope>>

\* The process dies.  The file is never written to again: it was not closed.
Kill ==
    /\ writer.pc # "dead"
    /\ Use("kills")
    /\ writer' = [Idle EXCEPT !.pc = "dead"]
    /\ UNCHANGED <<objects, table, header, entries, reader, orphans, scope>>

-----------------------------------------------------------------------------
(* A reader, in another process                                            *)

\* What a search, or an enumeration, that began now would have to find: what is linked, and what
\* the entries are made of
Linked(key) == FindObject("data", key) # 0 \/ \E e \in entries : \E i \in DOMAIN e.want : e.want[i] = key
Listed(name) ==
    LET fp == FindObject("field", name)
    IN  IF fp = 0 THEN {} ELSE {objects[p].key : p \in Offsets(FieldList(fp))}
Expected(name) ==
    Listed(name) \union
    {d \in Payloads : d.field = name /\ \E e \in entries : \E i \in DOMAIN e.want :
                                          e.want[i] = d /\ e.items[i] \notin orphans}

\* journal_file_find_data_object(), or sd_journal_enumerate_unique() in this file
Search ==
    /\ reader.pc = "idle"
    /\ Use("reads")
    /\ \E t \in Types : \E key \in IF t = "data" THEN Payloads ELSE Fields :
         reader' = [pc |-> "walk", type |-> t, key |-> key, p |-> table[t][Bucket(t, key)].head,
                    before |-> IF t = "field" THEN Expected(key) ELSE IF Linked(key) THEN {key} ELSE {},
                    seen |-> <<>>]
    /\ UNCHANGED <<objects, table, header, entries, writer, orphans, scope>>

\* One object of the bucket
Walk ==
    /\ reader.pc = "walk"
    /\ LET p == reader.p IN
       reader' =
         IF p = 0 THEN [reader EXCEPT !.pc = "end"]
         ELSE IF objects[p].type # reader.type THEN [reader EXCEPT !.pc = "EBADMSG"]
         ELSE IF ~Matches(p, reader.type, reader.key) THEN [reader EXCEPT !.p = NextHash[p]]
         ELSE IF reader.type = "data" THEN [reader EXCEPT !.pc = "end", !.seen = <<objects[p].key>>]
         ELSE [reader EXCEPT !.pc = "list", !.p = objects[p].list]
    /\ UNCHANGED <<objects, table, header, entries, writer, orphans, used, scope>>

\* One object of the field's list
Enumerate ==
    /\ reader.pc = "list"
    /\ LET p == reader.p IN
       reader' =
         IF p = 0 THEN [reader EXCEPT !.pc = "end"]
         ELSE IF objects[p].type # "data" THEN [reader EXCEPT !.pc = "EBADMSG"]
         ELSE [reader EXCEPT !.p = NextField[p], !.seen = Append(@, objects[p].key)]
    /\ UNCHANGED <<objects, table, header, entries, writer, orphans, used, scope>>

Return ==
    /\ reader.pc = "end"
    /\ reader' = [pc |-> "idle"]
    /\ UNCHANGED <<objects, table, header, entries, writer, orphans, used, scope>>

WriterNext ==
    \/ AppendEntry \/ AppendData \/ LinkData \/ LinkDataTail
    \/ AppendField \/ LinkField \/ LinkFieldTail
    \/ SetNextField \/ SetHeadData \/ LinkEntry \/ Kill
ReaderNext == Search \/ Walk \/ Enumerate \/ Return

Next == WriterNext \/ ReaderNext

Spec == Init /\ [][Next]_vars

-----------------------------------------------------------------------------
(* The verifier                                                            *)

Of(t) == {p \in 1 .. Len(objects) : objects[p].type = t}

\* journal_file_object_verify(), for data and field objects
VerifyObjects == \A p \in Of("data") : objects[p].hash = Hash[<<"data", objects[p].key>>]

\* journal_file_verify(), after its first pass: what the header says of the objects
VerifyHeader ==
    /\ header.objects = Len(objects) + 2
    /\ \A t \in Types : header[t] = Cardinality(Of(t))

\* verify_hash_table()
VerifyHashTable ==
    \A b \in 0 .. Buckets["data"] - 1 :
      LET c == HashChain("data", b)
          tail == table["data"][b].tail
      IN  /\ c[0] = 0 => tail = 0
          /\ \A p \in Offsets(c) :
               /\ objects[p].type = "data" /\ objects[p].hash % Buckets["data"] = b
               /\ IF NextHash[p] = 0 THEN tail = p ELSE p < NextHash[p]

\* data_object_in_hash_table(), verify_entry()
InHashTable(p) == p \in Offsets(HashChain("data", objects[p].hash % Buckets["data"]))
VerifyEntries == \A e \in entries : \A i \in DOMAIN e.items : InHashTable(e.items[i])

-----------------------------------------------------------------------------
(* Properties                                                              *)

\* A reader that walks a bucket while the writer links objects, fails or dies finds what was
\* linked, or part of an entry, when it began, nothing else, and never an object of the wrong type.
LookupExact ==
    /\ reader.pc # "EBADMSG"
    /\ (reader.pc = "end" /\ reader.type = "data") =>
          /\ reader.before # {} => reader.seen = <<reader.key>>
          /\ \A i \in DOMAIN reader.seen : reader.seen[i] = reader.key

\* An enumeration of the values of a field returns each value once, only values of the field, and
\* all that the field listed, or entries were made of, when it began.
EnumerateExact ==
    (reader.pc = "end" /\ reader.type = "field") =>
        /\ \A i, j \in DOMAIN reader.seen : reader.seen[i] = reader.seen[j] => i = j
        /\ \A i \in DOMAIN reader.seen : reader.seen[i].field = reader.key
        /\ reader.before \subseteq {reader.seen[i] : i \in DOMAIN reader.seen}

\* An entry refers to one object for each payload it was made of; equal payloads of all entries
\* share one object, whatever collides; and its field lists the payload, unless an earlier call
\* failed between linking the data object and making its field's object.
EntriesExact ==
    \A e \in entries :
       /\ Len(e.items) = Len(e.want)
       /\ \A i \in DOMAIN e.items :
            /\ objects[e.items[i]].key = e.want[i]
            /\ FindObject("data", e.want[i]) = e.items[i]
            /\ e.items[i] \notin orphans => e.want[i] \in Listed(e.want[i].field)

\* Whenever no append is under way, and none was ended because an object could not be mapped, the
\* verifier accepts the objects, the tables and the entries.
ObjectsVerify ==
    (writer.pc = "idle" /\ used.unmapped = 0) =>
        VerifyObjects /\ VerifyHeader /\ VerifyHashTable /\ VerifyEntries
=============================================================================
